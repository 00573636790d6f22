--------------------------- MODULE SettingsProofs ---------------------------
(***************************************************************************)
(* Proofs about Settings for any files, drafts, services, flags and ports. *)
(* The loops of the code are recursive functions there, and so is the way  *)
(* up from a file: what they compute is proved by induction, which the     *)
(* first lemmas derive from the well-foundedness of the natural numbers.   *)
(***************************************************************************)
EXTENDS Settings, FiniteSetTheorems, TLAPS

-----------------------------------------------------------------------------
(* Numbers *)

(* The least-number principle, for sets. *)
LEMMA LeastNumber ==
    ASSUME NEW T, T \subseteq Nat, T # {}
    PROVE  \E n \in T : \A m \in T : n <= m
<1> DEFINE R == OpToRel(<, Nat)
<1>1. PICK n \in T : \A m \in T : ~(<<m, n>> \in R)
  <2>1. IsWellFoundedOn(R, Nat)
    BY NatLessThanWellFounded
  <2> HIDE DEF R
  <2>2. QED
    BY <2>1, WFMin
<1>2. \A m \in T : ~(m < n)
  BY <1>1 DEF OpToRel
<1>3. QED
  BY <1>2

(* Induction, for sets. *)
LEMMA Induction ==
    ASSUME NEW T, 0 \in T, \A n \in T \cap Nat : n + 1 \in T
    PROVE  \A n \in Nat : n \in T
<1> SUFFICES ASSUME Nat \ T # {} PROVE FALSE
  OBVIOUS
<1>1. PICK n \in Nat \ T : \A m \in Nat \ T : n <= m
  BY LeastNumber
<1>2. n # 0 /\ n - 1 \in Nat
  BY <1>1
<1>3. n - 1 \in T
  BY <1>1, <1>2
<1>4. PICK m \in Nat : m = n - 1
  BY <1>2
<1>5. m + 1 \in T /\ m + 1 = n
  BY <1>3, <1>4
<1>6. QED
  BY <1>1, <1>5

(* Places of a sequence have a first and a last. *)
LEMMA FirstPlace ==
    ASSUME NEW n \in Nat, NEW T, T \subseteq 1..n, T # {}
    PROVE  Min(T) \in T /\ \A i \in T : Min(T) <= i
<1>1. \E i \in T : \A k \in T : i <= k
  <2>1. T \subseteq Nat
    OBVIOUS
  <2>2. QED
    BY <2>1, LeastNumber
<1>2. QED
  BY <1>1, Zenon DEF Min

LEMMA LastPlace ==
    ASSUME NEW n \in Nat, NEW T, T \subseteq 1..n, T # {}
    PROVE  Max(T) \in T /\ \A i \in T : Max(T) >= i
<1> DEFINE D == {n - i : i \in T}
<1>1. D \subseteq Nat /\ D # {}
  <2>1. \A i \in T : n - i \in Nat
    OBVIOUS
  <2>2. QED
    BY <2>1
<1>2. PICK d \in D : \A e \in D : d <= e
  BY <1>1, LeastNumber
<1>3. PICK i \in T : d = n - i
  OBVIOUS
<1>4. \A k \in T : i >= k
  <2>1. TAKE k \in T
  <2>2. n - i <= n - k
    BY <1>2, <1>3
  <2>3. QED
    BY <2>2
<1>5. QED
  BY <1>3, <1>4, Zenon DEF Max

-----------------------------------------------------------------------------
(* Loops over a list *)

KeptStep(s, at, g, i) ==
    IF i = 0 THEN <<>> ELSE IF i \in at THEN Append(g[i - 1], s[i]) ELSE g[i - 1]

(* The loop of Kept has its values. *)
LEMMA KeptRuns ==
    ASSUME NEW s, NEW at, Len(s) \in Nat
    PROVE  \E g : /\ g = [i \in 0..Len(s) |-> KeptStep(s, at, g, i)]
                  /\ Kept(s, at) = g[Len(s)]
<1> DEFINE T == {n \in Nat : \E g : g = [i \in 0..n |-> KeptStep(s, at, g, i)]}
<1>1. 0 \in T
  <2> DEFINE g == [i \in 0..0 |-> <<>>]
  <2>1. g = [i \in 0..0 |-> KeptStep(s, at, g, i)]
    BY DEF KeptStep
  <2>2. QED
    BY <2>1
<1>2. ASSUME NEW n \in T \cap Nat PROVE n + 1 \in T
  <2>1. PICK g : g = [i \in 0..n |-> KeptStep(s, at, g, i)]
    OBVIOUS
  <2> DEFINE h == [i \in 0..(n + 1) |-> KeptStep(s, at, g, i)]
  <2>2. \A i \in 0..n : h[i] = g[i]
    BY <2>1
  <2>3. ASSUME NEW i \in 0..(n + 1) PROVE KeptStep(s, at, h, i) = KeptStep(s, at, g, i)
    <3>1. CASE i = 0
      BY <3>1 DEF KeptStep
    <3>2. CASE i # 0
      <4>1. i - 1 \in 0..n
        BY <3>2
      <4>2. h[i - 1] = g[i - 1]
        BY <2>2, <4>1
      <4> HIDE DEF h
      <4>3. QED
        BY <4>2 DEF KeptStep
    <3>3. QED
      BY <3>1, <3>2
  <2>4. h = [i \in 0..(n + 1) |-> KeptStep(s, at, h, i)]
    BY <2>3
  <2> HIDE DEF h
  <2>5. QED
    BY <2>4
<1>3. Len(s) \in T
  <2> HIDE DEF T
  <2>1. \A n \in T \cap Nat : n + 1 \in T
    BY <1>2
  <2>2. QED
    BY <1>1, <2>1, Induction
<1>4. QED
  BY <1>3 DEF Kept, KeptStep

(* t is what s has at some places, in order; h says which is where. *)
Picks(t, s, at, h) ==
    /\ h \in [1..Len(t) -> at]
    /\ \A k \in 1..Len(t) : t[k] = s[h[k]]
    /\ \A i \in at : \E k \in 1..Len(t) : h[k] = i
    /\ \A i, k \in 1..Len(t) : i < k => h[i] < h[k]

(* One more element goes through the loop: t has what it keeps of the      *)
(* first n, and u of the first n + 1.                                      *)
OneMore(S, s, at, n, t, h, old, u, new) ==
    /\ s \in Seq(S) /\ at \subseteq DOMAIN s
    /\ n \in Nat /\ n + 1 <= Len(s)
    /\ \A i : i \in old <=> i \in at /\ i <= n
    /\ \A i : i \in new <=> i \in at /\ i <= n + 1
    /\ t \in Seq(S) /\ Picks(t, s, old, h)
    /\ n + 1 \in at => u = Append(t, s[n + 1])
    /\ n + 1 \notin at => u = t

LEMMA KeptOneMore ==
    ASSUME NEW S, NEW s, NEW at, NEW n, NEW t, NEW h, NEW old, NEW u, NEW new,
           OneMore(S, s, at, n, t, h, old, u, new)
    PROVE  u \in Seq(S) /\ \E k : Picks(u, s, new, k)
<1>0. /\ s \in Seq(S) /\ at \subseteq DOMAIN s
      /\ n \in Nat /\ n + 1 <= Len(s)
      /\ \A i : i \in old <=> i \in at /\ i <= n
      /\ \A i : i \in new <=> i \in at /\ i <= n + 1
      /\ t \in Seq(S) /\ Picks(t, s, old, h)
      /\ n + 1 \in at => u = Append(t, s[n + 1])
      /\ n + 1 \notin at => u = t
  BY DEF OneMore
<1> DEFINE m == Len(t)
<1>1. m \in Nat /\ at \subseteq Nat /\ s[n + 1] \in S
  BY <1>0
<1>2. CASE n + 1 \notin at
  <2>1. \A i : i \in new <=> i \in old
    BY <1>0, <1>1, <1>2
  <2>2. new = old
    BY <2>1, Zenon
  <2>3. u = t
    BY <1>0, <1>2
  <2>4. QED
    BY <1>0, <2>2, <2>3
<1>3. CASE n + 1 \in at
  <2> DEFINE g == [k \in 1..(m + 1) |-> IF k <= m THEN h[k] ELSE n + 1]
  <2>1. u = Append(t, s[n + 1])
    BY <1>0, <1>3
  <2>2. u \in Seq(S) /\ Len(u) = m + 1
    BY <1>0, <1>1, <2>1
  <2>3. (\A k \in 1..m : u[k] = t[k]) /\ u[m + 1] = s[n + 1]
    BY <1>0, <1>1, <2>1
  <2>4. new = old \cup {n + 1}
    BY <1>0, <1>1, <1>3
  <2>5. /\ h \in [1..m -> old]
        /\ \A k \in 1..m : t[k] = s[h[k]]
        /\ \A i \in old : \E k \in 1..m : h[k] = i
        /\ \A i, k \in 1..m : i < k => h[i] < h[k]
    BY <1>0 DEF Picks
  <2>6. (\A k \in 1..m : g[k] = h[k]) /\ g[m + 1] = n + 1
    BY <1>1
  <2>7. g \in [1..(m + 1) -> new]
    BY <1>1, <2>4, <2>5
  <2>8. \A k \in 1..(m + 1) : k \in 1..m \/ k = m + 1
    BY <1>1
  <2>9. 1..m \subseteq 1..(m + 1) /\ m + 1 \in 1..(m + 1)
    BY <1>1
  <2> HIDE DEF g, m
  <2>10. \A k \in 1..(m + 1) : u[k] = s[g[k]]
    BY <2>3, <2>5, <2>6, <2>8
  <2>11. \A i \in new : \E k \in 1..(m + 1) : g[k] = i
    BY <2>4, <2>5, <2>6, <2>9, Zenon
  <2>12. ASSUME NEW i \in 1..(m + 1), NEW k \in 1..(m + 1), i < k PROVE g[i] < g[k]
    <3>1. i \in 1..m
      BY <1>0, <1>1, <2>12
    <3>2. g[i] = h[i] /\ h[i] \in Nat /\ h[i] <= n
      BY <1>0, <1>1, <3>1, <2>5, <2>6
    <3>3. CASE k \in 1..m
      BY <2>12, <3>1, <3>3, <2>5, <2>6
    <3>4. CASE k = m + 1
      BY <1>0, <3>2, <3>4, <2>6
    <3>5. QED
      BY <3>3, <3>4, <2>8
  <2>13. Picks(u, s, new, g)
    BY <2>2, <2>7, <2>10, <2>11, <2>12 DEF Picks
  <2>14. QED
    BY <2>2, <2>13
<1>4. QED
  BY <1>2, <1>3

(* What a loop keeps: the elements at the places it does not skip, once    *)
(* each and in their order.                                                *)
LEMMA KeptPlaces ==
    ASSUME NEW S, NEW s \in Seq(S), NEW at, at \subseteq DOMAIN s
    PROVE  Kept(s, at) \in Seq(S) /\ \E h : Picks(Kept(s, at), s, at, h)
<1>1. Len(s) \in Nat /\ DOMAIN s = 1..Len(s) /\ at \subseteq 1..Len(s)
  OBVIOUS
<1>2. PICK g : /\ g = [i \in 0..Len(s) |-> KeptStep(s, at, g, i)]
               /\ Kept(s, at) = g[Len(s)]
  BY <1>1, KeptRuns
<1> DEFINE Upto(n) == {i \in at : i <= n}
           Fine(n) == g[n] \in Seq(S) /\ \E h : Picks(g[n], s, Upto(n), h)
           T == {n \in Nat : n <= Len(s) => Fine(n)}
<1>3. Fine(0)
  <2>1. g[0] = <<>>
    BY <1>1, <1>2 DEF KeptStep
  <2>2. Upto(0) = {}
    BY <1>1
  <2>3. Picks(<<>>, s, {}, <<>>)
    BY DEF Picks
  <2>4. <<>> \in Seq(S)
    OBVIOUS
  <2> HIDE DEF Upto
  <2>5. QED
    BY <2>1, <2>2, <2>3, <2>4
<1>4. ASSUME NEW n \in Nat, n + 1 <= Len(s), Fine(n) PROVE Fine(n + 1)
  <2>1. PICK h : Picks(g[n], s, Upto(n), h)
    BY <1>4
  <2>2. n + 1 \in 0..Len(s) /\ n + 1 # 0 /\ (n + 1) - 1 = n
    BY <1>1, <1>4
  <2>3. g[n + 1] = KeptStep(s, at, g, n + 1)
    BY <1>2, <2>2, Zenon
  <2>4. g[n + 1] = IF n + 1 \in at THEN Append(g[n], s[n + 1]) ELSE g[n]
    BY <2>2, <2>3 DEF KeptStep
  <2>5. g[n] \in Seq(S)
    BY <1>4
  <2>6. g[n + 1] \in Seq(S) /\ \E k : Picks(g[n + 1], s, Upto(n + 1), k)
    <3> DEFINE old == Upto(n)
               new == Upto(n + 1)
    <3>1. /\ \A i : i \in old <=> i \in at /\ i <= n
          /\ \A i : i \in new <=> i \in at /\ i <= n + 1
      OBVIOUS
    <3>2. Picks(g[n], s, old, h)
      BY <2>1
    <3> DEFINE t == g[n]
               u == g[n + 1]
    <3>3. /\ t \in Seq(S)
          /\ n + 1 \in at => u = Append(t, s[n + 1])
          /\ n + 1 \notin at => u = t
      BY <2>4, <2>5
    <3>4. n + 1 <= Len(s)
      BY <1>4
    <3> HIDE DEF old, new, t, u
    <3>5. Picks(t, s, old, h)
      BY <3>2 DEF t
    <3>6. OneMore(S, s, at, n, t, h, old, u, new)
      BY <3>1, <3>3, <3>4, <3>5 DEF OneMore
    <3>7. u \in Seq(S) /\ \E k : Picks(u, s, new, k)
      BY <3>6, KeptOneMore
    <3>8. QED
      BY <3>7 DEF new, u
  <2>7. QED
    BY <2>6
<1>5. Fine(Len(s))
  <2> HIDE DEF Fine
  <2>1. 0 \in T
    BY <1>3
  <2>2. \A n \in T \cap Nat : n + 1 \in T
    BY <1>1, <1>4
  <2>3. Len(s) \in T
    <3> HIDE DEF T
    <3>1. QED
      BY <1>1, <2>1, <2>2, Induction
  <2>4. QED
    BY <1>1, <2>3
<1>6. Upto(Len(s)) = at
  BY <1>1
<1>7. QED
  <2> HIDE DEF Upto
  <2>1. QED
    BY <1>2, <1>5, <1>6

(* What a loop keeps, forgetting the order. *)
LEMMA KeptElements ==
    ASSUME NEW S, NEW s \in Seq(S), NEW at, at \subseteq DOMAIN s
    PROVE  /\ Kept(s, at) \in Seq(S)
           /\ \A k \in DOMAIN Kept(s, at) : \E i \in at : Kept(s, at)[k] = s[i]
           /\ \A i \in at : \E k \in DOMAIN Kept(s, at) : Kept(s, at)[k] = s[i]
<1> DEFINE t == Kept(s, at)
<1>1. t \in Seq(S) /\ \E h : Picks(t, s, at, h)
  BY KeptPlaces
<1>2. DOMAIN t = 1..Len(t)
  BY <1>1
<1>3. PICK h : Picks(t, s, at, h)
  BY <1>1
<1> HIDE DEF t
<1>4. h \in [1..Len(t) -> at] /\ \A k \in 1..Len(t) : t[k] = s[h[k]]
  BY <1>3 DEF Picks
<1>5. \A k \in DOMAIN t : \E i \in at : t[k] = s[i]
  BY <1>2, <1>4
<1>6. \A i \in at : \E k \in DOMAIN t : t[k] = s[i]
  BY <1>2, <1>3, <1>4 DEF Picks
<1>7. QED
  BY <1>1, <1>5, <1>6 DEF t

(* The same for a list without some names. *)
LEMMA WithoutElements ==
    ASSUME NEW S, NEW s \in Seq(S), NEW names
    PROVE  /\ Without(s, names) \in Seq(S)
           /\ \A k \in DOMAIN Without(s, names) :
                 /\ Without(s, names)[k].name \notin names
                 /\ \E i \in DOMAIN s : Without(s, names)[k] = s[i]
           /\ \A i \in DOMAIN s : s[i].name \notin names =>
                 \E k \in DOMAIN Without(s, names) : Without(s, names)[k] = s[i]
<1> DEFINE at == {i \in DOMAIN s : s[i].name \notin names}
<1>1. /\ Kept(s, at) \in Seq(S)
      /\ \A k \in DOMAIN Kept(s, at) : \E i \in at : Kept(s, at)[k] = s[i]
      /\ \A i \in at : \E k \in DOMAIN Kept(s, at) : Kept(s, at)[k] = s[i]
  <2>1. at \subseteq DOMAIN s
    OBVIOUS
  <2> HIDE DEF at
  <2>2. QED
    BY <2>1, KeptElements
<1>2. Without(s, names) = Kept(s, at)
  BY DEF Without
<1>3. QED
  BY <1>1, <1>2, Zenon

-----------------------------------------------------------------------------
(* Files *)

(* A ports field changes nothing else of its service. *)
LEMMA PortsChange ==
    ASSUME NEW s \in ServiceConfig, NEW all \in BOOLEAN, NEW sel \in Seq(PortSelector)
    PROVE  /\ [s EXCEPT !.all = all, !.sel = sel] \in ServiceConfig
           /\ [s EXCEPT !.all = all, !.sel = sel].name = s.name
           /\ [s EXCEPT !.all = all, !.sel = sel].all = all
           /\ [s EXCEPT !.all = all, !.sel = sel].sel = sel
           /\ s.all = all /\ s.sel = sel => [s EXCEPT !.all = all, !.sel = sel] = s
BY DEF ServiceConfig

(* What a service is on disk. *)
LEMMA EncodedType ==
    ASSUME NEW s \in ServiceConfig
    PROVE  /\ Encoded(s) \in DiskService
           /\ Encoded(s).svc = [s EXCEPT !.all = FALSE, !.sel = <<>>]
           /\ Encoded(s).items = s.sel
           /\ Encoded(s).form = "all" <=> s.all
<1>1. s.sel \in Seq(PortSelector) /\ <<>> \in Seq(PortSelector) /\ s.all \in BOOLEAN
  BY DEF ServiceConfig
<1>2. [s EXCEPT !.all = FALSE, !.sel = <<>>] \in ServiceConfig
  BY <1>1, PortsChange
<1>3. Encoded(s).form \in {"all", "none", "names", "list"} /\ (Encoded(s).form = "all" <=> s.all)
  <2>1. CASE s.all
    BY <2>1 DEF Encoded
  <2>2. CASE ~s.all /\ s.sel = <<>>
    BY <2>2 DEF Encoded
  <2>3. CASE ~s.all /\ s.sel # <<>>
    BY <2>3 DEF Encoded
  <2>4. QED
    BY <2>1, <2>2, <2>3
<1> DEFINE e == Encoded(s)
<1>4. e = [svc |-> [s EXCEPT !.all = FALSE, !.sel = <<>>], form |-> e.form, items |-> s.sel]
  BY DEF Encoded
<1> HIDE DEF e
<1>5. e \in DiskService
  BY <1>1, <1>2, <1>3, <1>4 DEF DiskService, e
<1>6. QED
  BY <1>3, <1>4, <1>5 DEF e

(* A file reads back as services of the names it has. *)
LEMMA DecodedType ==
    ASSUME NEW e \in DiskService, NEW format
    PROVE  Decoded(e, format) \in ServiceConfig /\ Decoded(e, format).name = e.svc.name
<1>1. e.svc \in ServiceConfig /\ e.items \in Seq(PortSelector) /\ <<>> \in Seq(PortSelector)
  BY DEF DiskService
<1>2. UnmarshalYAML(e) \in ServiceConfig /\ UnmarshalYAML(e).name = e.svc.name
  <2>1. TRUE \in BOOLEAN /\ FALSE \in BOOLEAN
    OBVIOUS
  <2>2. CASE e.form = "all"
    <3>1. UnmarshalYAML(e) = [e.svc EXCEPT !.all = TRUE, !.sel = <<>>]
      BY <2>2 DEF UnmarshalYAML
    <3>2. [e.svc EXCEPT !.all = TRUE, !.sel = <<>>] \in ServiceConfig
          /\ [e.svc EXCEPT !.all = TRUE, !.sel = <<>>].name = e.svc.name
      BY <1>1, <2>1, PortsChange
    <3>3. QED
      BY <3>1, <3>2
  <2>3. CASE e.form # "all"
    <3>1. UnmarshalYAML(e) = [e.svc EXCEPT !.all = FALSE, !.sel = e.items]
      BY <2>3 DEF UnmarshalYAML
    <3>2. [e.svc EXCEPT !.all = FALSE, !.sel = e.items] \in ServiceConfig
          /\ [e.svc EXCEPT !.all = FALSE, !.sel = e.items].name = e.svc.name
      BY <1>1, <2>1, PortsChange
    <3>3. QED
      BY <3>1, <3>2
  <2>4. QED
    BY <2>2, <2>3
<1> DEFINE every == {i \in DOMAIN e.items : e.form = "names" /\ e.items[i].name = "all"}
<1>3. ASSUME every # {}
      PROVE  SubSeq(e.items, 1, Min(every) - 1) \in Seq(PortSelector)
  <2>1. Len(e.items) \in Nat /\ every \subseteq 1..Len(e.items)
    BY <1>1
  <2>2. Min(every) \in 1..Len(e.items)
    <3> HIDE DEF every
    <3>1. QED
      BY <1>3, <2>1, FirstPlace
  <2> HIDE DEF every
  <2>3. QED
    BY <1>1, <2>1, <2>2
<1>4. ASSUME every # {}
      PROVE  LET t == [e.svc EXCEPT !.all = TRUE, !.sel = SubSeq(e.items, 1, Min(every) - 1)]
             IN t \in ServiceConfig /\ t.name = e.svc.name
  <2> DEFINE sel == SubSeq(e.items, 1, Min(every) - 1)
  <2>1. sel \in Seq(PortSelector) /\ TRUE \in BOOLEAN
    BY <1>3, <1>4
  <2> HIDE DEF sel
  <2>2. [e.svc EXCEPT !.all = TRUE, !.sel = sel] \in ServiceConfig
        /\ [e.svc EXCEPT !.all = TRUE, !.sel = sel].name = e.svc.name
    BY <1>1, <2>1, PortsChange
  <2>3. QED
    BY <2>2 DEF sel
<1>5. ParsePortsFromRaw(e) \in ServiceConfig /\ ParsePortsFromRaw(e).name = e.svc.name
  BY <1>2, <1>4 DEF ParsePortsFromRaw
<1>6. QED
  BY <1>2, <1>5 DEF Decoded

(* A ports field survives its way to disk and back, unless it is garbled. *)
LEMMA CodecFaithful ==
    ASSUME NEW s \in Described, NEW format, ~Garbled(s, format)
    PROVE  Decoded(Encoded(s), format) = s
<1>1. s \in ServiceConfig /\ s.sel \in Seq(PortSelector) /\ s.all \in BOOLEAN /\ <<>> \in Seq(PortSelector)
  BY DEF Described, ServiceConfig
<1> DEFINE e == Encoded(s)
           t == [s EXCEPT !.all = FALSE, !.sel = <<>>]
<1>2. e.svc = t /\ e.items = s.sel /\ (e.form = "all" <=> s.all)
  BY <1>1, EncodedType
<1>3. s.all => s.sel = <<>>
  BY DEF Described
<1>4. [t EXCEPT !.all = s.all, !.sel = s.sel] = s
  BY <1>1 DEF ServiceConfig
<1> HIDE DEF e, t
<1>5. UnmarshalYAML(e) = s
  BY <1>1, <1>2, <1>3, <1>4 DEF UnmarshalYAML
<1>6. format = "toml" => {i \in DOMAIN e.items : e.form = "names" /\ e.items[i].name = "all"} = {}
  BY <1>2 DEF Garbled
<1>7. format = "toml" => ParsePortsFromRaw(e) = s
  BY <1>5, <1>6 DEF ParsePortsFromRaw
<1>8. QED
  BY <1>5, <1>7 DEF Decoded, e

(* A configuration goes to disk and comes back service by service. *)
LEMMA OnDiskType ==
    ASSUME NEW c \in Config
    PROVE  OnDisk(c) \in DiskConfig
<1>1. Len(c.services) \in Nat /\ c.services \in Seq(ServiceConfig)
  BY DEF Config, ConfigOf
<1>2. DOMAIN c.services = 1..Len(c.services) /\ \A i \in DOMAIN c.services : c.services[i] \in ServiceConfig
  BY <1>1
<1>3. \A i \in DOMAIN c.services : Encoded(c.services[i]) \in DiskService
  BY <1>2, EncodedType
<1>4. [i \in DOMAIN c.services |-> Encoded(c.services[i])] \in Seq(DiskService)
  BY <1>1, <1>2, <1>3
<1>5. QED
  BY <1>4 DEF OnDisk, Config, DiskConfig, ConfigOf

(* Taking the element at a place out of a sequence. *)
LEMMA Removed ==
    ASSUME NEW S, NEW s \in Seq(S), NEW k \in 1..Len(s)
    PROVE  /\ RemoveAt(s, k) \in Seq(S)
           /\ Len(RemoveAt(s, k)) = Len(s) - 1
           /\ \A i \in 1..(Len(s) - 1) : RemoveAt(s, k)[i] = IF i < k THEN s[i] ELSE s[i + 1]
<1> DEFINE A == SubSeq(s, 1, k - 1)
           B == SubSeq(s, k + 1, Len(s))
<1>1. A \in Seq(S) /\ Len(A) = k - 1 /\ \A i \in 1..(k - 1) : A[i] = s[i]
  OBVIOUS
<1>2. B \in Seq(S) /\ Len(B) = Len(s) - k /\ \A i \in 1..(Len(s) - k) : B[i] = s[i + k]
  OBVIOUS
<1>3. RemoveAt(s, k) = A \o B
  BY DEF RemoveAt
<1>4. Len(s) \in Nat
  OBVIOUS
<1> HIDE DEF A, B
<1>5. A \o B \in Seq(S) /\ Len(A \o B) = Len(s) - 1
  <2>1. A \in Seq(S) /\ B \in Seq(S)
    BY <1>1, <1>2
  <2>2. A \o B \in Seq(S) /\ Len(A \o B) = Len(A) + Len(B)
    BY <2>1
  <2>3. QED
    BY <1>1, <1>2, <1>4, <2>2
<1>6. ASSUME NEW i \in 1..(Len(s) - 1)
      PROVE  (A \o B)[i] = IF i < k THEN s[i] ELSE s[i + 1]
  <2>1. CASE i < k
    BY <2>1, <1>1, <1>2, <1>4
  <2>2. CASE ~(i < k)
    <3>1. (A \o B)[i] = B[i - (k - 1)]
      BY <2>2, <1>1, <1>2, <1>4
    <3>2. i - (k - 1) \in 1..(Len(s) - k) /\ (i - (k - 1)) + k = i + 1
      BY <2>2, <1>4
    <3>3. B[i - (k - 1)] = s[(i - (k - 1)) + k]
      BY <3>2, <1>2
    <3>4. QED
      BY <2>2, <3>1, <3>2, <3>3
  <2>3. QED
    BY <2>1, <2>2
<1>7. QED
  BY <1>3, <1>5, <1>6

(* The services of a list stand where they were put, and are what was put  *)
(* unless that is garbled.                                                 *)
Keeps(c, services, format) ==
    /\ Len(c.services) = Len(services)
    /\ \A i \in 1..Len(services) :
          /\ c.services[i].name = services[i].name
          /\ ~Garbled(services[i], format) => c.services[i] = services[i]

Holds(content, services, format) ==
    \E c \in Config : /\ content = OnDisk(c)
                      /\ c.namespace # "env"
                      /\ Keeps(c, services, format)

Own(f) ==
    \/ files[f] = Absent /\ put[f] = <<>>
    \/ Holds(files[f], put[f], Extension[f])

(* The inductive invariant. *)
Inv ==
    /\ files \in [File -> DiskConfig \cup {Absent}]
    /\ env \in {"", "env"}
    /\ put \in [File -> Seq(Described)]
    /\ \A f \in File : Own(f)

(* What is read back from a file. *)
LEMMA ReadBack ==
    ASSUME SettingsAssumption, Inv, NEW f \in File, Readable(f)
    PROVE  /\ LoadRaw(f) \in Config
           /\ files[f] \in DiskConfig
           /\ \A field \in DOMAIN LoadRaw(f) \ {"services"} : LoadRaw(f)[field] = files[f][field]
           /\ LoadRaw(f).namespace = files[f].namespace
           /\ LoadRaw(f).namespace # "env"
           /\ Keeps(LoadRaw(f), put[f], Extension[f])
<1>1. PICK c \in Config : /\ files[f] = OnDisk(c)
                          /\ c.namespace # "env"
                          /\ Keeps(c, put[f], Extension[f])
  BY DEF Inv, Own, Readable, Holds
<1>2. Len(c.services) \in Nat /\ c.services \in Seq(ServiceConfig)
  BY DEF Config, ConfigOf
<1>3. put[f] \in Seq(Described) /\ files[f] # Absent /\ files[f] \in DiskConfig
  BY DEF Inv, Readable
<1>4. \A i \in DOMAIN c.services : c.services[i] \in ServiceConfig
  BY <1>2
<1> DEFINE back == [i \in DOMAIN c.services |-> Decoded(Encoded(c.services[i]), Extension[f])]
<1>5. files[f].services = [i \in DOMAIN c.services |-> Encoded(c.services[i])]
  BY <1>1 DEF OnDisk, Config, ConfigOf
<1>6. LoadRaw(f) = [files[f] EXCEPT !.services = back]
  BY <1>5 DEF LoadRaw
<1>7. LoadRaw(f) = [c EXCEPT !.services = back]
  BY <1>1, <1>6 DEF OnDisk, Config, ConfigOf
<1>8. ASSUME NEW i \in DOMAIN c.services
      PROVE  back[i] \in ServiceConfig /\ back[i].name = c.services[i].name
  <2>1. Encoded(c.services[i]) \in DiskService
        /\ Encoded(c.services[i]).svc = [c.services[i] EXCEPT !.all = FALSE, !.sel = <<>>]
    BY <1>4, EncodedType
  <2>2. Encoded(c.services[i]).svc.name = c.services[i].name
    BY <2>1, <1>4 DEF ServiceConfig
  <2>3. QED
    BY <2>1, <2>2, DecodedType
<1>9. back \in Seq(ServiceConfig) /\ Len(back) = Len(c.services)
  <2> DEFINE b(i) == Decoded(Encoded(c.services[i]), Extension[f])
  <2>1. \A i \in 1..Len(c.services) : b(i) \in ServiceConfig
    <3>1. TAKE i \in 1..Len(c.services)
    <3>2. i \in DOMAIN c.services
      BY <1>2
    <3>3. back[i] \in ServiceConfig /\ back[i] = b(i)
      BY <1>8, <3>2
    <3>4. QED
      BY <3>3
  <2> HIDE DEF b
  <2>2. [i \in 1..Len(c.services) |-> b(i)] \in Seq(ServiceConfig)
        /\ Len([i \in 1..Len(c.services) |-> b(i)]) = Len(c.services)
    BY <1>2, <2>1
  <2>3. DOMAIN c.services = 1..Len(c.services)
    BY <1>2
  <2>4. QED
    BY <2>2, <2>3 DEF b
<1> HIDE DEF back
<1>10. LoadRaw(f) \in Config /\ LoadRaw(f).services = back /\ LoadRaw(f).namespace = c.namespace
  BY <1>7, <1>9 DEF Config, ConfigOf
<1>11. \A field \in DOMAIN LoadRaw(f) \ {"services"} : LoadRaw(f)[field] = files[f][field]
  BY <1>6
<1>12. ASSUME NEW i \in 1..Len(put[f])
       PROVE  /\ back[i].name = put[f][i].name
              /\ ~Garbled(put[f][i], Extension[f]) => back[i] = put[f][i]
  <2>1. i \in DOMAIN c.services
    BY <1>1, <1>2 DEF Keeps
  <2>2. back[i].name = put[f][i].name
    BY <1>1, <1>8, <2>1 DEF Keeps
  <2>3. ASSUME ~Garbled(put[f][i], Extension[f]) PROVE back[i] = put[f][i]
    <3>1. c.services[i] = put[f][i]
      BY <1>1, <2>3 DEF Keeps
    <3>2. put[f][i] \in Described
      BY <1>3
    <3>3. Decoded(Encoded(put[f][i]), Extension[f]) = put[f][i]
      BY <2>3, <3>2, CodecFaithful
    <3>4. QED
      BY <2>1, <3>1, <3>3 DEF back
  <2>4. QED
    BY <2>2, <2>3
<1>13. Keeps(LoadRaw(f), put[f], Extension[f])
  BY <1>1, <1>9, <1>10, <1>12 DEF Keeps
<1>14. files[f].namespace = c.namespace
  BY <1>1 DEF OnDisk, Config, ConfigOf
<1>15. QED
  BY <1>1, <1>3, <1>10, <1>11, <1>13, <1>14

(* What is written holds what it should. *)
LEMMA SavedHolds ==
    ASSUME NEW c \in Config, NEW services, NEW format, NEW written \in {"yaml", "toml"},
           c.namespace # "env", Keeps(c, services, format)
    PROVE  /\ Saved(c, written) \in DiskConfig
           /\ Holds(Saved(c, written), services, format)
<1> DEFINE d == [c EXCEPT !.written = written, !.keyId = @ \/ c.key]
<1>1. d \in Config /\ d.namespace = c.namespace /\ d.services = c.services
  BY DEF Config, ConfigOf
<1> HIDE DEF d
<1>2. Keeps(d, services, format)
  BY <1>1 DEF Keeps
<1>3. OnDisk(d) \in DiskConfig /\ Holds(OnDisk(d), services, format)
  BY <1>1, <1>2, OnDiskType DEF Holds
<1>4. Saved(c, written) = OnDisk(d)
  BY DEF Saved, d
<1>5. QED
  BY <1>3, <1>4

(* A step that writes one file as it should keeps the invariant. *)
LEMMA WriteHolds ==
    ASSUME SettingsAssumption, Inv, NEW f \in File, NEW content \in DiskConfig,
           NEW services \in Seq(Described), Holds(content, services, Extension[f]),
           files' = [files EXCEPT ![f] = content],
           put' = [put EXCEPT ![f] = services],
           env' = env
    PROVE  Inv'
<1>1. /\ files' \in [File -> DiskConfig \cup {Absent}]
      /\ put' \in [File -> Seq(Described)]
      /\ env' \in {"", "env"}
  BY DEF Inv
<1>2. ASSUME NEW g \in File PROVE Own(g)'
  <2>1. Own(g)
    BY DEF Inv
  <2>2. CASE g = f
    <3>1. files'[g] = content /\ put'[g] = services
      BY <2>2 DEF Inv
    <3>2. Holds(files'[g], put'[g], Extension[g])
      BY <2>2, <3>1
    <3>3. QED
      BY <3>2 DEF Own
  <2>3. CASE g # f
    <3>1. files'[g] = files[g] /\ put'[g] = put[g]
      BY <2>3 DEF Inv
    <3>2. QED
      BY <2>1, <3>1 DEF Own
  <2>4. QED
    BY <2>2, <2>3
<1>3. QED
  BY <1>1, <1>2 DEF Inv

LEMMA InitInv == ASSUME SettingsAssumption, Init PROVE Inv
<1>1. files \in [File -> DiskConfig \cup {Absent}] /\ put \in [File -> Seq(Described)] /\ env = ""
  <2>1. <<>> \in Seq(Described) /\ Absent \in DiskConfig \cup {Absent}
    OBVIOUS
  <2> HIDE DEF Described, DiskConfig
  <2>2. QED
    BY <2>1 DEF Init
<1>2. \A f \in File : Own(f)
  BY DEF Init, Own
<1>3. QED
  BY <1>1, <1>2 DEF Inv

LEMMA UserWritesInv ==
    ASSUME SettingsAssumption, Inv, NEW f \in File, UserWrites(f)
    PROVE  Inv'
<1>1. PICK d \in Draft : /\ files' = [files EXCEPT ![f] = OnDisk([d EXCEPT !.written = Extension[f]])]
                         /\ put' = [put EXCEPT ![f] = d.services]
  BY DEF UserWrites
<1> DEFINE c == [d EXCEPT !.written = Extension[f]]
<1>2. /\ d.services \in Seq(Described)
      /\ d.namespace # "env"
      /\ c \in ConfigOf(Described)
      /\ c.services = d.services /\ c.namespace = d.namespace
  BY DEF SettingsAssumption, ConfigOf
<1>3. Described \subseteq ServiceConfig
  BY DEF Described
<1>4. c \in Config
  <2>1. Seq(Described) \subseteq Seq(ServiceConfig)
    BY <1>3
  <2>2. QED
    BY <1>2, <2>1 DEF Config, ConfigOf
<1>5. Keeps(c, d.services, Extension[f])
  <2> HIDE DEF c
  <2>1. QED
    BY <1>2 DEF Keeps
<1> HIDE DEF c
<1>6. OnDisk(c) \in DiskConfig /\ Holds(OnDisk(c), d.services, Extension[f])
  BY <1>2, <1>4, <1>5, OnDiskType DEF Holds
<1>7. env' = env
  BY DEF UserWrites
<1>8. files' = [files EXCEPT ![f] = OnDisk(c)]
  BY <1>1 DEF c
<1>9. QED
  BY <1>1, <1>2, <1>6, <1>7, <1>8, WriteHolds

LEMMA ConfigInitInv ==
    ASSUME SettingsAssumption, Inv, NEW f \in File, ConfigInit(f)
    PROVE  Inv'
<1>1. PICK format \in {"yaml", "toml"} : files' = [files EXCEPT ![f] = Saved(Blank, format)]
  BY DEF ConfigInit
<1>2. Blank \in Config /\ Blank.namespace # "env" /\ Blank.services = <<>>
  <2>1. PICK default, none : default = "default" /\ none = "" /\ default \in STRING /\ none \in STRING
    BY NamesAssumption
  <2>2. Blank = [written |-> "yaml", extends |-> NoFile, namespace |-> default,
                 key |-> FALSE, keyId |-> FALSE, interval |-> 0, latency |-> 0, jitter |-> 0,
                 socks |-> "unset", listen |-> none, services |-> <<>>]
    BY <2>1 DEF Blank
  <2>3. <<>> \in Seq(ServiceConfig)
    OBVIOUS
  <2>4. Blank \in Config
    BY <2>1, <2>2, <2>3 DEF Config, ConfigOf
  <2>5. QED
    BY <2>4 DEF Blank
<1>3. Keeps(Blank, <<>>, Extension[f])
  BY <1>2 DEF Keeps
<1>4. Saved(Blank, format) \in DiskConfig /\ Holds(Saved(Blank, format), <<>>, Extension[f])
  BY <1>2, <1>3, SavedHolds
<1>5. put[f] = <<>>
  <2>1. ~Holds(files[f], put[f], Extension[f])
    BY OnDiskType DEF ConfigInit, SettingsAssumption, Holds
  <2>2. Own(f)
    BY DEF Inv
  <2>3. QED
    BY <2>1, <2>2 DEF Own
<1>6. put' = [put EXCEPT ![f] = <<>>] /\ env' = env
  BY <1>5 DEF ConfigInit, Inv
<1>7. <<>> \in Seq(Described)
  OBVIOUS
<1>8. QED
  BY <1>1, <1>4, <1>6, <1>7, WriteHolds

(* An edit of what was read from a file. *)
LEMMA EditInv ==
    ASSUME SettingsAssumption, Inv, NEW f \in File, NEW c \in Config, NEW services \in Seq(Described),
           c.namespace # "env", Keeps(c, services, Extension[f]),
           Edit(f, c), put' = [put EXCEPT ![f] = services], env' = env
    PROVE  Inv'
<1>1. Extension[f] \in {"yaml", "toml"}
  BY DEF SettingsAssumption
<1>2. /\ Saved(c, Extension[f]) \in DiskConfig
      /\ Holds(Saved(c, Extension[f]), services, Extension[f])
  BY <1>1, SavedHolds
<1>3. files' = [files EXCEPT ![f] = Saved(c, Extension[f])]
  BY DEF Edit
<1>4. QED
  BY <1>2, <1>3, WriteHolds

LEMMA ConfigSetInv ==
    ASSUME SettingsAssumption, Inv, NEW f \in File, ConfigSet(f)
    PROVE  Inv'
<1>1. LoadRaw(f) \in Config /\ Keeps(LoadRaw(f), put[f], Extension[f])
  BY ReadBack DEF ConfigSet
<1> DEFINE c == [LoadRaw(f) EXCEPT !.namespace = "set"]
<1>2. c \in Config /\ c.namespace = "set" /\ c.services = LoadRaw(f).services
  <2>1. "set" \in STRING
    BY NamesAssumption
  <2>2. QED
    BY <1>1, <2>1 DEF Config, ConfigOf
<1>3. Edit(f, c)
  BY DEF ConfigSet, LoadForEdit
<1> HIDE DEF c
<1>4. Keeps(c, put[f], Extension[f])
  BY <1>1, <1>2 DEF Keeps
<1>5. put[f] \in Seq(Described) /\ put' = [put EXCEPT ![f] = put[f]] /\ env' = env
  BY DEF ConfigSet, Inv
<1>6. QED
  BY <1>2, <1>3, <1>4, <1>5, EditInv

LEMMA ConfigAddInv ==
    ASSUME SettingsAssumption, Inv, NEW f \in File, NEW s \in Service, ConfigAdd(f, s)
    PROVE  Inv'
<1>1. /\ LoadRaw(f) \in Config
      /\ Keeps(LoadRaw(f), put[f], Extension[f])
      /\ LoadRaw(f).namespace # "env"
  BY ReadBack DEF ConfigAdd
<1> DEFINE old == LoadRaw(f).services
           c == [LoadRaw(f) EXCEPT !.services = Append(@, s)]
<1>2. s \in Described /\ s \in ServiceConfig
  BY DEF SettingsAssumption, Described
<1>3. old \in Seq(ServiceConfig) /\ put[f] \in Seq(Described)
  BY <1>1 DEF Config, ConfigOf, Inv
<1>4. c \in Config /\ c.namespace = LoadRaw(f).namespace /\ c.services = Append(old, s)
  <2>1. Append(old, s) \in Seq(ServiceConfig)
    BY <1>2, <1>3
  <2>2. QED
    BY <1>1, <2>1 DEF Config, ConfigOf
<1>5. Edit(f, c)
  BY DEF ConfigAdd, LoadForEdit
<1>6. Append(put[f], s) \in Seq(Described)
  BY <1>2, <1>3
<1> HIDE DEF c, old
<1>7. Keeps(c, Append(put[f], s), Extension[f])
  <2>1. Len(old) = Len(put[f]) /\ Len(put[f]) \in Nat
    BY <1>1, <1>3 DEF Keeps, old
  <2>2. Len(c.services) = Len(Append(put[f], s)) /\ Len(c.services) = Len(put[f]) + 1
    BY <1>3, <1>4, <2>1
  <2>3. ASSUME NEW i \in 1..Len(Append(put[f], s))
        PROVE  /\ c.services[i].name = Append(put[f], s)[i].name
               /\ ~Garbled(Append(put[f], s)[i], Extension[f]) => c.services[i] = Append(put[f], s)[i]
    <3>1. CASE i = Len(put[f]) + 1
      BY <1>3, <1>4, <2>1, <3>1
    <3>2. CASE i # Len(put[f]) + 1
      <4>1. i \in 1..Len(put[f])
        BY <2>1, <2>2, <3>2
      <4>2. Append(put[f], s)[i] = put[f][i] /\ c.services[i] = old[i]
        BY <1>3, <1>4, <2>1, <4>1
      <4>3. QED
        BY <1>1, <4>1, <4>2 DEF Keeps, old
    <3>3. QED
      BY <3>1, <3>2
  <2>4. QED
    BY <2>2, <2>3 DEF Keeps
<1>8. put' = [put EXCEPT ![f] = Append(put[f], s)] /\ env' = env
  BY DEF ConfigAdd
<1>9. QED
  BY <1>1, <1>4, <1>5, <1>6, <1>7, <1>8, EditInv

(* Where the first service of a name is. *)
LEMMA FirstOfName ==
    ASSUME NEW S, NEW services \in Seq(S), NEW n, n \in Names(services)
    PROVE  Min(At(services, n)) \in 1..Len(services) /\ services[Min(At(services, n))].name = n
<1> DEFINE T == At(services, n)
<1>1. T \subseteq 1..Len(services) /\ T # {} /\ Len(services) \in Nat
  BY DEF At, Names
<1>2. Min(T) \in T
  <2> HIDE DEF T
  <2>1. QED
    BY <1>1, FirstPlace
<1>3. QED
  BY <1>1, <1>2 DEF At

LEMMA ConfigRemoveInv ==
    ASSUME SettingsAssumption, Inv, NEW f \in File, NEW n, ConfigRemove(f, n)
    PROVE  Inv'
<1>1. /\ LoadRaw(f) \in Config
      /\ Keeps(LoadRaw(f), put[f], Extension[f])
      /\ LoadRaw(f).namespace # "env"
  BY ReadBack DEF ConfigRemove
<1> DEFINE old == LoadRaw(f).services
           at == Min(At(old, n))
           c == [LoadRaw(f) EXCEPT !.services = RemoveAt(@, at)]
<1>2. old \in Seq(ServiceConfig) /\ put[f] \in Seq(Described) /\ Len(old) = Len(put[f])
  BY <1>1 DEF Config, ConfigOf, Inv, Keeps
<1>3. at \in 1..Len(old) /\ at \in 1..Len(put[f])
  BY <1>2, FirstOfName DEF ConfigRemove, LoadForEdit
<1>4. Edit(f, c) /\ put' = [put EXCEPT ![f] = RemoveAt(put[f], at)] /\ env' = env
  BY DEF ConfigRemove, LoadForEdit
<1> HIDE DEF at
<1>5. /\ RemoveAt(old, at) \in Seq(ServiceConfig)
      /\ Len(RemoveAt(old, at)) = Len(old) - 1
      /\ \A i \in 1..(Len(old) - 1) : RemoveAt(old, at)[i] = IF i < at THEN old[i] ELSE old[i + 1]
  <2> HIDE DEF old
  <2>1. QED
    BY <1>2, <1>3, Removed
<1>6. /\ RemoveAt(put[f], at) \in Seq(Described)
      /\ Len(RemoveAt(put[f], at)) = Len(put[f]) - 1
      /\ \A i \in 1..(Len(put[f]) - 1) : RemoveAt(put[f], at)[i] = IF i < at THEN put[f][i] ELSE put[f][i + 1]
  BY <1>2, <1>3, Removed
<1>7. c \in Config /\ c.namespace = LoadRaw(f).namespace /\ c.services = RemoveAt(old, at)
  BY <1>1, <1>5 DEF Config, ConfigOf
<1> HIDE DEF c, old
<1>8. Keeps(c, RemoveAt(put[f], at), Extension[f])
  <2>1. Len(put[f]) \in Nat
    BY <1>2
  <2>2. ASSUME NEW i \in 1..(Len(put[f]) - 1)
        PROVE  \E k \in 1..Len(put[f]) : c.services[i] = old[k] /\ RemoveAt(put[f], at)[i] = put[f][k]
    <3>1. CASE i < at
      <4>1. i \in 1..Len(put[f])
        BY <2>1
      <4>2. QED
        BY <1>2, <1>5, <1>6, <1>7, <3>1, <4>1
    <3>2. CASE ~(i < at)
      <4>1. i + 1 \in 1..Len(put[f])
        BY <2>1
      <4>2. QED
        BY <1>2, <1>5, <1>6, <1>7, <3>2, <4>1
    <3>3. QED
      BY <3>1, <3>2
  <2>3. \A k \in 1..Len(put[f]) : /\ old[k].name = put[f][k].name
                                  /\ ~Garbled(put[f][k], Extension[f]) => old[k] = put[f][k]
    BY <1>1 DEF Keeps, old
  <2>4. Len(c.services) = Len(RemoveAt(put[f], at))
    BY <1>2, <1>5, <1>6, <1>7
  <2>5. \A i \in 1..Len(RemoveAt(put[f], at)) :
           /\ c.services[i].name = RemoveAt(put[f], at)[i].name
           /\ ~Garbled(RemoveAt(put[f], at)[i], Extension[f]) => c.services[i] = RemoveAt(put[f], at)[i]
    <3>1. TAKE i \in 1..Len(RemoveAt(put[f], at))
    <3>2. i \in 1..(Len(put[f]) - 1)
      BY <1>6
    <3>3. PICK k \in 1..Len(put[f]) : c.services[i] = old[k] /\ RemoveAt(put[f], at)[i] = put[f][k]
      BY <2>2, <3>2
    <3>4. old[k].name = put[f][k].name /\ (~Garbled(put[f][k], Extension[f]) => old[k] = put[f][k])
      BY <2>3
    <3>5. QED
      BY <3>3, <3>4
  <2>6. QED
    BY <2>4, <2>5 DEF Keeps
<1>9. QED
  BY <1>1, <1>4, <1>6, <1>7, <1>8, EditInv

LEMMA StepInv == ASSUME SettingsAssumption, Inv, [Next]_vars PROVE Inv'
<1>1. CASE SetEnvironment
  BY <1>1 DEF SetEnvironment, Inv, Own
<1>2. CASE \E f \in File : UserWrites(f)
  BY <1>2, UserWritesInv
<1>3. CASE \E f \in File : ConfigInit(f)
  BY <1>3, ConfigInitInv
<1>4. CASE \E f \in File : ConfigSet(f)
  BY <1>4, ConfigSetInv
<1>5. CASE \E f \in File : \E s \in Service : ConfigAdd(f, s)
  BY <1>5, ConfigAddInv
<1>6. CASE \E f \in File : \E s \in Service : ConfigRemove(f, s.name)
  BY <1>6, ConfigRemoveInv
<1>7. CASE UNCHANGED vars
  BY <1>7 DEF vars, Inv, Own
<1>8. QED
  BY <1>1, <1>2, <1>3, <1>4, <1>5, <1>6, <1>7 DEF Next

LEMMA Invariant == Spec => []Inv
<1>1. Init => Inv
  BY SettingsAssumption, InitInv
<1>2. Inv /\ [Next]_vars => Inv'
  BY SettingsAssumption, StepInv
<1>3. QED
  BY <1>1, <1>2, PTL DEF Spec

LEMMA OwnSettings == ASSUME SettingsAssumption, Inv PROVE OnlyOwnSettings
<1> SUFFICES ASSUME NEW f \in File, Readable(f)
             PROVE  /\ files[f].namespace # "env"
                    /\ DOMAIN LoadRaw(f).services = DOMAIN put[f]
                    /\ \A i \in DOMAIN LoadRaw(f).services :
                          ~Garbled(put[f][i], Extension[f]) => LoadRaw(f).services[i] = put[f][i]
  BY DEF OnlyOwnSettings
<1>1. /\ LoadRaw(f) \in Config
      /\ files[f].namespace # "env"
      /\ Keeps(LoadRaw(f), put[f], Extension[f])
  BY ReadBack
<1>2. LoadRaw(f).services \in Seq(ServiceConfig) /\ put[f] \in Seq(Described)
  BY <1>1 DEF Config, ConfigOf, Inv
<1>3. DOMAIN LoadRaw(f).services = 1..Len(put[f]) /\ DOMAIN put[f] = 1..Len(put[f])
  BY <1>1, <1>2 DEF Keeps
<1>4. QED
  BY <1>1, <1>3 DEF Keeps

(* A file holds what was put into it, in its order, and nothing that it    *)
(* inherits or that comes from the environment (config.go LoadForEdit and  *)
(* Save), whatever is written by hand and by the commands, in any order.   *)
THEOREM FilesKeepTheirOwn == Spec => []OnlyOwnSettings
<1>1. Inv => OnlyOwnSettings
  BY SettingsAssumption, OwnSettings
<1>2. QED
  BY <1>1, Invariant, PTL

-----------------------------------------------------------------------------
(* What a multi-port service becomes *)

Wanted(s, p) == s.all \/ \E i \in DOMAIN s.sel : Matches(s.sel[i], p)
Hits(s, ports, i) == {k \in DOMAIN ports : Matches(s.sel[i], ports[k])}

(* The first port that a selector of a service matches. *)
LEMMA FirstHit ==
    ASSUME NEW S, NEW ports \in Seq(S), NEW s, NEW i, Hits(s, ports, i) # {}
    PROVE  /\ Min(Hits(s, ports, i)) \in DOMAIN ports
           /\ Matches(s.sel[i], ports[Min(Hits(s, ports, i))])
<1>1. Hits(s, ports, i) \subseteq 1..Len(ports) /\ Len(ports) \in Nat
  BY DEF Hits
<1>2. Min(Hits(s, ports, i)) \in Hits(s, ports, i)
  BY <1>1, FirstPlace
<1>3. QED
  BY <1>2 DEF Hits

(* Each selector of a service has its port among the chosen ones. *)
LEMMA ChosenInOrder ==
    ASSUME NEW s \in Described, NEW ports \in Seq(ClusterPort),
           ~s.all, ~s.pod, Chosen(s, ports) # <<>>
    PROVE  /\ Chosen(s, ports) \in Seq(ClusterPort)
           /\ DOMAIN Chosen(s, ports) = DOMAIN s.sel
           /\ \A i \in DOMAIN s.sel : /\ Matches(s.sel[i], Chosen(s, ports)[i])
                                      /\ \E k \in DOMAIN ports : Chosen(s, ports)[i] = ports[k]
<1>1. s.sel \in Seq(PortSelector)
  BY DEF Described, ServiceConfig
<1> DEFINE chosen == [i \in DOMAIN s.sel |-> ports[Min(Hits(s, ports, i))]]
<1>2. Chosen(s, ports) = IF \E i \in DOMAIN s.sel : Hits(s, ports, i) = {} THEN <<>> ELSE chosen
  BY DEF Chosen, Hits
<1>3. Chosen(s, ports) = chosen /\ \A i \in DOMAIN s.sel : Hits(s, ports, i) # {}
  BY <1>2
<1>4. \A i \in DOMAIN s.sel : /\ Min(Hits(s, ports, i)) \in DOMAIN ports
                              /\ Matches(s.sel[i], ports[Min(Hits(s, ports, i))])
  BY <1>3, FirstHit
<1>5. \A i \in DOMAIN s.sel : /\ Matches(s.sel[i], chosen[i])
                              /\ \E k \in DOMAIN ports : chosen[i] = ports[k]
  BY <1>4
<1>6. chosen \in Seq(ClusterPort)
  <2>1. \A k \in DOMAIN ports : ports[k] \in ClusterPort
    OBVIOUS
  <2>2. DOMAIN s.sel = 1..Len(s.sel) /\ Len(s.sel) \in Nat
    BY <1>1
  <2>3. chosen \in [1..Len(s.sel) -> ClusterPort]
    BY <1>4, <2>1, <2>2
  <2> HIDE DEF chosen
  <2>4. QED
    BY <2>2, <2>3
<1>7. DOMAIN chosen = DOMAIN s.sel
  OBVIOUS
<1> HIDE DEF chosen
<1>8. QED
  BY <1>3, <1>5, <1>6, <1>7

(* The chosen ports are ports that are wanted, and all of them where a     *)
(* selector may match several.                                             *)
LEMMA ChosenPorts ==
    ASSUME NEW s \in Described, NEW ports \in Seq(ClusterPort), Chosen(s, ports) # <<>>
    PROVE  /\ Chosen(s, ports) \in Seq(ClusterPort)
           /\ \A i \in DOMAIN Chosen(s, ports) :
                 /\ \E k \in DOMAIN ports : Chosen(s, ports)[i] = ports[k]
                 /\ Wanted(s, Chosen(s, ports)[i])
           /\ s.all \/ s.pod \/ Sharp(s, ports) =>
                 \A k \in DOMAIN ports : Wanted(s, ports[k]) =>
                    \E i \in DOMAIN Chosen(s, ports) : Chosen(s, ports)[i] = ports[k]
<1>1. CASE s.all
  <2>1. Chosen(s, ports) = ports
    BY <1>1 DEF Chosen
  <2>2. QED
    BY <1>1, <2>1 DEF Wanted
<1>2. CASE ~s.all /\ s.pod
  <2> DEFINE at == UNION {Hits(s, ports, i) : i \in DOMAIN s.sel}
  <2>1. Chosen(s, ports) = Kept(ports, at)
    BY <1>2 DEF Chosen, Hits
  <2>2. at \subseteq DOMAIN ports /\ \A k \in DOMAIN ports : k \in at <=> Wanted(s, ports[k])
    BY <1>2 DEF Hits, Wanted
  <2> HIDE DEF at
  <2>3. /\ Kept(ports, at) \in Seq(ClusterPort)
        /\ \A i \in DOMAIN Kept(ports, at) : \E k \in at : Kept(ports, at)[i] = ports[k]
        /\ \A k \in at : \E i \in DOMAIN Kept(ports, at) : Kept(ports, at)[i] = ports[k]
    BY <2>2, KeptElements
  <2>4. QED
    BY <2>1, <2>2, <2>3
<1>3. CASE ~s.all /\ ~s.pod
  <2>1. /\ Chosen(s, ports) \in Seq(ClusterPort)
        /\ DOMAIN Chosen(s, ports) = DOMAIN s.sel
        /\ \A i \in DOMAIN s.sel : /\ Matches(s.sel[i], Chosen(s, ports)[i])
                                   /\ \E k \in DOMAIN ports : Chosen(s, ports)[i] = ports[k]
    BY <1>3, ChosenInOrder
  <2>2. \A i \in DOMAIN Chosen(s, ports) :
           /\ \E k \in DOMAIN ports : Chosen(s, ports)[i] = ports[k]
           /\ Wanted(s, Chosen(s, ports)[i])
    BY <2>1 DEF Wanted
  <2>3. ASSUME Sharp(s, ports), NEW k \in DOMAIN ports, Wanted(s, ports[k])
        PROVE  \E i \in DOMAIN Chosen(s, ports) : Chosen(s, ports)[i] = ports[k]
    <3>1. PICK i \in DOMAIN s.sel : Matches(s.sel[i], ports[k])
      BY <1>3, <2>3 DEF Wanted
    <3>2. PICK m \in DOMAIN ports : Chosen(s, ports)[i] = ports[m]
      BY <2>1
    <3>3. Matches(s.sel[i], ports[m])
      BY <2>1, <3>2
    <3>4. ports[k] = ports[m]
      BY <2>3, <3>1, <3>3 DEF Sharp
    <3>5. QED
      BY <2>1, <3>2, <3>4
  <2>4. QED
    BY <1>3, <2>1, <2>2, <2>3
<1>4. QED
  BY <1>1, <1>2, <1>3

(* The local port of a resolved port. *)
LEMMA LocalPort ==
    ASSUME SettingsAssumption, NEW s \in Described, IsMultiPort(s), ValidateService(s), NEW p \in ClusterPort
    PROVE  /\ ComputeLocalPort(s, p) \in Nat
           /\ \A k \in DOMAIN s.sel :
                 /\ s.sel[k].name = p.name /\ s.sel[k].name # "" /\ s.sel[k].local # 0
                 /\ \A m \in DOMAIN s.sel : m > k => s.sel[m].name # s.sel[k].name
                 => ComputeLocalPort(s, p) = s.sel[k].local
<1>1. s.sel \in Seq(PortSelector) /\ s.offset \in Int /\ MaxPort \in Nat /\ p.port \in Nat
  BY DEF Described, ServiceConfig, SettingsAssumption, ClusterPort
<1>2. s.offset >= 0 /\ \A i \in DOMAIN s.sel : s.sel[i].local \in 0..MaxPort
  BY DEF ValidateService
<1> DEFINE named == {i \in DOMAIN s.sel : s.sel[i].name # "" /\ s.sel[i].name = p.name}
           override == IF named = {} THEN 0 ELSE s.sel[Max(named)].local
<1>3. ComputeLocalPort(s, p) = CASE override # 0 -> override
                                 [] override = 0 /\ s.offset > 0 -> p.port + s.offset
                                 [] OTHER -> 0
  BY DEF ComputeLocalPort
<1>4. named \subseteq 1..Len(s.sel) /\ Len(s.sel) \in Nat /\ named \subseteq DOMAIN s.sel
  <2>1. DOMAIN s.sel = 1..Len(s.sel) /\ Len(s.sel) \in Nat
    BY <1>1
  <2>2. QED
    BY <2>1
<1>5. named # {} => Max(named) \in named /\ \A i \in named : Max(named) >= i
  <2> HIDE DEF named
  <2>1. QED
    BY <1>4, LastPlace
<1>6. override \in Nat
  <2> HIDE DEF named
  <2>1. QED
    BY <1>1, <1>2, <1>4, <1>5
<1>7. ComputeLocalPort(s, p) \in Nat
  <2> HIDE DEF override
  <2>1. QED
    BY <1>1, <1>2, <1>3, <1>6
<1>8. ASSUME NEW k \in DOMAIN s.sel, s.sel[k].name = p.name,
             s.sel[k].name # "", s.sel[k].local # 0,
             \A m \in DOMAIN s.sel : m > k => s.sel[m].name # s.sel[k].name
      PROVE  ComputeLocalPort(s, p) = s.sel[k].local
  <2>1. k \in named
    BY <1>8
  <2>2. ~(Max(named) > k)
    <3>1. Max(named) \in named
      BY <1>5, <2>1
    <3>2. s.sel[Max(named)].name = p.name /\ Max(named) \in DOMAIN s.sel
      BY <3>1
    <3>3. QED
      BY <1>8, <3>2
  <2>3. Max(named) = k
    <3> HIDE DEF named
    <3>1. k \in Nat /\ Max(named) \in Nat /\ Max(named) >= k
      BY <1>4, <1>5, <2>1
    <3>2. QED
      BY <2>2, <3>1
  <2>4. override = s.sel[k].local
    BY <2>1, <2>3
  <2> HIDE DEF override
  <2>5. QED
    BY <1>3, <1>8, <2>4
<1>9. QED
  BY <1>7, <1>8

(* The parts of ExpansionExact, for one service and one port list. *)
ExpandsTo(s, ports, r) ==
    LET got == {[name |-> r[i].name, port |-> r[i].remote] : i \in DOMAIN r}
        want == {p \in {ports[i] : i \in DOMAIN ports} :
                    /\ s.all \/ \E i \in DOMAIN s.sel : Matches(s.sel[i], p)
                    /\ p.name \notin s.exclude}
    IN /\ got \subseteq want
       /\ s.all \/ s.pod \/ Sharp(s, ports) => got = want
       /\ \A k \in DOMAIN s.sel : s.pod \/ \E p \in got : Matches(s.sel[k], p)
       /\ \A i \in DOMAIN r : r[i].local \in 0..MaxPort
       /\ \A i \in DOMAIN r, k \in DOMAIN s.sel :
              /\ s.sel[k].name = r[i].name /\ s.sel[k].name # "" /\ s.sel[k].local # 0
              /\ \A m \in DOMAIN s.sel : m > k => s.sel[m].name # s.sel[k].name
              => r[i].local = s.sel[k].local

LEMMA Expands ==
    ASSUME SettingsAssumption, NEW s \in Described, IsMultiPort(s), ValidateService(s),
           NEW ports \in Seq(ClusterPort), ResolvePorts(s, ports) # <<>>
    PROVE  ExpandsTo(s, ports, ResolvePorts(s, ports))
<1> DEFINE chosen == Chosen(s, ports)
           kept == Without(chosen, s.exclude)
           r == [i \in DOMAIN kept |-> [name |-> kept[i].name, remote |-> kept[i].port,
                                        local |-> ComputeLocalPort(s, kept[i])]]
           got == {[name |-> r[i].name, port |-> r[i].remote] : i \in DOMAIN r}
           want == {p \in {ports[i] : i \in DOMAIN ports} :
                       /\ s.all \/ \E i \in DOMAIN s.sel : Matches(s.sel[i], p)
                       /\ p.name \notin s.exclude}
<1>1. ResolvePorts(s, ports) = IF \A i \in DOMAIN r : r[i].local <= MaxPort THEN r ELSE <<>>
  BY DEF ResolvePorts
<1>2. ResolvePorts(s, ports) = r /\ \A i \in DOMAIN r : r[i].local <= MaxPort
  <2> HIDE DEF r
  <2>1. QED
    BY <1>1
<1>3. chosen # <<>>
  <2>1. SUFFICES ASSUME chosen = <<>> PROVE r = <<>>
    BY <1>2
  <2>2. <<>> \in Seq(ClusterPort) /\ DOMAIN chosen = {}
    BY <2>1
  <2>3. kept \in Seq(ClusterPort) /\ \A k \in DOMAIN kept : \E i \in DOMAIN chosen : kept[k] = chosen[i]
    <3> HIDE DEF chosen
    <3>1. chosen \in Seq(ClusterPort)
      BY <2>1, <2>2
    <3>2. QED
      BY <3>1, WithoutElements
  <2> HIDE DEF kept, chosen
  <2>4. DOMAIN kept = {}
    BY <2>2, <2>3
  <2>5. QED
    BY <2>4
<1>4. /\ chosen \in Seq(ClusterPort)
      /\ \A i \in DOMAIN chosen : /\ \E k \in DOMAIN ports : chosen[i] = ports[k]
                                  /\ Wanted(s, chosen[i])
      /\ s.all \/ s.pod \/ Sharp(s, ports) =>
            \A k \in DOMAIN ports : Wanted(s, ports[k]) => \E i \in DOMAIN chosen : chosen[i] = ports[k]
  BY <1>3, ChosenPorts
<1>5. ~s.all /\ ~s.pod => \A i \in DOMAIN s.sel : i \in DOMAIN chosen /\ Matches(s.sel[i], chosen[i])
  BY <1>3, ChosenInOrder
<1> HIDE DEF chosen
<1>6. /\ kept \in Seq(ClusterPort)
      /\ \A k \in DOMAIN kept : /\ kept[k].name \notin s.exclude
                                /\ \E i \in DOMAIN chosen : kept[k] = chosen[i]
      /\ \A i \in DOMAIN chosen : chosen[i].name \notin s.exclude => \E k \in DOMAIN kept : kept[k] = chosen[i]
  BY <1>4, WithoutElements
<1> HIDE DEF kept
<1>7. got = {kept[i] : i \in DOMAIN kept}
  <2>1. ASSUME NEW i \in DOMAIN kept PROVE [name |-> r[i].name, port |-> r[i].remote] = kept[i]
    <3>1. kept[i] \in ClusterPort
      BY <1>6
    <3>2. r[i].name = kept[i].name /\ r[i].remote = kept[i].port
      OBVIOUS
    <3> HIDE DEF r
    <3>3. QED
      BY <3>1, <3>2 DEF ClusterPort
  <2>2. DOMAIN r = DOMAIN kept
    OBVIOUS
  <2> HIDE DEF r
  <2>3. QED
    BY <2>1, <2>2
<1>8. got \subseteq want
  <2>1. SUFFICES ASSUME NEW k \in DOMAIN kept PROVE kept[k] \in want
    BY <1>7
  <2>2. kept[k].name \notin s.exclude
    BY <1>6
  <2>3. PICK i \in DOMAIN chosen : kept[k] = chosen[i]
    BY <1>6
  <2>4. (\E m \in DOMAIN ports : kept[k] = ports[m]) /\ Wanted(s, kept[k])
    BY <1>4, <2>3
  <2>5. QED
    BY <2>2, <2>4 DEF Wanted
<1>9. ASSUME s.all \/ s.pod \/ Sharp(s, ports) PROVE want \subseteq got
  <2>1. SUFFICES ASSUME NEW m \in DOMAIN ports, Wanted(s, ports[m]), ports[m].name \notin s.exclude
                 PROVE  \E k \in DOMAIN kept : kept[k] = ports[m]
    BY <1>7 DEF Wanted
  <2>2. PICK i \in DOMAIN chosen : chosen[i] = ports[m]
    BY <1>4, <1>9, <2>1
  <2>3. QED
    BY <1>6, <2>1, <2>2
<1>10. ASSUME NEW k \in DOMAIN s.sel, ~s.pod PROVE \E p \in got : Matches(s.sel[k], p)
  <2>1. ~s.all
    BY DEF Described
  <2>2. k \in DOMAIN chosen /\ Matches(s.sel[k], chosen[k])
    BY <1>5, <1>10, <2>1
  <2>3. s.exclude = {}
    BY <2>1 DEF ValidateService
  <2>4. PICK i \in DOMAIN kept : kept[i] = chosen[k]
    BY <1>6, <2>2, <2>3
  <2>5. QED
    BY <1>7, <2>2, <2>4
<1>11. ASSUME NEW i \in DOMAIN r PROVE r[i].local \in 0..MaxPort
  <2>1. i \in DOMAIN kept /\ kept[i] \in ClusterPort
    BY <1>6
  <2>2. ComputeLocalPort(s, kept[i]) \in Nat
    BY <2>1, LocalPort
  <2>3. r[i].local = ComputeLocalPort(s, kept[i]) /\ r[i].local <= MaxPort /\ MaxPort \in Nat
    BY <1>2, <2>1 DEF SettingsAssumption
  <2> HIDE DEF r
  <2>4. QED
    BY <2>2, <2>3
<1>12. ASSUME NEW i \in DOMAIN r, NEW k \in DOMAIN s.sel,
              s.sel[k].name = r[i].name, s.sel[k].name # "", s.sel[k].local # 0,
              \A m \in DOMAIN s.sel : m > k => s.sel[m].name # s.sel[k].name
       PROVE  r[i].local = s.sel[k].local
  <2>1. i \in DOMAIN kept /\ kept[i] \in ClusterPort
    BY <1>6
  <2>2. r[i].name = kept[i].name /\ r[i].local = ComputeLocalPort(s, kept[i])
    BY <2>1
  <2> HIDE DEF r
  <2>3. QED
    BY <1>12, <2>1, <2>2, LocalPort
<1> HIDE DEF r, got, want
<1>13. ExpandsTo(s, ports, r)
  <2>1. ExpandsTo(s, ports, r) =
           (/\ got \subseteq want
            /\ s.all \/ s.pod \/ Sharp(s, ports) => got = want
            /\ \A k \in DOMAIN s.sel : s.pod \/ \E p \in got : Matches(s.sel[k], p)
            /\ \A i \in DOMAIN r : r[i].local \in 0..MaxPort
            /\ \A i \in DOMAIN r, k \in DOMAIN s.sel :
                   /\ s.sel[k].name = r[i].name /\ s.sel[k].name # "" /\ s.sel[k].local # 0
                   /\ \A m \in DOMAIN s.sel : m > k => s.sel[m].name # s.sel[k].name
                   => r[i].local = s.sel[k].local)
    BY DEF ExpandsTo, got, want
  <2>2. s.all \/ s.pod \/ Sharp(s, ports) => got = want
    BY <1>8, <1>9
  <2>3. \A k \in DOMAIN s.sel : s.pod \/ \E p \in got : Matches(s.sel[k], p)
    BY <1>10
  <2>4. QED
    BY <1>8, <1>11, <1>12, <2>1, <2>2, <2>3
<1>14. QED
  BY <1>2, <1>13

(* A multi-port service forwards ports it asks for and none that it        *)
(* excludes, each selector of a service among them, on local ports that    *)
(* exist and are the ones asked for (manager.go resolveServicePorts,       *)
(* resolvePodPorts and computeLocalPort), whatever ports the cluster has.  *)
THEOREM PortsResolveAsDescribed == Spec => []ExpansionExact
<1>1. Inv => ExpansionExact
  <2>1. SUFFICES ASSUME Inv, NEW s \in Multi, NEW ports \in Cluster, ResolvePorts(s, ports) # <<>>
                 PROVE  ExpandsTo(s, ports, ResolvePorts(s, ports))
    BY DEF ExpansionExact, ExpandsTo
  <2>2. PICK f \in File : \E i \in DOMAIN put[f] : s = put[f][i]
    BY DEF Multi
  <2>3. s \in Described
    <3>1. put[f] \in Seq(Described)
      BY <2>1 DEF Inv
    <3>2. QED
      BY <2>2, <3>1
  <2>4. ports \in Seq(ClusterPort) /\ IsMultiPort(s) /\ ValidateService(s)
    BY SettingsAssumption DEF SettingsAssumption, Multi
  <2>5. QED
    BY <2>1, <2>3, <2>4, SettingsAssumption, Expands
<1>2. QED
  BY <1>1, Invariant, PTL

-----------------------------------------------------------------------------
(* Loading a file and those it extends *)

Unvisited(visiting) == Cardinality(File \ visiting)

(* Each file on the way up leaves fewer to visit. *)
LEMMA FewerLeft ==
    ASSUME SettingsAssumption, NEW visiting \in SUBSET File, NEW f \in File, f \notin visiting
    PROVE  /\ Unvisited(visiting) \in Nat /\ Unvisited(visiting \cup {f}) \in Nat
           /\ Unvisited(visiting) = Unvisited(visiting \cup {f}) + 1
<1> DEFINE left == File \ visiting
<1>1. IsFiniteSet(File)
  BY DEF SettingsAssumption
<1>2. IsFiniteSet(left)
  BY <1>1, FS_Subset
<1>3. f \in left /\ left \ {f} = File \ (visiting \cup {f})
  OBVIOUS
<1> HIDE DEF left
<1>4. IsFiniteSet(left \ {f}) /\ Cardinality(left \ {f}) = Cardinality(left) - 1
  BY <1>2, <1>3, FS_RemoveElement
<1>5. Cardinality(left) \in Nat /\ Cardinality(left \ {f}) \in Nat
  BY <1>2, <1>4, FS_CardinalityType
<1>6. Unvisited(visiting) = Cardinality(left) /\ Unvisited(visiting \cup {f}) = Cardinality(left \ {f})
  BY <1>3 DEF Unvisited, left
<1>7. QED
  BY <1>4, <1>5, <1>6

LEMMA SomeLeft ==
    ASSUME SettingsAssumption, NEW visiting \in SUBSET File
    PROVE  /\ Unvisited(visiting) \in Nat
           /\ Unvisited(visiting) = 0 => visiting = File
<1>1. IsFiniteSet(File \ visiting)
  BY FS_Subset DEF SettingsAssumption
<1>2. Cardinality(File \ visiting) = 0 => File \ visiting = {}
  BY <1>1, FS_EmptySet
<1>3. QED
  BY <1>1, <1>2, FS_CardinalityType DEF Unvisited

LoadStep(loaded, visiting, f) ==
    IF f \in visiting \/ ~Readable(f) THEN Absent
    ELSE LET child == LoadRaw(f)
             parent == loaded[visiting \cup {f}][child.extends]
         IN CASE child.extends = NoFile -> child
              [] child.extends # NoFile /\ parent = Absent -> Absent
              [] OTHER -> MergeConfigs(parent, child)

LoadAll(loaded, visiting) == [f \in File |-> LoadStep(loaded, visiting, f)]

(* What is loaded for the files of one set is known from those of the sets *)
(* with one more.                                                          *)
LEMMA LoadLocal ==
    ASSUME NEW g, NEW h, NEW visiting \in SUBSET File,
           \A f \in File : f \notin visiting => g[visiting \cup {f}] = h[visiting \cup {f}]
    PROVE  LoadAll(g, visiting) = LoadAll(h, visiting)
<1>1. ASSUME NEW f \in File PROVE LoadStep(g, visiting, f) = LoadStep(h, visiting, f)
  <2>1. CASE f \in visiting
    BY <2>1 DEF LoadStep
  <2>2. CASE f \notin visiting
    <3>1. g[visiting \cup {f}] = h[visiting \cup {f}]
      BY <2>2
    <3>2. QED
      BY <3>1 DEF LoadStep
  <2>3. QED
    BY <2>1, <2>2
<1>2. QED
  BY <1>1 DEF LoadAll

(* The recursion of loadWithInheritance ends, as visiting grows with every *)
(* call: it has its values.                                                *)
LEMMA LoadRuns ==
    ASSUME SettingsAssumption
    PROVE  LoadWithInheritance = [visiting \in SUBSET File |-> LoadAll(LoadWithInheritance, visiting)]
<1> DEFINE Runs(n, g) ==
             \A visiting \in SUBSET File :
                Unvisited(visiting) <= n => g[visiting] = LoadAll(g, visiting)
           T == {n \in Nat : \E g : Runs(n, g)}
<1>1. ASSUME NEW n \in Nat, NEW g, Runs(n, g)
      PROVE  Runs(n + 1, [visiting \in SUBSET File |-> LoadAll(g, visiting)])
  <2> DEFINE h == [visiting \in SUBSET File |-> LoadAll(g, visiting)]
  <2> SUFFICES ASSUME NEW visiting \in SUBSET File, Unvisited(visiting) <= n + 1
               PROVE  h[visiting] = LoadAll(h, visiting)
    OBVIOUS
  <2>1. ASSUME NEW f \in File, f \notin visiting
        PROVE  g[visiting \cup {f}] = h[visiting \cup {f}]
    <3>1. visiting \cup {f} \in SUBSET File
      OBVIOUS
    <3>2. Unvisited(visiting \cup {f}) <= n
      BY <2>1, FewerLeft
    <3>3. g[visiting \cup {f}] = LoadAll(g, visiting \cup {f})
      BY <1>1, <3>1, <3>2
    <3>4. h[visiting \cup {f}] = LoadAll(g, visiting \cup {f})
      BY <3>1
    <3>5. QED
      BY <3>3, <3>4
  <2>2. h[visiting] = LoadAll(g, visiting)
    OBVIOUS
  <2> HIDE DEF h
  <2>3. LoadAll(g, visiting) = LoadAll(h, visiting)
    BY <2>1, LoadLocal
  <2>4. QED
    BY <2>2, <2>3
<1>2. \E g : Runs(0, g)
  <2> DEFINE g == [visiting \in SUBSET File |-> [f \in File |-> Absent]]
  <2>1. ASSUME NEW visiting \in SUBSET File, Unvisited(visiting) <= 0
        PROVE  g[visiting] = LoadAll(g, visiting)
    <3>1. visiting = File
      BY <2>1, SomeLeft
    <3>2. \A f \in File : LoadStep(g, visiting, f) = Absent
      BY <3>1 DEF LoadStep
    <3>3. QED
      BY <3>2 DEF LoadAll
  <2> HIDE DEF g
  <2>2. Runs(0, g)
    BY <2>1
  <2>3. QED
    BY <2>2
<1>3. \A n \in Nat : n \in T
  <2>1. 0 \in T
    BY <1>2
  <2>2. ASSUME NEW n \in T \cap Nat PROVE n + 1 \in T
    <3>1. PICK g : Runs(n, g)
      OBVIOUS
    <3> HIDE DEF Runs
    <3>2. \E h : Runs(n + 1, h)
      BY <1>1, <3>1
    <3>3. QED
      BY <3>2
  <2>3. \A n \in T \cap Nat : n + 1 \in T
    BY <2>2
  <2> HIDE DEF T
  <2>4. QED
    BY <2>1, <2>3, Induction
<1>4. PICK n \in Nat : n = Unvisited({})
  BY SomeLeft
<1>5. ASSUME NEW visiting \in SUBSET File PROVE Unvisited(visiting) <= n
  <2>1. IsFiniteSet(File) /\ File \ visiting \subseteq File /\ File \ {} = File
    BY DEF SettingsAssumption
  <2>2. Cardinality(File \ visiting) <= Cardinality(File)
    BY <2>1, FS_Subset
  <2>3. QED
    BY <1>4, <2>1, <2>2 DEF Unvisited
<1>6. PICK g : Runs(n, g)
  BY <1>3
<1> DEFINE h == [visiting \in SUBSET File |-> LoadAll(g, visiting)]
<1>7. h = [visiting \in SUBSET File |-> LoadAll(h, visiting)]
  <2>1. ASSUME NEW visiting \in SUBSET File PROVE h[visiting] = g[visiting]
    BY <1>5, <1>6
  <2>2. ASSUME NEW visiting \in SUBSET File PROVE LoadAll(g, visiting) = LoadAll(h, visiting)
    <3>1. \A f \in File : g[visiting \cup {f}] = h[visiting \cup {f}]
      <4>1. TAKE f \in File
      <4>2. visiting \cup {f} \in SUBSET File
        OBVIOUS
      <4>3. QED
        BY <2>1, <4>2
    <3> HIDE DEF h
    <3>2. QED
      BY <3>1, LoadLocal
  <2>3. QED
    BY <2>2
<1> HIDE DEF h
<1> DEFINE Fixed(l) == l = [visiting \in SUBSET File |-> LoadAll(l, visiting)]
<1>8. LoadWithInheritance = CHOOSE l : Fixed(l)
  BY Zenon DEF LoadWithInheritance, LoadAll, LoadStep
<1>9. Fixed(h)
  BY <1>7
<1> HIDE DEF Fixed
<1>10. Fixed(CHOOSE l : Fixed(l))
  BY <1>9, Zenon
<1>11. Fixed(LoadWithInheritance)
  BY <1>8, <1>10
<1>12. QED
  BY <1>11 DEF Fixed

(* What one call returns. *)
LEMMA LoadOne ==
    ASSUME SettingsAssumption, NEW visiting \in SUBSET File, NEW f \in File
    PROVE  LoadWithInheritance[visiting][f] = LoadStep(LoadWithInheritance, visiting, f)
<1>1. LoadWithInheritance[visiting] = LoadAll(LoadWithInheritance, visiting)
  BY LoadRuns
<1>2. QED
  BY <1>1 DEF LoadAll

(* A list has the elements of two and no others. *)
HasBoth(m, s, t) ==
    /\ \A i \in DOMAIN m : (\E k \in DOMAIN s : m[i] = s[k]) \/ \E k \in DOMAIN t : m[i] = t[k]
    /\ \A k \in DOMAIN s : \E i \in DOMAIN m : m[i] = s[k]
    /\ \A k \in DOMAIN t : \E i \in DOMAIN m : m[i] = t[k]

LEMMA Joined ==
    ASSUME NEW S, NEW s \in Seq(S), NEW t \in Seq(S), NEW m, m = s \o t
    PROVE  m \in Seq(S) /\ HasBoth(m, s, t)
<1>1. /\ Len(s) \in Nat /\ Len(t) \in Nat /\ m \in Seq(S) /\ Len(m) = Len(s) + Len(t)
      /\ DOMAIN s = 1..Len(s) /\ DOMAIN t = 1..Len(t) /\ DOMAIN m = 1..(Len(s) + Len(t))
  OBVIOUS
<1>2. \A i \in 1..(Len(s) + Len(t)) : m[i] = IF i <= Len(s) THEN s[i] ELSE t[i - Len(s)]
  OBVIOUS
<1>3. ASSUME NEW i \in DOMAIN m
      PROVE  (\E k \in DOMAIN s : m[i] = s[k]) \/ \E k \in DOMAIN t : m[i] = t[k]
  <2>1. CASE i <= Len(s)
    BY <1>1, <1>2, <2>1
  <2>2. CASE ~(i <= Len(s))
    <3>1. i - Len(s) \in 1..Len(t)
      BY <1>1, <2>2
    <3>2. QED
      BY <1>1, <1>2, <2>2, <3>1
  <2>3. QED
    BY <2>1, <2>2
<1>4. ASSUME NEW k \in DOMAIN s PROVE \E i \in DOMAIN m : m[i] = s[k]
  <2>1. k \in 1..(Len(s) + Len(t)) /\ k <= Len(s)
    BY <1>1
  <2>2. QED
    BY <1>1, <1>2, <2>1
<1>5. ASSUME NEW k \in DOMAIN t PROVE \E i \in DOMAIN m : m[i] = t[k]
  <2>1. k + Len(s) \in 1..(Len(s) + Len(t)) /\ ~(k + Len(s) <= Len(s)) /\ (k + Len(s)) - Len(s) = k
    BY <1>1
  <2>2. m[k + Len(s)] = t[(k + Len(s)) - Len(s)]
    BY <1>2, <2>1
  <2>3. QED
    BY <1>1, <2>1, <2>2
<1>6. QED
  BY <1>1, <1>3, <1>4, <1>5 DEF HasBoth

(* Where the last service of a name is. *)
LEMMA LastOfName ==
    ASSUME NEW S, NEW services \in Seq(S), NEW n, n \in Names(services)
    PROVE  /\ Max(At(services, n)) \in DOMAIN services
           /\ services[Max(At(services, n))].name = n
<1> DEFINE T == At(services, n)
<1>1. T \subseteq 1..Len(services) /\ T # {} /\ Len(services) \in Nat
  BY DEF At, Names
<1>2. Max(T) \in T
  <2> HIDE DEF T
  <2>1. QED
    BY <1>1, LastPlace
<1>3. QED
  BY <1>2 DEF At

(* A merged list has the services of both, the override's where both have  *)
(* one of a name.                                                          *)
LEMMA MergedServices ==
    ASSUME NEW S, NEW base \in Seq(S), NEW override \in Seq(S)
    PROVE  /\ MergeServices(base, override) \in Seq(S)
           /\ Names(MergeServices(base, override)) = Names(base) \cup Names(override)
           /\ \A i \in DOMAIN MergeServices(base, override) :
                 \/ \E k \in DOMAIN override : MergeServices(base, override)[i] = override[k]
                 \/ /\ MergeServices(base, override)[i].name \notin Names(override)
                    /\ \E k \in DOMAIN base : MergeServices(base, override)[i] = base[k]
<1> DEFINE Same(i) == At(override, base[i].name)
           one == [i \in DOMAIN base |-> IF Same(i) = {} THEN base[i] ELSE override[Max(Same(i))]]
           two == Without(override, Names(base))
           m == one \o two
<1>1. MergeServices(base, override) = m
  BY DEF MergeServices
<1>2. Len(base) \in Nat /\ DOMAIN base = 1..Len(base) /\ DOMAIN override = 1..Len(override)
  OBVIOUS
<1>3. ASSUME NEW i \in DOMAIN base
      PROVE  /\ one[i] \in S /\ one[i].name = base[i].name
             /\ \/ \E k \in DOMAIN override : one[i] = override[k]
                \/ one[i].name \notin Names(override) /\ one[i] = base[i]
  <2>1. CASE Same(i) = {}
    <3>1. one[i] = base[i]
      BY <2>1
    <3>2. base[i].name \notin Names(override)
      BY <2>1 DEF At, Names
    <3>3. base[i] \in S
      OBVIOUS
    <3> HIDE DEF one
    <3>4. QED
      BY <3>1, <3>2, <3>3
  <2>2. CASE Same(i) # {}
    <3>1. one[i] = override[Max(Same(i))]
      BY <2>2
    <3>2. base[i].name \in Names(override)
      BY <2>2 DEF At, Names
    <3>3. Max(Same(i)) \in DOMAIN override /\ override[Max(Same(i))].name = base[i].name
      BY <3>2, LastOfName
    <3>4. override[Max(Same(i))] \in S
      BY <3>3
    <3> HIDE DEF one, Same
    <3>5. QED
      BY <3>1, <3>3, <3>4
  <2>3. QED
    BY <2>1, <2>2
<1>4. one \in Seq(S) /\ Len(one) = Len(base)
  <2>1. one \in [1..Len(base) -> S]
    <3>1. DOMAIN one = 1..Len(base) /\ one = [i \in 1..Len(base) |-> one[i]]
      BY <1>2
    <3> HIDE DEF one
    <3>2. QED
      BY <1>2, <1>3, <3>1
  <2> HIDE DEF one
  <2>2. QED
    BY <1>2, <2>1
<1>5. /\ two \in Seq(S)
      /\ \A k \in DOMAIN two : two[k].name \notin Names(base) /\ \E i \in DOMAIN override : two[k] = override[i]
      /\ \A i \in DOMAIN override : override[i].name \notin Names(base) => \E k \in DOMAIN two : two[k] = override[i]
  BY WithoutElements
<1> HIDE DEF one, two
<1>6. /\ m \in Seq(S)
      /\ \A i \in DOMAIN m : (\E k \in DOMAIN one : m[i] = one[k]) \/ \E k \in DOMAIN two : m[i] = two[k]
      /\ \A k \in DOMAIN one : \E i \in DOMAIN m : m[i] = one[k]
      /\ \A k \in DOMAIN two : \E i \in DOMAIN m : m[i] = two[k]
  <2>1. one \in Seq(S) /\ two \in Seq(S)
    BY <1>4, <1>5
  <2>2. m = one \o two
    OBVIOUS
  <2> HIDE DEF m
  <2>3. m \in Seq(S) /\ HasBoth(m, one, two)
    BY <2>1, <2>2, Joined
  <2>4. QED
    BY <2>3 DEF HasBoth
<1> HIDE DEF m
<1>7. DOMAIN one = DOMAIN base
  BY <1>2, <1>4
<1>8. \A i \in DOMAIN m :
         \/ \E k \in DOMAIN override : m[i] = override[k]
         \/ m[i].name \notin Names(override) /\ \E k \in DOMAIN base : m[i] = base[k]
  <2>1. TAKE i \in DOMAIN m
  <2>2. CASE \E k \in DOMAIN one : m[i] = one[k]
    BY <1>3, <1>7, <2>2
  <2>3. CASE \E k \in DOMAIN two : m[i] = two[k]
    BY <1>5, <2>3
  <2>4. QED
    BY <1>6, <2>2, <2>3
<1>9. Names(m) = Names(base) \cup Names(override)
  <2>1. Names(m) \subseteq Names(base) \cup Names(override)
    BY <1>8 DEF Names
  <2>2. Names(base) \subseteq Names(m)
    <3>1. SUFFICES ASSUME NEW k \in DOMAIN base PROVE \E i \in DOMAIN m : m[i].name = base[k].name
      BY DEF Names
    <3>2. PICK i \in DOMAIN m : m[i] = one[k]
      BY <1>6, <1>7
    <3>3. QED
      BY <1>3, <3>2
  <2>3. Names(override) \subseteq Names(m)
    <3>1. SUFFICES ASSUME NEW k \in DOMAIN override, override[k].name \notin Names(base)
                   PROVE  \E i \in DOMAIN m : m[i].name = override[k].name
      BY <2>2 DEF Names
    <3>2. PICK j \in DOMAIN two : two[j] = override[k]
      BY <1>5, <3>1
    <3>3. PICK i \in DOMAIN m : m[i] = two[j]
      BY <1>6
    <3>4. QED
      BY <3>2, <3>3
  <2>4. QED
    BY <2>1, <2>2, <2>3
<1>10. QED
  BY <1>1, <1>6, <1>8, <1>9

(* What each field of a merged configuration is. *)
LEMMA MergedConfig ==
    ASSUME SettingsAssumption, NEW base \in Config, NEW override \in Config
    PROVE  LET c == MergeConfigs(base, override)
           IN /\ c \in Config
              /\ c.namespace = IF override.namespace = "" THEN base.namespace ELSE override.namespace
              /\ \A field \in {"interval", "latency", "jitter"} :
                    c[field] = IF override[field] = 0 THEN base[field] ELSE override[field]
              /\ \A field \in {"key", "keyId"} :
                    c[field] = IF override[field] = FALSE THEN base[field] ELSE override[field]
              /\ c.socks = IF override.socks = "unset" THEN base.socks ELSE override.socks
              /\ c.listen = IF override.socks = "unset" THEN base.listen ELSE override.listen
              /\ c.services = MergeServices(base.services, override.services)
<1> DEFINE services == MergeServices(base.services, override.services)
<1>1. services \in Seq(ServiceConfig)
  <2>1. base.services \in Seq(ServiceConfig) /\ override.services \in Seq(ServiceConfig)
    BY DEF Config, ConfigOf
  <2>2. QED
    BY <2>1, MergedServices
<1> HIDE DEF services
<1> DEFINE namespace == IF override.namespace = "" THEN base.namespace ELSE override.namespace
           key == override.key \/ base.key
           keyId == override.keyId \/ base.keyId
           interval == IF override.interval = 0 THEN base.interval ELSE override.interval
           latency == IF override.latency = 0 THEN base.latency ELSE override.latency
           jitter == IF override.jitter = 0 THEN base.jitter ELSE override.jitter
           socks == IF override.socks = "unset" THEN base.socks ELSE override.socks
           listen == IF override.socks = "unset" THEN base.listen ELSE override.listen
           c == MergeConfigs(base, override)
<1>2. c = [override EXCEPT !.extends = NoFile, !.namespace = namespace, !.key = key, !.keyId = keyId,
                           !.interval = interval, !.latency = latency, !.jitter = jitter,
                           !.socks = socks, !.listen = listen, !.services = services]
  BY DEF MergeConfigs, services
<1>3. /\ namespace \in STRING /\ listen \in STRING
      /\ {interval, latency, jitter} \subseteq Nat
      /\ socks \in {"unset", "on", "off"}
      /\ {override.key, override.keyId, base.key, base.keyId, key, keyId} \subseteq BOOLEAN
  BY DEF Config, ConfigOf
<1>4. /\ key = IF override.key = FALSE THEN base.key ELSE override.key
      /\ keyId = IF override.keyId = FALSE THEN base.keyId ELSE override.keyId
  BY <1>3, Zenon
<1> HIDE DEF c, namespace, key, keyId, interval, latency, jitter, socks, listen
<1>5. /\ c \in Config
      /\ c.namespace = namespace /\ c.key = key /\ c.keyId = keyId
      /\ c.interval = interval /\ c.latency = latency /\ c.jitter = jitter
      /\ c.socks = socks /\ c.listen = listen /\ c.services = services
  BY <1>1, <1>2, <1>3 DEF Config, ConfigOf
<1>6. /\ \A field \in {"interval", "latency", "jitter"} :
            c[field] = IF override[field] = 0 THEN base[field] ELSE override[field]
      /\ \A field \in {"key", "keyId"} :
            c[field] = IF override[field] = FALSE THEN base[field] ELSE override[field]
  BY <1>4, <1>5 DEF interval, latency, jitter
<1>7. QED
  BY <1>5, <1>6 DEF c, services, namespace, socks, listen

-----------------------------------------------------------------------------
(* Ways up *)

IsTail(tail, path) ==
    /\ tail \in Seq(File) /\ path \in Seq(File)
    /\ Len(path) = Len(tail) + 1 /\ Len(tail) \in Nat \ {0}
    /\ \A i \in 1..Len(tail) : tail[i] = path[i + 1]

LEMMA HasTail ==
    ASSUME NEW path \in Seq(File), Len(path) > 1
    PROVE  \E tail : IsTail(tail, path)
<1> DEFINE n == Len(path) - 1
           tail == [i \in 1..n |-> path[i + 1]]
<1>1. n \in Nat \ {0} /\ Len(path) = n + 1
  OBVIOUS
<1>2. \A i \in 1..n : path[i + 1] \in File
  <2>1. TAKE i \in 1..n
  <2>2. i + 1 \in 1..Len(path)
    BY <1>1
  <2>3. QED
    BY <2>2
<1> HIDE DEF n
<1>3. tail \in Seq(File) /\ Len(tail) = n /\ \A i \in 1..n : tail[i] = path[i + 1]
  BY <1>1, <1>2
<1> HIDE DEF tail
<1>4. IsTail(tail, path)
  BY <1>1, <1>3 DEF IsTail
<1>5. QED
  BY <1>4

(* The nearest file is the first of the path or the nearest of the rest. *)
LEMMA NearestStep ==
    ASSUME NEW path, NEW tail, IsTail(tail, path), NEW at, at \subseteq DOMAIN path
    PROVE  /\ 1 \in at => Nearest(path, at) = LoadRaw(path[1])
           /\ 1 \notin at => Nearest(path, at) = Nearest(tail, {i \in DOMAIN tail : i + 1 \in at})
<1> DEFINE rest == {i \in DOMAIN tail : i + 1 \in at}
<1>1. /\ Len(tail) \in Nat \ {0} /\ Len(path) = Len(tail) + 1
      /\ DOMAIN tail = 1..Len(tail) /\ DOMAIN path = 1..Len(path)
      /\ \A i \in 1..Len(tail) : tail[i] = path[i + 1]
  BY DEF IsTail
<1>2. at # {} => Min(at) \in at /\ \A i \in at : Min(at) <= i
  BY <1>1, FirstPlace
<1>3. rest # {} => Min(rest) \in rest /\ \A i \in rest : Min(rest) <= i
  <2>1. rest \subseteq 1..Len(tail)
    BY <1>1
  <2> HIDE DEF rest
  <2>2. QED
    BY <1>1, <2>1, FirstPlace
<1>4. ASSUME 1 \in at PROVE Nearest(path, at) = LoadRaw(path[1])
  <2>1. Min(at) = 1
    BY <1>1, <1>2, <1>4
  <2>2. QED
    BY <1>4, <2>1 DEF Nearest
<1>5. ASSUME 1 \notin at PROVE Nearest(path, at) = Nearest(tail, rest)
  <2>1. CASE at = {}
    <3>1. rest = {} /\ tail[Len(tail)] = path[Len(path)]
      BY <1>1, <2>1
    <3> HIDE DEF rest
    <3>2. QED
      BY <2>1, <3>1 DEF Nearest
  <2>2. CASE at # {}
    <3>1. Min(at) \in DOMAIN path /\ Min(at) # 1
      BY <1>2, <1>5, <2>2
    <3>2. PICK m \in DOMAIN tail : Min(at) = m + 1
      <4>1. Min(at) - 1 \in 1..Len(tail) /\ Min(at) = (Min(at) - 1) + 1
        BY <1>1, <3>1
      <4>2. QED
        BY <1>1, <4>1
    <3>3. m \in rest
      BY <1>2, <2>2, <3>2
    <3>4. Min(rest) \in rest /\ Min(rest) <= m
      BY <1>3, <3>3
    <3>5. Min(rest) + 1 \in at /\ Min(rest) \in 1..Len(tail)
      BY <1>1, <3>4
    <3>6. m + 1 <= Min(rest) + 1
      BY <1>2, <2>2, <3>2, <3>5
    <3>7. Min(rest) = m
      <4> HIDE DEF rest
      <4>1. QED
        BY <1>1, <3>2, <3>4, <3>5, <3>6
    <3>8. tail[m] = path[m + 1]
      BY <1>1, <3>2
    <3>9. rest # {}
      BY <3>3
    <3> HIDE DEF rest
    <3>10. Nearest(tail, rest) = LoadRaw(tail[m]) /\ Nearest(path, at) = LoadRaw(path[m + 1])
      BY <2>2, <3>2, <3>7, <3>9 DEF Nearest
    <3>11. QED
      BY <3>8, <3>10
  <2>3. QED
    BY <2>1, <2>2
<1>6. QED
  BY <1>4, <1>5

(* The nearest file of a path of one. *)
LEMMA NearestAlone ==
    ASSUME NEW path, Len(path) = 1, DOMAIN path = 1..1, NEW at, at \subseteq DOMAIN path
    PROVE  Nearest(path, at) = LoadRaw(path[1])
<1>1. CASE at = {}
  BY <1>1 DEF Nearest
<1>2. CASE at # {}
  <2>1. Min(at) \in at
    BY <1>2, FirstPlace
  <2>2. Min(at) = 1
    BY <2>1
  <2>3. QED
    BY <1>2, <2>2 DEF Nearest
<1>3. QED
  BY <1>1, <1>2

(* The places of a path that have something, seen from its tail. *)
Where(path, P) == {i \in DOMAIN path : path[i] \in P}

LEMMA WhereStep ==
    ASSUME NEW path, NEW tail, IsTail(tail, path), NEW P
    PROVE  /\ Where(path, P) \subseteq DOMAIN path
           /\ 1 \in Where(path, P) <=> path[1] \in P
           /\ {i \in DOMAIN tail : i + 1 \in Where(path, P)} = Where(tail, P)
<1>1. /\ Len(tail) \in Nat \ {0} /\ Len(path) = Len(tail) + 1
      /\ DOMAIN tail = 1..Len(tail) /\ DOMAIN path = 1..Len(path)
      /\ \A i \in 1..Len(tail) : tail[i] = path[i + 1]
  BY DEF IsTail
<1>2. 1 \in DOMAIN path /\ \A i \in DOMAIN tail : i + 1 \in DOMAIN path
  BY <1>1
<1>3. QED
  BY <1>1, <1>2 DEF Where

LEMMA NearestWhere ==
    ASSUME NEW path, NEW tail, IsTail(tail, path), NEW P
    PROVE  Nearest(path, Where(path, P))
             = IF path[1] \in P THEN LoadRaw(path[1]) ELSE Nearest(tail, Where(tail, P))
<1> DEFINE at == Where(path, P)
<1>1. /\ at \subseteq DOMAIN path
      /\ 1 \in at <=> path[1] \in P
      /\ {i \in DOMAIN tail : i + 1 \in at} = Where(tail, P)
  BY WhereStep
<1> HIDE DEF at
<1>2. /\ 1 \in at => Nearest(path, at) = LoadRaw(path[1])
      /\ 1 \notin at => Nearest(path, at) = Nearest(tail, Where(tail, P))
  BY <1>1, NearestStep
<1>3. QED
  BY <1>1, <1>2 DEF at

(* The files that set a field, and those that have a service of a name. *)
Setting(field, unset) == {f \in File : LoadRaw(f)[field] # unset}
Owning(n) == {f \in File : n \in Names(LoadRaw(f).services)}

From(path, P) == Nearest(path, Where(path, P))

(* c has every setting of the nearest file of the path that has it. *)
Merges(c, path) ==
    /\ c \in Config
    /\ c.namespace = From(path, Setting("namespace", "")).namespace
    /\ \A field \in {"interval", "latency", "jitter"} : c[field] = From(path, Setting(field, 0))[field]
    /\ \A field \in {"key", "keyId"} : c[field] = From(path, Setting(field, FALSE))[field]
    /\ c.socks = From(path, Setting("socks", "unset")).socks
    /\ c.listen = From(path, Setting("socks", "unset")).listen
    /\ Names(c.services) = UNION {Names(LoadRaw(path[i]).services) : i \in DOMAIN path}
    /\ \A i \in DOMAIN c.services :
          \E k \in DOMAIN From(path, Owning(c.services[i].name)).services :
             From(path, Owning(c.services[i].name)).services[k] = c.services[i]

LEMMA MergesAlone ==
    ASSUME SettingsAssumption, Inv, NEW path \in Seq(File), Len(path) = 1, Readable(path[1])
    PROVE  Merges(LoadRaw(path[1]), path)
<1>1. DOMAIN path = 1..1 /\ path[1] \in File
  OBVIOUS
<1>2. LoadRaw(path[1]) \in Config
  BY <1>1, ReadBack
<1>3. ASSUME NEW P PROVE From(path, P) = LoadRaw(path[1])
  <2>1. Where(path, P) \subseteq DOMAIN path
    BY DEF Where
  <2>2. QED
    BY <1>1, <2>1, NearestAlone DEF From
<1> DEFINE c == LoadRaw(path[1])
<1>4. Names(c.services) = UNION {Names(LoadRaw(path[i]).services) : i \in DOMAIN path}
  BY <1>1
<1>5. \A i \in DOMAIN c.services :
         \E k \in DOMAIN From(path, Owning(c.services[i].name)).services :
            From(path, Owning(c.services[i].name)).services[k] = c.services[i]
  <2> HIDE DEF c
  <2>1. \A P : From(path, P) = c
    BY <1>3 DEF c
  <2>2. TAKE i \in DOMAIN c.services
  <2>3. From(path, Owning(c.services[i].name)) = c
    BY <2>1
  <2>4. QED
    BY <2>3
<1>6. /\ c.namespace = From(path, Setting("namespace", "")).namespace
      /\ \A field \in {"interval", "latency", "jitter"} : c[field] = From(path, Setting(field, 0))[field]
      /\ \A field \in {"key", "keyId"} : c[field] = From(path, Setting(field, FALSE))[field]
      /\ c.socks = From(path, Setting("socks", "unset")).socks
      /\ c.listen = From(path, Setting("socks", "unset")).listen
  BY <1>3
<1> HIDE DEF c
<1>7. Merges(c, path)
  BY <1>2, <1>4, <1>5, <1>6 DEF Merges, c
<1>8. QED
  BY <1>7 DEF c

LEMMA MergesStep ==
    ASSUME SettingsAssumption, Inv, NEW path, NEW tail, IsTail(tail, path), Readable(path[1]),
           NEW base, Merges(base, tail)
    PROVE  Merges(MergeConfigs(base, LoadRaw(path[1])), path)
<1> DEFINE override == LoadRaw(path[1])
           c == MergeConfigs(base, override)
<1>1. /\ path \in Seq(File) /\ path[1] \in File
      /\ Len(tail) \in Nat \ {0} /\ Len(path) = Len(tail) + 1
      /\ DOMAIN tail = 1..Len(tail) /\ DOMAIN path = 1..Len(path)
      /\ \A i \in 1..Len(tail) : tail[i] = path[i + 1]
  BY DEF IsTail
<1>2. override \in Config /\ base \in Config
  BY <1>1, ReadBack DEF Merges
<1>3. \A P : From(path, P) = IF path[1] \in P THEN override ELSE From(tail, P)
  BY NearestWhere DEF From
<1>4. \A field, unset : path[1] \in Setting(field, unset) <=> override[field] # unset
  BY <1>1 DEF Setting
<1>5. \A n : path[1] \in Owning(n) <=> n \in Names(override.services)
  BY <1>1 DEF Owning
<1> HIDE DEF override
<1>6. /\ c \in Config
      /\ c.namespace = IF override.namespace = "" THEN base.namespace ELSE override.namespace
      /\ \A field \in {"interval", "latency", "jitter"} :
            c[field] = IF override[field] = 0 THEN base[field] ELSE override[field]
      /\ \A field \in {"key", "keyId"} :
            c[field] = IF override[field] = FALSE THEN base[field] ELSE override[field]
      /\ c.socks = IF override.socks = "unset" THEN base.socks ELSE override.socks
      /\ c.listen = IF override.socks = "unset" THEN base.listen ELSE override.listen
      /\ c.services = MergeServices(base.services, override.services)
  BY <1>2, MergedConfig
<1> HIDE DEF c
<1>7. c.namespace = From(path, Setting("namespace", "")).namespace
  <2>1. base.namespace = From(tail, Setting("namespace", "")).namespace
    BY DEF Merges
  <2>2. path[1] \in Setting("namespace", "") <=> override.namespace # ""
    BY <1>4
  <2>3. QED
    BY <1>3, <1>6, <2>1, <2>2
<1>8. ASSUME NEW field \in {"interval", "latency", "jitter"}
      PROVE  c[field] = From(path, Setting(field, 0))[field]
  <2>1. base[field] = From(tail, Setting(field, 0))[field]
    BY DEF Merges
  <2>2. c[field] = IF override[field] = 0 THEN base[field] ELSE override[field]
    BY <1>6
  <2>3. QED
    BY <1>3, <1>4, <2>1, <2>2
<1>9. ASSUME NEW field \in {"key", "keyId"}
      PROVE  c[field] = From(path, Setting(field, FALSE))[field]
  <2>1. base[field] = From(tail, Setting(field, FALSE))[field]
    BY DEF Merges
  <2>2. c[field] = IF override[field] = FALSE THEN base[field] ELSE override[field]
    BY <1>6
  <2>3. path[1] \in Setting(field, FALSE) <=> override[field] # FALSE
    BY <1>4
  <2>4. From(path, Setting(field, FALSE)) =
           IF path[1] \in Setting(field, FALSE) THEN override ELSE From(tail, Setting(field, FALSE))
    BY <1>3
  <2>5. QED
    BY <2>1, <2>2, <2>3, <2>4
<1>10. /\ c.socks = From(path, Setting("socks", "unset")).socks
       /\ c.listen = From(path, Setting("socks", "unset")).listen
  <2>1. /\ base.socks = From(tail, Setting("socks", "unset")).socks
        /\ base.listen = From(tail, Setting("socks", "unset")).listen
    BY DEF Merges
  <2>2. path[1] \in Setting("socks", "unset") <=> override.socks # "unset"
    BY <1>4
  <2>3. QED
    BY <1>3, <1>6, <2>1, <2>2
<1>11. /\ Names(c.services) = Names(base.services) \cup Names(override.services)
       /\ \A i \in DOMAIN c.services :
             \/ \E k \in DOMAIN override.services : c.services[i] = override.services[k]
             \/ /\ c.services[i].name \notin Names(override.services)
                /\ \E k \in DOMAIN base.services : c.services[i] = base.services[k]
  <2>1. base.services \in Seq(ServiceConfig) /\ override.services \in Seq(ServiceConfig)
    BY <1>2 DEF Config, ConfigOf
  <2> DEFINE b == base.services
             o == override.services
  <2>2. b \in Seq(ServiceConfig) /\ o \in Seq(ServiceConfig) /\ c.services = MergeServices(b, o)
    BY <1>6, <2>1
  <2> HIDE DEF b, o
  <2>3. /\ Names(MergeServices(b, o)) = Names(b) \cup Names(o)
        /\ \A i \in DOMAIN MergeServices(b, o) :
              \/ \E k \in DOMAIN o : MergeServices(b, o)[i] = o[k]
              \/ /\ MergeServices(b, o)[i].name \notin Names(o)
                 /\ \E k \in DOMAIN b : MergeServices(b, o)[i] = b[k]
    BY <2>2, MergedServices
  <2>4. QED
    BY <2>2, <2>3 DEF b, o
<1>12. Names(c.services) = UNION {Names(LoadRaw(path[i]).services) : i \in DOMAIN path}
  <2>1. Names(base.services) = UNION {Names(LoadRaw(tail[i]).services) : i \in DOMAIN tail}
    BY DEF Merges
  <2>2. ASSUME NEW n
        PROVE  n \in Names(c.services) <=> \E i \in DOMAIN path : n \in Names(LoadRaw(path[i]).services)
    <3>1. n \in Names(c.services) <=>
             \/ n \in Names(override.services)
             \/ \E i \in DOMAIN tail : n \in Names(LoadRaw(tail[i]).services)
      BY <1>11, <2>1
    <3>2. n \in Names(override.services) <=> n \in Names(LoadRaw(path[1]).services)
      BY DEF override
    <3>3. ASSUME NEW i \in DOMAIN tail PROVE i + 1 \in DOMAIN path /\ tail[i] = path[i + 1]
      BY <1>1
    <3>4. ASSUME NEW i \in DOMAIN path, i # 1 PROVE \E k \in DOMAIN tail : path[i] = tail[k]
      <4>1. i - 1 \in DOMAIN tail /\ (i - 1) + 1 = i
        BY <1>1, <3>4
      <4>2. tail[i - 1] = path[i]
        BY <3>3, <4>1
      <4>3. QED
        BY <4>1, <4>2
    <3>5. 1 \in DOMAIN path
      BY <1>1
    <3>6. QED
      BY <3>1, <3>2, <3>3, <3>4, <3>5
  <2>3. QED
    BY <2>2
<1>13. ASSUME NEW i \in DOMAIN c.services
       PROVE  \E k \in DOMAIN From(path, Owning(c.services[i].name)).services :
                 From(path, Owning(c.services[i].name)).services[k] = c.services[i]
  <2> DEFINE n == c.services[i].name
  <2>1. From(path, Owning(n)) = IF n \in Names(override.services) THEN override ELSE From(tail, Owning(n))
    BY <1>3, <1>5
  <2>2. CASE \E k \in DOMAIN override.services : c.services[i] = override.services[k]
    <3>1. n \in Names(override.services)
      BY <2>2 DEF Names
    <3>2. QED
      BY <2>1, <2>2, <3>1
  <2>3. CASE /\ n \notin Names(override.services)
             /\ \E k \in DOMAIN base.services : c.services[i] = base.services[k]
    <3>1. PICK j \in DOMAIN base.services : c.services[i] = base.services[j]
      BY <2>3
    <3>2. \E k \in DOMAIN From(tail, Owning(base.services[j].name)).services :
             From(tail, Owning(base.services[j].name)).services[k] = base.services[j]
      BY DEF Merges
    <3>3. \E k \in DOMAIN From(tail, Owning(n)).services : From(tail, Owning(n)).services[k] = c.services[i]
      BY <3>1, <3>2
    <3>4. QED
      BY <2>1, <2>3, <3>3
  <2>4. QED
    BY <1>11, <2>2, <2>3
<1>14. Merges(c, path)
  BY <1>6, <1>7, <1>8, <1>9, <1>10, <1>12, <1>13 DEF Merges
<1>15. QED
  BY <1>14 DEF c, override

(* A file, and the way up from the file it extends. *)
LEMMA WayPrepended ==
    ASSUME NEW f \in File, Readable(f), NEW q \in Seq(File), Len(q) \in Nat \ {0},
           IsWayUp(q, files[f].extends)
    PROVE  \E p \in Seq(File) : Len(p) = Len(q) + 1 /\ IsWayUp(p, f)
<1> DEFINE p == [i \in 1..(Len(q) + 1) |-> IF i = 1 THEN f ELSE q[i - 1]]
<1>1. /\ q[1] = files[f].extends
      /\ \A i \in 1..Len(q) : /\ Readable(q[i])
                              /\ files[q[i]].extends = IF i = Len(q) THEN NoFile ELSE q[i + 1]
  BY DEF IsWayUp
<1>2. \A i \in 1..(Len(q) + 1) : i = 1 \/ i - 1 \in 1..Len(q)
  OBVIOUS
<1>3. \A i \in 1..Len(q) : q[i] \in File
  OBVIOUS
<1>4. p \in Seq(File) /\ Len(p) = Len(q) + 1 /\ DOMAIN p = 1..(Len(q) + 1)
  BY <1>2, <1>3
<1>5. p[1] = f /\ \A i \in 1..(Len(q) + 1) : i # 1 => p[i] = q[i - 1]
  OBVIOUS
<1> HIDE DEF p
<1>6. ASSUME NEW i \in 1..(Len(q) + 1)
      PROVE  Readable(p[i]) /\ files[p[i]].extends = IF i = Len(q) + 1 THEN NoFile ELSE p[i + 1]
  <2>1. CASE i = 1
    <3>1. 2 \in 1..(Len(q) + 1) /\ 2 - 1 = 1
      OBVIOUS
    <3>2. p[2] = q[1]
      BY <1>5, <3>1
    <3>3. QED
      BY <1>1, <1>5, <2>1, <3>2
  <2>2. CASE i # 1
    <3>1. i - 1 \in 1..Len(q) /\ p[i] = q[i - 1]
      BY <1>2, <1>5, <2>2
    <3>2. /\ Readable(q[i - 1])
          /\ files[q[i - 1]].extends = IF i - 1 = Len(q) THEN NoFile ELSE q[(i - 1) + 1]
      BY <1>1, <3>1
    <3>3. i # Len(q) + 1 => p[i + 1] = q[(i - 1) + 1]
      <4>1. i # Len(q) + 1 => i + 1 \in 1..(Len(q) + 1) /\ i + 1 # 1 /\ (i + 1) - 1 = (i - 1) + 1
        BY <2>2
      <4>2. QED
        BY <1>5, <4>1
    <3>4. i - 1 = Len(q) <=> i = Len(q) + 1
      OBVIOUS
    <3>5. QED
      BY <3>1, <3>2, <3>3, <3>4
  <2>3. QED
    BY <2>1, <2>2
<1>7. IsWayUp(p, f)
  BY <1>4, <1>5, <1>6 DEF IsWayUp
<1>8. QED
  BY <1>4, <1>7

(* The tail of a way up is one. *)
LEMMA WayTail ==
    ASSUME SettingsAssumption, NEW path, NEW tail, IsTail(tail, path), NEW f, IsWayUp(path, f)
    PROVE  /\ f \in File /\ Readable(f)
           /\ files[f].extends = tail[1] /\ tail[1] \in File
           /\ IsWayUp(tail, tail[1])
<1>1. /\ tail \in Seq(File) /\ path \in Seq(File)
      /\ Len(tail) \in Nat \ {0} /\ Len(path) = Len(tail) + 1
      /\ DOMAIN tail = 1..Len(tail) /\ DOMAIN path = 1..Len(path)
      /\ \A i \in 1..Len(tail) : tail[i] = path[i + 1]
  BY DEF IsTail
<1>2. /\ path[1] = f
      /\ \A i \in 1..Len(path) : /\ Readable(path[i])
                                 /\ files[path[i]].extends = IF i = Len(path) THEN NoFile ELSE path[i + 1]
  BY <1>1 DEF IsWayUp
<1>3. f \in File /\ Readable(f) /\ files[f].extends = path[2] /\ path[2] = tail[1] /\ tail[1] \in File
  <2>1. 1 \in 1..Len(path) /\ 1 # Len(path) /\ 1 \in 1..Len(tail) /\ 1 + 1 = 2
    BY <1>1
  <2>2. QED
    BY <1>1, <1>2, <2>1
<1>4. ASSUME NEW i \in 1..Len(tail)
      PROVE  /\ Readable(tail[i])
             /\ files[tail[i]].extends = IF i = Len(tail) THEN NoFile ELSE tail[i + 1]
  <2>0. PICK n \in Nat \ {0} : n = Len(tail) /\ Len(path) = n + 1
    BY <1>1
  <2>1. i + 1 \in 1..Len(path) /\ (i + 1 = Len(path) <=> i = Len(tail))
    <3>1. i \in 1..n
      BY <2>0
    <3>2. i + 1 \in 1..(n + 1) /\ (i + 1 = n + 1 <=> i = n)
      BY <3>1
    <3>3. QED
      BY <2>0, <3>2
  <2>2. i # Len(tail) => i + 1 \in 1..Len(tail)
    <3>1. i \in 1..n
      BY <2>0
    <3>2. i # n => i + 1 \in 1..n
      BY <3>1
    <3>3. QED
      BY <2>0, <3>2
  <2>3. tail[i] = path[i + 1] /\ (i # Len(tail) => tail[i + 1] = path[(i + 1) + 1])
    BY <1>1, <2>2
  <2>4. QED
    BY <1>2, <2>1, <2>3
<1>5. IsWayUp(tail, tail[1])
  BY <1>1, <1>4 DEF IsWayUp
<1>6. QED
  BY <1>3, <1>5

(* A way up of one. *)
LEMMA WayAlone ==
    ASSUME NEW path \in Seq(File), Len(path) = 1, NEW f, IsWayUp(path, f)
    PROVE  f \in File /\ f = path[1] /\ Readable(f) /\ files[f].extends = NoFile
BY DEF IsWayUp

(* No file is met twice on a way up, as it ends. *)
LEMMA NeverTwice ==
    ASSUME SettingsAssumption, NEW path \in Seq(File), NEW f, IsWayUp(path, f),
           NEW i \in DOMAIN path, NEW k \in DOMAIN path, path[i] = path[k], i < k
    PROVE  FALSE
<1> DEFINE T == {d \in Nat : k + d <= Len(path) => path[i + d] = path[k + d]}
<1>1. Len(path) \in Nat /\ DOMAIN path = 1..Len(path) /\ NoFile \notin File
  BY DEF SettingsAssumption
<1>2. \A j \in 1..Len(path) : files[path[j]].extends = IF j = Len(path) THEN NoFile ELSE path[j + 1]
  BY <1>1 DEF IsWayUp
<1>3. i \in Nat /\ k \in Nat /\ k <= Len(path)
  BY <1>1
<1>4. 0 \in T
  BY <1>3
<1>5. ASSUME NEW d \in T \cap Nat PROVE d + 1 \in T
  <2>1. SUFFICES ASSUME k + (d + 1) <= Len(path) PROVE path[i + (d + 1)] = path[k + (d + 1)]
    OBVIOUS
  <2>2. path[i + d] = path[k + d]
    BY <1>1, <1>3, <2>1
  <2>3. i + d \in 1..Len(path) /\ i + d # Len(path) /\ k + d \in 1..Len(path) /\ k + d # Len(path)
    BY <1>1, <1>3, <2>1
  <2>4. /\ files[path[i + d]].extends = path[(i + d) + 1]
        /\ files[path[k + d]].extends = path[(k + d) + 1]
    BY <1>2, <2>3
  <2>5. (i + d) + 1 = i + (d + 1) /\ (k + d) + 1 = k + (d + 1)
    BY <1>3
  <2>6. QED
    BY <2>2, <2>4, <2>5
<1>6. Len(path) - k \in T
  <2>1. \A d \in T \cap Nat : d + 1 \in T
    BY <1>5
  <2>2. \A d \in Nat : d \in T
    <3> HIDE DEF T
    <3>1. QED
      BY <1>4, <2>1, Induction
  <2>3. Len(path) - k \in Nat
    BY <1>1, <1>3
  <2>4. QED
    BY <2>2, <2>3
<1>7. PICK d \in Nat : d = Len(path) - k
  BY <1>1, <1>3
<1>8. k + d = Len(path) /\ i + d \in 1..Len(path) /\ i + d # Len(path) /\ Len(path) \in 1..Len(path)
  BY <1>1, <1>3, <1>7
<1>9. path[i + d] = path[Len(path)]
  BY <1>6, <1>7, <1>8
<1>10. files[path[i + d]].extends = path[(i + d) + 1] /\ files[path[Len(path)]].extends = NoFile
  BY <1>2, <1>8
<1>11. path[(i + d) + 1] \in File
  <2>1. (i + d) + 1 \in 1..Len(path)
    BY <1>1, <1>8
  <2>2. QED
    BY <1>1, <2>1
<1>12. QED
  BY <1>1, <1>9, <1>10, <1>11

(* What is loaded is a configuration, and there is a way up from its file. *)
Sound(visiting, f) ==
    /\ LoadWithInheritance[visiting][f] \in Config \cup {Absent}
    /\ LoadWithInheritance[visiting][f] # Absent =>
          \E p \in Seq(File) : Len(p) \in 1..Unvisited(visiting) /\ IsWayUp(p, f)

LEMMA SoundStep ==
    ASSUME SettingsAssumption, Inv, NEW visiting \in SUBSET File, NEW f \in File,
           f \notin visiting => \A g \in File : Sound(visiting \cup {f}, g)
    PROVE  Sound(visiting, f)
<1> DEFINE c == LoadWithInheritance[visiting][f]
<1>1. c = LoadStep(LoadWithInheritance, visiting, f)
  BY LoadOne
<1> HIDE DEF c
<1>2. CASE f \in visiting \/ ~Readable(f)
  BY <1>1, <1>2 DEF LoadStep, Sound, c
<1>3. CASE f \notin visiting /\ Readable(f)
  <2> DEFINE child == LoadRaw(f)
             parent == LoadWithInheritance[visiting \cup {f}][child.extends]
  <2>1. c = CASE child.extends = NoFile -> child
              [] child.extends # NoFile /\ parent = Absent -> Absent
              [] OTHER -> MergeConfigs(parent, child)
    BY <1>1, <1>3 DEF LoadStep
  <2>2. child \in Config /\ child.extends = files[f].extends /\ child.extends \in File \cup {NoFile}
    <3>1. child \in Config
          /\ \A field \in DOMAIN child \ {"services"} : child[field] = files[f][field]
      BY <1>3, ReadBack
    <3> HIDE DEF child
    <3>2. "extends" \in DOMAIN child \ {"services"} /\ child.extends \in File \cup {NoFile}
      BY <3>1 DEF Config, ConfigOf
    <3>3. QED
      BY <3>1, <3>2
  <2> HIDE DEF child
  <2>3. /\ Unvisited(visiting) \in Nat /\ Unvisited(visiting \cup {f}) \in Nat
        /\ Unvisited(visiting) = Unvisited(visiting \cup {f}) + 1
    BY <1>3, FewerLeft
  <2>4. CASE child.extends = NoFile
    <3>1. c = child
      BY <2>1, <2>4
    <3>2. 1 \in 1..Unvisited(visiting)
      BY <2>3
    <3>3. files[f].extends = NoFile
      BY <2>2, <2>4
    <3>4. \E p \in Seq(File) : Len(p) \in 1..Unvisited(visiting) /\ IsWayUp(p, f)
      <4> DEFINE p == <<f>>
      <4>1. p \in Seq(File) /\ Len(p) = 1 /\ DOMAIN p = 1..1 /\ p[1] = f
        OBVIOUS
      <4> HIDE DEF p
      <4>2. IsWayUp(p, f)
        BY <1>3, <3>3, <4>1 DEF IsWayUp
      <4>3. QED
        BY <3>2, <4>1, <4>2
    <3>5. QED
      BY <2>2, <3>1, <3>4 DEF Sound, c
  <2>5. CASE child.extends # NoFile /\ parent = Absent
    BY <2>1, <2>5 DEF Sound, c
  <2>6. CASE child.extends # NoFile /\ parent # Absent
    <3>1. c = MergeConfigs(parent, child) /\ child.extends \in File
      BY <2>1, <2>2, <2>6
    <3>2. Sound(visiting \cup {f}, child.extends)
      BY <1>3, <3>1
    <3>3. /\ parent \in Config
          /\ \E q \in Seq(File) : Len(q) \in 1..Unvisited(visiting \cup {f}) /\ IsWayUp(q, child.extends)
      BY <2>6, <3>2 DEF Sound
    <3>4. PICK q \in Seq(File) : Len(q) \in 1..Unvisited(visiting \cup {f}) /\ IsWayUp(q, child.extends)
      BY <3>3
    <3>5. Len(q) \in Nat \ {0} /\ IsWayUp(q, files[f].extends)
      BY <2>2, <2>3, <3>4
    <3>6. PICK p \in Seq(File) : Len(p) = Len(q) + 1 /\ IsWayUp(p, f)
      BY <1>3, <3>5, WayPrepended
    <3>7. Len(p) \in 1..Unvisited(visiting)
      BY <2>3, <3>4, <3>6
    <3> HIDE DEF parent
    <3>8. MergeConfigs(parent, child) \in Config
      BY <2>2, <3>3, MergedConfig
    <3>9. QED
      BY <3>1, <3>6, <3>7, <3>8 DEF Sound, c
  <2>7. QED
    BY <2>4, <2>5, <2>6
<1>4. QED
  BY <1>2, <1>3

LEMMA LoadSound ==
    ASSUME SettingsAssumption, Inv, NEW visiting \in SUBSET File, NEW f \in File
    PROVE  Sound(visiting, f)
<1> DEFINE Fine(n) == \A v \in SUBSET File, g \in File : Unvisited(v) <= n => Sound(v, g)
           T == {n \in Nat : Fine(n)}
<1>1. Fine(0)
  <2>1. SUFFICES ASSUME NEW v \in SUBSET File, NEW g \in File, Unvisited(v) <= 0 PROVE Sound(v, g)
    OBVIOUS
  <2>2. v = File
    BY <2>1, SomeLeft
  <2>3. g \in v
    BY <2>2
  <2>4. QED
    BY <2>3, SoundStep
<1>2. ASSUME NEW n \in Nat, Fine(n) PROVE Fine(n + 1)
  <2>1. SUFFICES ASSUME NEW v \in SUBSET File, NEW g \in File, Unvisited(v) <= n + 1 PROVE Sound(v, g)
    OBVIOUS
  <2>2. ASSUME g \notin v PROVE \A h \in File : Sound(v \cup {g}, h)
    <3>1. Unvisited(v \cup {g}) <= n
      BY <2>1, <2>2, FewerLeft
    <3>2. v \cup {g} \in SUBSET File
      OBVIOUS
    <3>3. QED
      BY <1>2, <3>1, <3>2
  <2>3. QED
    BY <2>2, SoundStep
<1>3. \A n \in Nat : n \in T
  <2> HIDE DEF Fine
  <2>1. 0 \in T
    BY <1>1
  <2>2. \A n \in T \cap Nat : n + 1 \in T
    BY <1>2
  <2> HIDE DEF T
  <2>3. QED
    BY <2>1, <2>2, Induction
<1>4. PICK n \in Nat : n = Unvisited(visiting)
  BY SomeLeft
<1>5. Fine(n)
  BY <1>3
<1>6. QED
  BY <1>4, <1>5

(* What is loaded along a way up. *)
Along(path, visiting, f) ==
    /\ IsWayUp(path, f)
    /\ \A i \in DOMAIN path : path[i] \notin visiting
    => Merges(LoadWithInheritance[visiting][f], path)

LEMMA AlongStep ==
    ASSUME SettingsAssumption, Inv, NEW path \in Seq(File), Len(path) >= 1,
           NEW visiting \in SUBSET File, NEW f \in File,
           \A tail \in Seq(File), v \in SUBSET File, g \in File :
              Len(tail) >= 1 /\ Len(tail) + 1 = Len(path) => Along(tail, v, g)
    PROVE  Along(path, visiting, f)
<1> SUFFICES ASSUME IsWayUp(path, f), \A i \in DOMAIN path : path[i] \notin visiting
             PROVE  Merges(LoadWithInheritance[visiting][f], path)
  BY DEF Along
<1>1. DOMAIN path = 1..Len(path) /\ Len(path) \in Nat /\ 1 \in DOMAIN path
  OBVIOUS
<1>2. path[1] = f /\ f \notin visiting /\ Readable(f)
  BY <1>1 DEF IsWayUp
<1> DEFINE c == LoadWithInheritance[visiting][f]
           child == LoadRaw(f)
           parent == LoadWithInheritance[visiting \cup {f}][child.extends]
<1>3. c = LoadStep(LoadWithInheritance, visiting, f)
  BY LoadOne
<1>4. c = CASE child.extends = NoFile -> child
            [] child.extends # NoFile /\ parent = Absent -> Absent
            [] OTHER -> MergeConfigs(parent, child)
  BY <1>2, <1>3 DEF LoadStep
<1>5. child.extends = files[f].extends
  <2>1. child \in Config
        /\ \A field \in DOMAIN child \ {"services"} : child[field] = files[f][field]
    BY <1>2, ReadBack
  <2> HIDE DEF child
  <2>2. "extends" \in DOMAIN child \ {"services"}
    BY <2>1 DEF Config, ConfigOf
  <2>3. QED
    BY <2>1, <2>2
<1>6. CASE Len(path) = 1
  <2>1. files[f].extends = NoFile
    BY <1>6, WayAlone
  <2>2. c = child
    BY <1>4, <1>5, <2>1
  <2>3. Merges(LoadRaw(path[1]), path)
    BY <1>2, <1>6, MergesAlone
  <2>4. QED
    BY <1>2, <2>2, <2>3
<1>7. CASE Len(path) > 1
  <2>1. PICK tail : IsTail(tail, path)
    BY <1>7, HasTail
  <2>2. files[f].extends = tail[1] /\ tail[1] \in File /\ IsWayUp(tail, tail[1])
    BY <2>1, WayTail
  <2>3. /\ tail \in Seq(File) /\ Len(tail) >= 1 /\ Len(tail) + 1 = Len(path)
        /\ DOMAIN tail = 1..Len(tail)
        /\ \A i \in 1..Len(tail) : tail[i] = path[i + 1]
    BY <2>1 DEF IsTail
  <2>4. ASSUME NEW i \in DOMAIN tail PROVE tail[i] \notin visiting \cup {f}
    <3>1. i \in 1..Len(tail) /\ tail[i] = path[i + 1]
      BY <2>3
    <3>2. i + 1 \in DOMAIN path /\ 1 < i + 1
      <4>1. PICK n \in Nat : n = Len(path)
        BY <1>1
      <4>2. Len(tail) = n - 1
        BY <2>3, <4>1
      <4>3. i \in 1..(n - 1)
        BY <3>1, <4>2
      <4>4. i + 1 \in 1..n /\ 1 < i + 1
        BY <4>3
      <4>5. QED
        BY <1>1, <4>1, <4>4
    <3>3. path[i + 1] # path[1]
      BY <1>1, <3>2, NeverTwice
    <3>4. QED
      BY <1>2, <3>1, <3>2, <3>3
  <2>5. visiting \cup {f} \in SUBSET File
    OBVIOUS
  <2>6. Along(tail, visiting \cup {f}, tail[1])
    BY <2>2, <2>3, <2>5
  <2>7. Merges(LoadWithInheritance[visiting \cup {f}][tail[1]], tail)
    BY <2>2, <2>4, <2>6 DEF Along
  <2>8. child.extends = tail[1]
    BY <1>5, <2>2
  <2>9. Merges(parent, tail)
    BY <2>7, <2>8
  <2>10. parent # Absent /\ child.extends # NoFile
    BY <2>2, <2>8, <2>9 DEF Merges, SettingsAssumption
  <2>11. c = MergeConfigs(parent, child)
    BY <1>4, <2>10
  <2> HIDE DEF parent
  <2>12. Merges(MergeConfigs(parent, LoadRaw(path[1])), path)
    BY <1>2, <2>1, <2>9, MergesStep
  <2>13. QED
    BY <1>2, <2>11, <2>12
<1>8. Len(path) = 1 \/ Len(path) > 1
  <2>1. PICK n \in Nat : n = Len(path)
    BY <1>1
  <2>2. n >= 1
    BY <2>1
  <2>3. QED
    BY <2>1, <2>2
<1>9. QED
  BY <1>6, <1>7, <1>8

LEMMA LoadAlong ==
    ASSUME SettingsAssumption, Inv, NEW path \in Seq(File), Len(path) >= 1, NEW f \in File, IsWayUp(path, f)
    PROVE  Merges(LoadWithInheritance[{}][f], path)
<1> DEFINE Fine(n) == \A p \in Seq(File), v \in SUBSET File, g \in File :
                         Len(p) >= 1 /\ Len(p) <= n => Along(p, v, g)
           T == {n \in Nat : Fine(n)}
<1>1. Fine(0)
  OBVIOUS
<1>2. ASSUME NEW n \in Nat, Fine(n) PROVE Fine(n + 1)
  <2>1. SUFFICES ASSUME NEW p \in Seq(File), NEW v \in SUBSET File, NEW g \in File,
                        Len(p) >= 1, Len(p) <= n + 1
                 PROVE  Along(p, v, g)
    OBVIOUS
  <2>2. ASSUME NEW tail \in Seq(File), NEW w \in SUBSET File, NEW h \in File,
               Len(tail) >= 1, Len(tail) + 1 = Len(p)
        PROVE  Along(tail, w, h)
    <3>1. Len(tail) <= n
      BY <2>1, <2>2
    <3>2. QED
      BY <1>2, <2>2, <3>1
  <2>3. QED
    BY <2>1, <2>2, AlongStep
<1>3. \A n \in Nat : n \in T
  <2> HIDE DEF Fine
  <2>1. 0 \in T
    BY <1>1
  <2>2. \A n \in T \cap Nat : n + 1 \in T
    BY <1>2
  <2> HIDE DEF T
  <2>3. QED
    BY <2>1, <2>2, Induction
<1>4. Len(path) \in Nat
  OBVIOUS
<1>5. Fine(Len(path))
  BY <1>3, <1>4
<1>6. Along(path, {}, f)
  <2>1. {} \in SUBSET File /\ Len(path) <= Len(path)
    BY <1>4
  <2>2. QED
    BY <1>5, <2>1
<1>7. QED
  BY <1>6 DEF Along

(* The environment only replaces the namespace. *)
LEMMA LoadType ==
    ASSUME SettingsAssumption, Inv, NEW f \in File
    PROVE  LET c == LoadWithInheritance[{}][f]
           IN /\ c \in Config \cup {Absent}
              /\ Load(f) \in Config \cup {Absent}
              /\ Load(f) = Absent <=> c = Absent
              /\ c # Absent => /\ Load(f).namespace = IF env # "" THEN env ELSE c.namespace
                               /\ \A field \in DOMAIN c \ {"namespace"} : Load(f)[field] = c[field]
<1> DEFINE c == LoadWithInheritance[{}][f]
<1>1. c \in Config \cup {Absent}
  BY LoadSound DEF Sound
<1>2. Load(f) = IF c = Absent \/ env = "" THEN c ELSE [c EXCEPT !.namespace = env]
  BY DEF Load
<1> HIDE DEF c
<1>3. Absent \notin Config
  BY DEF SettingsAssumption
<1>4. CASE c = Absent \/ env = ""
  BY <1>1, <1>2, <1>3, <1>4 DEF c
<1>5. CASE c # Absent /\ env # ""
  <2>1. c \in Config /\ Load(f) = [c EXCEPT !.namespace = env]
    BY <1>1, <1>2, <1>5
  <2>2. env \in STRING
    BY NamesAssumption DEF Inv
  <2>3. Load(f) \in Config /\ Load(f).namespace = env
    BY <2>1, <2>2 DEF Config, ConfigOf
  <2>4. \A field \in DOMAIN c \ {"namespace"} : Load(f)[field] = c[field]
    BY <2>1
  <2>5. QED
    BY <1>1, <1>3, <1>5, <2>1, <2>3, <2>4 DEF c
<1>6. QED
  BY <1>4, <1>5

(* The paths that LoadNearestWins looks at. *)
LEMMA WaysAreWays ==
    ASSUME SettingsAssumption, NEW f \in File, NEW path \in WaysUp(f)
    PROVE  path \in Seq(File) /\ Len(path) >= 1 /\ IsWayUp(path, f)
<1>1. PICK n \in 1..Cardinality(File) : path \in [1..n -> File]
  BY DEF WaysUp
<1>2. Cardinality(File) \in Nat
  BY FS_CardinalityType DEF SettingsAssumption
<1>3. n \in Nat /\ n >= 1
  BY <1>2
<1>4. path \in Seq(File) /\ Len(path) = n
  BY <1>1, <1>3
<1>5. QED
  BY <1>3, <1>4 DEF WaysUp

LEMMA WayExists ==
    ASSUME SettingsAssumption, Inv, NEW f \in File
    PROVE  LoadWithInheritance[{}][f] # Absent <=> WaysUp(f) # {}
<1>1. ASSUME LoadWithInheritance[{}][f] # Absent PROVE WaysUp(f) # {}
  <2>1. Sound({}, f)
    BY LoadSound
  <2>2. PICK p \in Seq(File) : Len(p) \in 1..Unvisited({}) /\ IsWayUp(p, f)
    BY <1>1, <2>1 DEF Sound
  <2>3. Unvisited({}) = Cardinality(File)
    <3>1. File \ {} = File
      OBVIOUS
    <3>2. QED
      BY <3>1 DEF Unvisited
  <2>4. p \in [1..Len(p) -> File] /\ Len(p) \in 1..Cardinality(File)
    BY <2>2, <2>3
  <2>5. p \in WaysUp(f)
    BY <2>2, <2>4, Zenon DEF WaysUp
  <2>6. QED
    BY <2>5
<1>2. ASSUME NEW path \in WaysUp(f) PROVE LoadWithInheritance[{}][f] # Absent
  <2>1. path \in Seq(File) /\ Len(path) >= 1 /\ IsWayUp(path, f)
    BY WaysAreWays
  <2>2. Merges(LoadWithInheritance[{}][f], path)
    BY <2>1, LoadAlong
  <2>3. QED
    BY <2>2 DEF Merges, SettingsAssumption
<1>3. QED
  BY <1>1, <1>2

(* What LoadNearestWins says of a path is what was merged along it. *)
LEMMA InheritedFrom ==
    ASSUME NEW path \in Seq(File), NEW field, NEW unset
    PROVE  /\ {i \in DOMAIN path : LoadRaw(path[i])[field] # unset} = Where(path, Setting(field, unset))
           /\ Inherited(path, field, unset) = From(path, Setting(field, unset))[field]
<1>1. \A i \in DOMAIN path : path[i] \in File
  OBVIOUS
<1>2. {i \in DOMAIN path : LoadRaw(path[i])[field] # unset} = Where(path, Setting(field, unset))
  BY <1>1 DEF Where, Setting
<1>3. QED
  BY <1>2 DEF Inherited, From

LEMMA HavingFrom ==
    ASSUME NEW path \in Seq(File), NEW n
    PROVE  Nearest(path, Having(path, n)) = From(path, Owning(n))
<1>1. \A i \in DOMAIN path : path[i] \in File
  OBVIOUS
<1>2. Having(path, n) = Where(path, Owning(n))
  BY <1>1 DEF Having, Where, Owning
<1>3. QED
  BY <1>2 DEF From

LEMMA NearestWins == ASSUME SettingsAssumption, Inv PROVE LoadNearestWins
<1>1. ASSUME NEW f \in File PROVE Load(f) # Absent <=> WaysUp(f) # {}
  BY LoadType, WayExists
<1>2. ASSUME NEW f \in File, NEW path \in WaysUp(f)
      PROVE  LET c == Load(f)
                 proxy == Nearest(path, {i \in DOMAIN path : LoadRaw(path[i]).socks # "unset"})
             IN /\ c.namespace = IF env # "" THEN env ELSE Inherited(path, "namespace", "")
                /\ \A field \in {"interval", "latency", "jitter"} : c[field] = Inherited(path, field, 0)
                /\ \A field \in {"key", "keyId"} : c[field] = Inherited(path, field, FALSE)
                /\ <<c.socks, c.listen>> = <<proxy.socks, proxy.listen>>
                /\ Names(c.services) = UNION {Names(LoadRaw(path[i]).services) : i \in DOMAIN path}
                /\ \A i \in DOMAIN c.services :
                      LET d == Nearest(path, Having(path, c.services[i].name))
                      IN \E k \in DOMAIN d.services : d.services[k] = c.services[i]
  <2> DEFINE c == Load(f)
             l == LoadWithInheritance[{}][f]
             proxy == Nearest(path, {i \in DOMAIN path : LoadRaw(path[i]).socks # "unset"})
  <2>1. path \in Seq(File) /\ Len(path) >= 1 /\ IsWayUp(path, f)
    BY WaysAreWays
  <2>2. Merges(l, path)
    BY <2>1, LoadAlong
  <2>3. l \in Config /\ l # Absent
    BY <2>2 DEF Merges, SettingsAssumption
  <2>4. /\ c.namespace = IF env # "" THEN env ELSE l.namespace
        /\ \A field \in DOMAIN l \ {"namespace"} : c[field] = l[field]
    BY <2>3, LoadType
  <2>5. {"interval", "latency", "jitter", "key", "keyId", "socks", "listen", "services"}
           \subseteq DOMAIN l \ {"namespace"}
    <3> HIDE DEF l
    <3>1. QED
      BY <2>3 DEF Config, ConfigOf
  <2> HIDE DEF c, l
  <2>6. c.socks = l.socks /\ c.listen = l.listen /\ c.services = l.services
    BY <2>4, <2>5
  <2>7. c.namespace = IF env # "" THEN env ELSE Inherited(path, "namespace", "")
    <3>1. l.namespace = From(path, Setting("namespace", "")).namespace
      BY <2>2 DEF Merges
    <3>2. Inherited(path, "namespace", "") = From(path, Setting("namespace", ""))["namespace"]
      BY <2>1, InheritedFrom
    <3>3. QED
      BY <2>4, <3>1, <3>2
  <2>8. ASSUME NEW field \in {"interval", "latency", "jitter"} PROVE c[field] = Inherited(path, field, 0)
    <3>1. c[field] = l[field] /\ l[field] = From(path, Setting(field, 0))[field]
      BY <2>2, <2>4, <2>5 DEF Merges
    <3>2. QED
      BY <2>1, <3>1, InheritedFrom
  <2>9. ASSUME NEW field \in {"key", "keyId"} PROVE c[field] = Inherited(path, field, FALSE)
    <3>1. c[field] = l[field] /\ l[field] = From(path, Setting(field, FALSE))[field]
      BY <2>2, <2>4, <2>5 DEF Merges
    <3>2. QED
      BY <2>1, <3>1, InheritedFrom
  <2>10. <<c.socks, c.listen>> = <<proxy.socks, proxy.listen>>
    <3>1. {i \in DOMAIN path : LoadRaw(path[i]).socks # "unset"} = Where(path, Setting("socks", "unset"))
      BY <2>1, InheritedFrom
    <3>2. proxy = From(path, Setting("socks", "unset"))
      BY <3>1 DEF From
    <3> HIDE DEF proxy
    <3>3. QED
      BY <2>2, <2>6, <3>2 DEF Merges
  <2>11. Names(c.services) = UNION {Names(LoadRaw(path[i]).services) : i \in DOMAIN path}
    BY <2>2, <2>6 DEF Merges
  <2>12. ASSUME NEW i \in DOMAIN c.services
         PROVE  LET d == Nearest(path, Having(path, c.services[i].name))
                IN \E k \in DOMAIN d.services : d.services[k] = c.services[i]
    <3>1. Nearest(path, Having(path, c.services[i].name)) = From(path, Owning(c.services[i].name))
      BY <2>1, HavingFrom
    <3>2. \E k \in DOMAIN From(path, Owning(c.services[i].name)).services :
             From(path, Owning(c.services[i].name)).services[k] = c.services[i]
      BY <2>2, <2>6 DEF Merges
    <3>3. QED
      BY <3>1, <3>2
  <2> HIDE DEF proxy
  <2>13. QED
    BY <2>7, <2>8, <2>9, <2>10, <2>11, <2>12 DEF c, proxy
<1>3. QED
  BY <1>1, <1>2 DEF LoadNearestWins

(* Load finds the files that a file extends, however many, fails exactly   *)
(* when one is missing, unreadable or met twice, and takes every setting   *)
(* from the nearest file that has it (config.go loadWithInheritance,       *)
(* merge.go), the namespace from the environment when that is set.         *)
THEOREM NearestFileDecides == Spec => []LoadNearestWins
<1>1. Inv => LoadNearestWins
  BY SettingsAssumption, NearestWins
<1>2. QED
  BY <1>1, Invariant, PTL

-----------------------------------------------------------------------------
(* The command line *)

AfterStep(services, extra, g, k) == IF k = 0 THEN services ELSE WithSvc(g[k - 1], extra[k])

(* The loop of WithAll has its values. *)
LEMMA WithAllRuns ==
    ASSUME NEW services, NEW extra, Len(extra) \in Nat
    PROVE  \E g : /\ g = [k \in 0..Len(extra) |-> AfterStep(services, extra, g, k)]
                  /\ WithAll(services, extra) = g[Len(extra)]
<1> DEFINE T == {n \in Nat : \E g : g = [k \in 0..n |-> AfterStep(services, extra, g, k)]}
<1>1. 0 \in T
  <2> DEFINE g == [k \in 0..0 |-> services]
  <2>1. g = [k \in 0..0 |-> AfterStep(services, extra, g, k)]
    BY DEF AfterStep
  <2>2. QED
    BY <2>1
<1>2. ASSUME NEW n \in T \cap Nat PROVE n + 1 \in T
  <2>1. PICK g : g = [k \in 0..n |-> AfterStep(services, extra, g, k)]
    OBVIOUS
  <2> DEFINE h == [k \in 0..(n + 1) |-> AfterStep(services, extra, g, k)]
  <2>2. \A k \in 0..n : h[k] = g[k]
    BY <2>1
  <2>3. ASSUME NEW k \in 0..(n + 1) PROVE AfterStep(services, extra, h, k) = AfterStep(services, extra, g, k)
    <3>1. CASE k = 0
      BY <3>1 DEF AfterStep
    <3>2. CASE k # 0
      <4>1. k - 1 \in 0..n
        BY <3>2
      <4>2. h[k - 1] = g[k - 1]
        BY <2>2, <4>1
      <4> HIDE DEF h
      <4>3. QED
        BY <4>2 DEF AfterStep
    <3>3. QED
      BY <3>1, <3>2
  <2>4. h = [k \in 0..(n + 1) |-> AfterStep(services, extra, h, k)]
    BY <2>3
  <2> HIDE DEF h
  <2>5. QED
    BY <2>4
<1>3. Len(extra) \in T
  <2> HIDE DEF T
  <2>1. \A n \in T \cap Nat : n + 1 \in T
    BY <1>2
  <2>2. QED
    BY <1>1, <2>1, Induction
<1>4. QED
  BY <1>3 DEF WithAll, AfterStep

(* The first service of its name, and the last argument of its name among  *)
(* the first k.                                                            *)
First(w, i) == \A m \in DOMAIN w : m < i => w[m].name # w[i].name
Latest(extra, k, j) == j \in 1..k /\ \A m \in 1..k : m > j => extra[m].name # extra[j].name
Asked(extra, k, n) == \E j \in 1..k : extra[j].name = n

(* What the first k arguments have made of the services b: the first of    *)
(* each name they have is the latest, in its place or at the end, and the  *)
(* others stay.                                                            *)
After(w, b, extra, k) ==
    /\ w \in Seq(ServiceConfig) /\ Len(w) >= Len(b)
    /\ \A i \in 1..Len(b) : w[i].name = b[i].name
    /\ \A i \in 1..Len(w) :
          IF First(w, i) /\ Asked(extra, k, w[i].name)
             THEN \E j : Latest(extra, k, j) /\ w[i] = extra[j]
             ELSE i \in 1..Len(b) /\ w[i] = b[i]
    /\ \A j \in 1..k : \E i \in 1..Len(w) : w[i].name = extra[j].name

LEMMA AfterNone ==
    ASSUME NEW b \in Seq(ServiceConfig), NEW extra
    PROVE  After(b, b, extra, 0)
<1>1. \A n : ~Asked(extra, 0, n)
  BY DEF Asked
<1>2. QED
  BY <1>1 DEF After

(* An argument changes what is latest for its own name only. *)
LEMMA LatestStep ==
    ASSUME NEW extra, NEW k \in Nat
    PROVE  /\ Latest(extra, k + 1, k + 1)
           /\ \A j : Latest(extra, k, j) /\ extra[j].name # extra[k + 1].name => Latest(extra, k + 1, j)
           /\ \A n : Asked(extra, k + 1, n) <=> Asked(extra, k, n) \/ n = extra[k + 1].name
<1>1. \A j : j \in 1..(k + 1) <=> j \in 1..k \/ j = k + 1
  OBVIOUS
<1>2. Latest(extra, k + 1, k + 1)
  BY DEF Latest
<1>3. \A j : Latest(extra, k, j) /\ extra[j].name # extra[k + 1].name => Latest(extra, k + 1, j)
  BY <1>1 DEF Latest
<1>4. \A n : Asked(extra, k + 1, n) <=> Asked(extra, k, n) \/ n = extra[k + 1].name
  BY <1>1 DEF Asked
<1>5. QED
  BY <1>2, <1>3, <1>4

LEMMA AfterOneMore ==
    ASSUME NEW b \in Seq(ServiceConfig), NEW extra \in Seq(ServiceConfig),
           NEW k \in Nat, k + 1 <= Len(extra), NEW w, After(w, b, extra, k)
    PROVE  After(WithSvc(w, extra[k + 1]), b, extra, k + 1)
<1> DEFINE s == extra[k + 1]
           new == WithSvc(w, s)
<1>1. s \in ServiceConfig /\ Len(b) \in Nat
  OBVIOUS
<1>2. /\ w \in Seq(ServiceConfig) /\ Len(w) >= Len(b) /\ Len(w) \in Nat /\ DOMAIN w = 1..Len(w)
      /\ \A i \in 1..Len(b) : w[i].name = b[i].name
      /\ \A j \in 1..k : \E i \in 1..Len(w) : w[i].name = extra[j].name
  <2>1. w \in Seq(ServiceConfig)
    BY DEF After
  <2>2. Len(w) \in Nat /\ DOMAIN w = 1..Len(w)
    BY <2>1
  <2>3. QED
    BY <2>1, <2>2 DEF After
<1>3. \A i \in 1..Len(w) :
         IF First(w, i) /\ Asked(extra, k, w[i].name)
            THEN \E j : Latest(extra, k, j) /\ w[i] = extra[j]
            ELSE i \in 1..Len(b) /\ w[i] = b[i]
  BY DEF After
<1>4. /\ Latest(extra, k + 1, k + 1)
      /\ \A j : Latest(extra, k, j) /\ extra[j].name # s.name => Latest(extra, k + 1, j)
      /\ \A n : Asked(extra, k + 1, n) <=> Asked(extra, k, n) \/ n = s.name
  BY LatestStep
<1> HIDE DEF s
<1>5. CASE At(w, s.name) = {}
  <2>1. new = Append(w, s)
    BY <1>5 DEF WithSvc
  <2>2. \A i \in 1..Len(w) : w[i].name # s.name
    BY <1>2, <1>5 DEF At
  <2>3. /\ new \in Seq(ServiceConfig) /\ Len(new) = Len(w) + 1 /\ DOMAIN new = 1..(Len(w) + 1)
        /\ \A i \in 1..Len(w) : new[i] = w[i]
        /\ new[Len(w) + 1] = s
    BY <1>1, <1>2, <2>1
  <2> HIDE DEF new
  <2>4. ASSUME NEW i \in 1..Len(w) PROVE First(new, i) <=> First(w, i)
    <3>1. \A m \in DOMAIN new : m < i => m \in DOMAIN w /\ new[m] = w[m]
      BY <1>2, <2>3
    <3>2. \A m \in DOMAIN w : m \in DOMAIN new /\ new[m] = w[m]
      BY <1>2, <2>3
    <3>3. new[i] = w[i]
      BY <2>3
    <3>4. QED
      BY <3>1, <3>2, <3>3 DEF First
  <2>5. ASSUME NEW i \in 1..Len(new)
        PROVE  IF First(new, i) /\ Asked(extra, k + 1, new[i].name)
                  THEN \E j : Latest(extra, k + 1, j) /\ new[i] = extra[j]
                  ELSE i \in 1..Len(b) /\ new[i] = b[i]
    <3>1. CASE i = Len(w) + 1
      <4>1. new[i] = s /\ Asked(extra, k + 1, s.name) /\ Latest(extra, k + 1, k + 1)
        BY <1>4, <2>3, <3>1
      <4>2. First(new, i)
        <5>1. ASSUME NEW m \in DOMAIN new, m < i PROVE new[m].name # new[i].name
          <6>1. m \in 1..Len(w)
            BY <1>2, <2>3, <3>1, <5>1
          <6>2. QED
            BY <2>2, <2>3, <4>1, <6>1
        <5>2. QED
          BY <5>1 DEF First
      <4>3. QED
        BY <4>1, <4>2 DEF s
    <3>2. CASE i # Len(w) + 1
      <4>1. i \in 1..Len(w) /\ new[i] = w[i]
        BY <1>2, <2>3, <3>2
      <4>2. Asked(extra, k + 1, w[i].name) <=> Asked(extra, k, w[i].name)
        BY <1>4, <2>2, <4>1
      <4>3. \A j : Latest(extra, k, j) /\ w[i] = extra[j] => Latest(extra, k + 1, j)
        BY <1>4, <2>2, <4>1
      <4>4. QED
        BY <1>3, <2>4, <4>1, <4>2, <4>3
    <3>3. QED
      BY <3>1, <3>2
  <2>6. \A i \in 1..Len(b) : new[i].name = b[i].name
    <3>1. \A i \in 1..Len(b) : i \in 1..Len(w)
      BY <1>1, <1>2
    <3>2. QED
      BY <1>2, <2>3, <3>1
  <2>7. \A j \in 1..(k + 1) : \E i \in 1..Len(new) : new[i].name = extra[j].name
    <3>1. \A j \in 1..(k + 1) : j \in 1..k \/ j = k + 1
      OBVIOUS
    <3>2. 1..Len(w) \subseteq 1..Len(new) /\ Len(w) + 1 \in 1..Len(new)
      BY <1>2, <2>3
    <3>3. QED
      BY <1>2, <2>3, <3>1, <3>2 DEF s
  <2>8. Len(new) >= Len(b)
    BY <1>1, <1>2, <2>3
  <2>9. After(new, b, extra, k + 1)
    BY <2>3, <2>5, <2>6, <2>7, <2>8 DEF After
  <2>10. QED
    BY <2>9 DEF new, s
<1>6. CASE At(w, s.name) # {}
  <2> DEFINE p == Min(At(w, s.name))
  <2>1. new = [w EXCEPT ![p] = s]
    BY <1>6 DEF WithSvc
  <2>2. At(w, s.name) \subseteq 1..Len(w) /\ \A i \in 1..Len(w) : i \in At(w, s.name) <=> w[i].name = s.name
    BY <1>2 DEF At
  <2>3. p \in At(w, s.name) /\ \A i \in At(w, s.name) : p <= i
    BY <1>2, <1>6, <2>2, FirstPlace
  <2> HIDE DEF p
  <2>4. p \in 1..Len(w) /\ w[p].name = s.name
    BY <2>2, <2>3
  <2>5. /\ new \in Seq(ServiceConfig) /\ Len(new) = Len(w) /\ DOMAIN new = 1..Len(w)
        /\ new[p] = s
        /\ \A i \in 1..Len(w) : i # p => new[i] = w[i]
    BY <1>1, <1>2, <2>1, <2>4
  <2> HIDE DEF new
  <2>6. \A i \in 1..Len(w) : new[i].name = w[i].name
    BY <2>4, <2>5
  <2>7. \A i \in 1..Len(w) : First(new, i) <=> First(w, i)
    BY <1>2, <2>5, <2>6 DEF First
  <2>8. First(w, p)
    <3>1. ASSUME NEW m \in DOMAIN w, m < p PROVE w[m].name # w[p].name
      <4>1. m \in 1..Len(w) /\ ~(p <= m)
        BY <1>2, <2>4, <3>1
      <4>2. QED
        BY <2>2, <2>3, <2>4, <4>1
    <3>2. QED
      BY <3>1 DEF First
  <2>9. ASSUME NEW i \in 1..Len(w), i # p, w[i].name = s.name PROVE ~First(w, i)
    <3>1. p <= i
      BY <2>2, <2>3, <2>9
    <3>2. p < i
      BY <1>2, <2>4, <2>9, <3>1
    <3>3. QED
      BY <1>2, <2>4, <2>9, <3>2 DEF First
  <2>10. ASSUME NEW i \in 1..Len(w)
         PROVE  IF First(new, i) /\ Asked(extra, k + 1, new[i].name)
                   THEN \E j : Latest(extra, k + 1, j) /\ new[i] = extra[j]
                   ELSE i \in 1..Len(b) /\ new[i] = b[i]
    <3>1. CASE i = p
      <4>1. new[i] = s /\ Asked(extra, k + 1, s.name) /\ Latest(extra, k + 1, k + 1) /\ First(new, i)
        BY <1>4, <2>5, <2>7, <2>8, <3>1
      <4>2. QED
        BY <4>1 DEF s
    <3>2. CASE i # p /\ w[i].name = s.name
      <4>1. ~First(w, i) /\ ~First(new, i) /\ new[i] = w[i]
        BY <2>5, <2>7, <2>9, <3>2
      <4>2. QED
        BY <1>3, <4>1
    <3>3. CASE i # p /\ w[i].name # s.name
      <4>1. new[i] = w[i]
        BY <2>5, <3>3
      <4>2. Asked(extra, k + 1, w[i].name) <=> Asked(extra, k, w[i].name)
        BY <1>4, <3>3
      <4>3. \A j : Latest(extra, k, j) /\ w[i] = extra[j] => Latest(extra, k + 1, j)
        BY <1>4, <3>3
      <4>4. QED
        BY <1>3, <2>7, <4>1, <4>2, <4>3
    <3>4. QED
      BY <3>1, <3>2, <3>3
  <2>11. \A i \in 1..Len(b) : new[i].name = b[i].name
    <3>1. \A i \in 1..Len(b) : i \in 1..Len(w)
      BY <1>1, <1>2
    <3>2. QED
      BY <1>2, <2>6, <3>1
  <2>12. \A j \in 1..(k + 1) : \E i \in 1..Len(new) : new[i].name = extra[j].name
    <3>1. \A j \in 1..(k + 1) : j \in 1..k \/ j = k + 1
      OBVIOUS
    <3>2. QED
      BY <1>2, <2>4, <2>5, <2>6, <3>1 DEF s
  <2>13. After(new, b, extra, k + 1)
    BY <1>2, <2>5, <2>10, <2>11, <2>12 DEF After
  <2>14. QED
    BY <2>13 DEF new, s
<1>7. QED
  BY <1>5, <1>6

(* What --svc makes of the services of a file. *)
LEMMA AfterAll ==
    ASSUME NEW b \in Seq(ServiceConfig), NEW extra \in Seq(ServiceConfig)
    PROVE  After(WithAll(b, extra), b, extra, Len(extra))
<1>1. Len(extra) \in Nat
  OBVIOUS
<1>2. PICK g : /\ g = [k \in 0..Len(extra) |-> AfterStep(b, extra, g, k)]
               /\ WithAll(b, extra) = g[Len(extra)]
  BY <1>1, WithAllRuns
<1> DEFINE Fine(n) == After(g[n], b, extra, n)
           T == {n \in Nat : n <= Len(extra) => Fine(n)}
<1>3. Fine(0)
  <2>1. g[0] = b
    BY <1>1, <1>2 DEF AfterStep
  <2>2. QED
    BY <2>1, AfterNone
<1>4. ASSUME NEW n \in Nat, n + 1 <= Len(extra), Fine(n) PROVE Fine(n + 1)
  <2>1. n + 1 \in 0..Len(extra) /\ n + 1 # 0 /\ (n + 1) - 1 = n
    BY <1>1, <1>4
  <2>2. g[n + 1] = AfterStep(b, extra, g, n + 1)
    BY <1>2, <2>1, Zenon
  <2>3. g[n + 1] = WithSvc(g[n], extra[n + 1])
    BY <2>1, <2>2 DEF AfterStep
  <2>4. After(WithSvc(g[n], extra[n + 1]), b, extra, n + 1)
    BY <1>4, AfterOneMore
  <2>5. QED
    BY <2>3, <2>4
<1>5. Fine(Len(extra))
  <2> HIDE DEF Fine
  <2>1. 0 \in T
    BY <1>3
  <2>2. \A n \in T \cap Nat : n + 1 \in T
    BY <1>1, <1>4
  <2>3. Len(extra) \in T
    <3> HIDE DEF T
    <3>1. QED
      BY <1>1, <2>1, <2>2, Induction
  <2>4. QED
    BY <1>1, <2>3
<1>6. QED
  BY <1>2, <1>5

(* No service comes twice out of a loop that skips some. *)
LEMMA WithoutTwice ==
    ASSUME NEW S, NEW s \in Seq(S), NEW names, NEW n, Twice(Without(s, names), n)
    PROVE  Twice(s, n)
<1> DEFINE at == {i \in DOMAIN s : s[i].name \notin names}
           t == Without(s, names)
<1>1. at \subseteq DOMAIN s
  OBVIOUS
<1>2. t = Kept(s, at)
  BY DEF Without
<1> HIDE DEF at, t
<1>3. t \in Seq(S) /\ \E h : Picks(t, s, at, h)
  BY <1>1, <1>2, KeptPlaces
<1>4. PICK h : Picks(t, s, at, h)
  BY <1>3
<1>5. DOMAIN t = 1..Len(t) /\ Len(t) \in Nat
  BY <1>3
<1>6. /\ h \in [1..Len(t) -> at]
      /\ \A k \in 1..Len(t) : t[k] = s[h[k]]
      /\ \A i, k \in 1..Len(t) : i < k => h[i] < h[k]
  BY <1>4 DEF Picks
<1>7. PICK i \in DOMAIN t, k \in DOMAIN t : t[i].name = n /\ t[k].name = n /\ i # k
  BY DEF Twice, At, t
<1>8. h[i] # h[k]
  <2>1. at \subseteq Nat
    BY <1>1
  <2>2. h[i] \in Nat /\ h[k] \in Nat
    BY <1>5, <1>6, <1>7, <2>1
  <2>3. i < k \/ k < i
    BY <1>5, <1>7
  <2>4. h[i] < h[k] \/ h[k] < h[i]
    BY <1>5, <1>6, <2>3
  <2>5. QED
    BY <2>2, <2>4
<1>9. h[i] \in DOMAIN s /\ h[k] \in DOMAIN s /\ s[h[i]].name = n /\ s[h[k]].name = n
  BY <1>1, <1>5, <1>6, <1>7
<1>10. h[i] \in At(s, n) /\ h[k] \in At(s, n)
  BY <1>9 DEF At
<1>11. QED
  BY <1>8, <1>10 DEF Twice

(* The parts of FlagsApplied, for the services of one file. *)
AppliesTo(services, inFile, disabled, extra) ==
    LET got == {services[i] : i \in DOMAIN services}
        asked == {extra[Max(At(extra, n))] : n \in Names(extra)}
    IN /\ asked \subseteq got
       /\ \A s \in got : s.name \in Names(extra) => s \in asked \/ Twice(inFile, s.name)
       /\ {s \in got : s.name \notin Names(extra)}
             = {inFile[i] : i \in {k \in DOMAIN inFile : inFile[k].name \notin disabled \cup Names(extra)}}

LEMMA Applies ==
    ASSUME NEW inFile \in Seq(ServiceConfig), NEW extra \in Seq(ServiceConfig), NEW disabled
    PROVE  AppliesTo(Overridden(inFile, disabled, extra), inFile, disabled, extra)
<1> DEFINE b == Without(inFile, disabled)
           w == WithAll(b, extra)
           got == {w[i] : i \in DOMAIN w}
           asked == {extra[Max(At(extra, n))] : n \in Names(extra)}
<1>1. /\ b \in Seq(ServiceConfig)
      /\ \A k \in DOMAIN b : b[k].name \notin disabled /\ \E i \in DOMAIN inFile : b[k] = inFile[i]
      /\ \A i \in DOMAIN inFile : inFile[i].name \notin disabled => \E k \in DOMAIN b : b[k] = inFile[i]
  BY WithoutElements
<1>2. \A n : Twice(b, n) => Twice(inFile, n)
  BY WithoutTwice
<1>3. Overridden(inFile, disabled, extra) = w
  BY DEF Overridden
<1> HIDE DEF b
<1>4. After(w, b, extra, Len(extra))
  BY <1>1, AfterAll
<1> HIDE DEF w
<1>5. w \in Seq(ServiceConfig) /\ Len(w) >= Len(b)
  BY <1>4 DEF After
<1>6. /\ DOMAIN w = 1..Len(w) /\ DOMAIN b = 1..Len(b) /\ DOMAIN extra = 1..Len(extra)
      /\ Len(w) \in Nat /\ Len(b) \in Nat /\ Len(extra) \in Nat
      /\ 1..Len(b) \subseteq 1..Len(w)
  BY <1>1, <1>5
<1>7. /\ \A i \in 1..Len(b) : w[i].name = b[i].name
      /\ \A i \in 1..Len(w) :
            IF First(w, i) /\ Asked(extra, Len(extra), w[i].name)
               THEN \E j : Latest(extra, Len(extra), j) /\ w[i] = extra[j]
               ELSE i \in 1..Len(b) /\ w[i] = b[i]
      /\ \A j \in 1..Len(extra) : \E i \in 1..Len(w) : w[i].name = extra[j].name
  BY <1>4 DEF After
<1>8. \A n : Asked(extra, Len(extra), n) <=> n \in Names(extra)
  BY <1>6 DEF Asked, Names
<1>9. ASSUME NEW n \in Names(extra)
      PROVE  /\ Max(At(extra, n)) \in 1..Len(extra) /\ extra[Max(At(extra, n))].name = n
             /\ \A j : Latest(extra, Len(extra), j) /\ extra[j].name = n => j = Max(At(extra, n))
  <2> DEFINE T == At(extra, n)
  <2>1. T \subseteq 1..Len(extra) /\ T # {}
    BY <1>6 DEF At, Names
  <2>2. \A j \in 1..Len(extra) : j \in T <=> extra[j].name = n
    BY <1>6 DEF At
  <2> HIDE DEF T
  <2>3. Max(T) \in T /\ \A i \in T : Max(T) >= i
    BY <1>6, <2>1, LastPlace
  <2>4. Max(T) \in 1..Len(extra) /\ extra[Max(T)].name = n
    BY <2>1, <2>2, <2>3
  <2>5. ASSUME NEW j, Latest(extra, Len(extra), j), extra[j].name = n PROVE j = Max(T)
    <3>1. j \in 1..Len(extra) /\ \A m \in 1..Len(extra) : m > j => extra[m].name # n
      BY <2>5 DEF Latest
    <3>2. j \in T
      BY <2>2, <2>5, <3>1
    <3>3. Max(T) >= j /\ ~(Max(T) > j)
      BY <2>3, <2>4, <3>1, <3>2
    <3>4. QED
      BY <1>6, <2>4, <3>1, <3>3
  <2>6. QED
    BY <2>4, <2>5 DEF T
<1>10. ASSUME NEW i \in 1..Len(w), First(w, i), w[i].name \in Names(extra)
       PROVE  w[i] = extra[Max(At(extra, w[i].name))]
  <2>1. PICK j : Latest(extra, Len(extra), j) /\ w[i] = extra[j]
    BY <1>7, <1>8, <1>10
  <2>2. j = Max(At(extra, w[i].name))
    BY <1>9, <1>10, <2>1
  <2>3. QED
    BY <2>1, <2>2
<1>11. asked \subseteq got
  <2>1. SUFFICES ASSUME NEW n \in Names(extra)
                 PROVE  \E i \in DOMAIN w : w[i] = extra[Max(At(extra, n))]
    OBVIOUS
  <2>2. PICK j \in 1..Len(extra) : extra[j].name = n
    BY <1>6 DEF Names
  <2>3. At(w, n) \subseteq 1..Len(w) /\ At(w, n) # {}
    <3>1. PICK i \in 1..Len(w) : w[i].name = n
      BY <1>7, <2>2
    <3>2. QED
      BY <1>6, <3>1 DEF At
  <2>4. Min(At(w, n)) \in At(w, n) /\ \A i \in At(w, n) : Min(At(w, n)) <= i
    BY <1>6, <2>3, FirstPlace
  <2>5. PICK i \in 1..Len(w) : i = Min(At(w, n)) /\ w[i].name = n
    BY <1>6, <2>4 DEF At
  <2>6. First(w, i)
    <3>1. ASSUME NEW m \in DOMAIN w, m < i PROVE w[m].name # w[i].name
      <4>1. SUFFICES ASSUME w[m].name = n PROVE FALSE
        BY <2>5
      <4>2. m \in At(w, n)
        BY <4>1 DEF At
      <4>3. i <= m
        BY <2>4, <2>5, <4>2
      <4>4. QED
        BY <1>6, <3>1, <4>3
    <3>2. QED
      BY <3>1 DEF First
  <2>7. QED
    BY <1>6, <1>10, <2>5, <2>6
<1>12. ASSUME NEW i \in 1..Len(w), w[i].name \in Names(extra)
       PROVE  w[i] \in asked \/ Twice(inFile, w[i].name)
  <2>1. CASE First(w, i)
    BY <1>10, <1>12, <2>1
  <2>2. CASE ~First(w, i)
    <3>1. i \in 1..Len(b)
      BY <1>7, <2>2
    <3>2. PICK m \in DOMAIN w : m < i /\ w[m].name = w[i].name
      BY <2>2 DEF First
    <3>3. m \in 1..Len(b)
      BY <1>6, <3>1, <3>2
    <3>4. b[m].name = w[i].name /\ b[i].name = w[i].name /\ m # i
      BY <1>6, <1>7, <3>1, <3>2, <3>3
    <3>5. Twice(b, w[i].name)
      BY <1>6, <3>1, <3>3, <3>4 DEF Twice, At
    <3>6. QED
      BY <1>2, <3>5
  <2>3. QED
    BY <2>1, <2>2
<1>13. ASSUME NEW i \in 1..Len(w), w[i].name \notin Names(extra)
       PROVE  \E k \in DOMAIN inFile : w[i] = inFile[k] /\ inFile[k].name \notin disabled
  <2>1. i \in DOMAIN b /\ w[i] = b[i]
    BY <1>6, <1>7, <1>8, <1>13
  <2>2. PICK k \in DOMAIN inFile : b[i] = inFile[k]
    BY <1>1, <2>1
  <2>3. b[i].name \notin disabled
    BY <1>1, <2>1
  <2>4. QED
    BY <2>1, <2>2, <2>3
<1>14. ASSUME NEW k \in DOMAIN inFile, inFile[k].name \notin disabled, inFile[k].name \notin Names(extra)
       PROVE  \E i \in DOMAIN w : w[i] = inFile[k]
  <2>1. PICK i \in DOMAIN b : b[i] = inFile[k]
    BY <1>1, <1>14
  <2>2. i \in 1..Len(w) /\ w[i].name = inFile[k].name
    BY <1>6, <1>7, <2>1
  <2>3. w[i] = b[i]
    BY <1>7, <1>8, <1>14, <2>2
  <2>4. QED
    BY <1>6, <2>1, <2>2, <2>3
<1>15. {s \in got : s.name \notin Names(extra)}
         = {inFile[i] : i \in {k \in DOMAIN inFile : inFile[k].name \notin disabled \cup Names(extra)}}
  <2> DEFINE rest == {inFile[i] : i \in {k \in DOMAIN inFile : inFile[k].name \notin disabled \cup Names(extra)}}
  <2>1. ASSUME NEW s \in got, s.name \notin Names(extra) PROVE s \in rest
    BY <1>6, <1>13, <2>1
  <2>2. ASSUME NEW s \in rest PROVE s \in got /\ s.name \notin Names(extra)
    BY <1>14
  <2>3. QED
    BY <2>1, <2>2
<1>16. AppliesTo(w, inFile, disabled, extra)
  <2>1. \A s \in got : s.name \in Names(extra) => s \in asked \/ Twice(inFile, s.name)
    BY <1>6, <1>12
  <2>2. QED
    BY <1>11, <1>15, <2>1 DEF AppliesTo
<1>17. QED
  BY <1>3, <1>16

(* What the command line asks for is what is started (cli.go loadConfig):  *)
(* the last description of each service it adds, none of the others that   *)
(* it disables, and the rest of the file, for any file and any arguments.  *)
THEOREM CommandLineApplies == Spec => []FlagsApplied
<1>1. Inv => FlagsApplied
  <2>1. SUFFICES ASSUME Inv, NEW f \in File, NEW disabled, NEW extra \in Flags,
                        LoadConfig(f, disabled, extra) # Absent
                 PROVE  AppliesTo(LoadConfig(f, disabled, extra).services, Load(f).services, disabled, extra)
    BY DEF FlagsApplied, AppliesTo
  <2> DEFINE c == Load(f)
             o == [c EXCEPT !.services = Overridden(@, disabled, extra)]
  <2>2. f # NoFile /\ extra \in Seq(ServiceConfig)
    BY SettingsAssumption DEF SettingsAssumption
  <2>3. c # Absent /\ LoadConfig(f, disabled, extra) = o
    <3>1. LoadConfig(f, disabled, extra) = IF c = Absent THEN Absent ELSE IF Validate(o) THEN o ELSE Absent
      BY <2>2 DEF LoadConfig
    <3> HIDE DEF c, o
    <3>2. QED
      BY <2>1, <3>1
  <2>4. c \in Config
    BY <2>1, <2>3, SettingsAssumption, LoadType
  <2> HIDE DEF c
  <2>5. c.services \in Seq(ServiceConfig) /\ o.services = Overridden(c.services, disabled, extra)
    BY <2>4 DEF Config, ConfigOf
  <2> HIDE DEF o
  <2>6. AppliesTo(o.services, c.services, disabled, extra)
    BY <2>2, <2>5, Applies
  <2>7. QED
    BY <2>3, <2>6 DEF c
<1>2. QED
  BY <1>1, Invariant, PTL
=============================================================================
