--------------------------- MODULE CoreDebug_proofs ---------------------------
(***************************************************************************)
(* The list of points, the slots the driver holds for taken and the        *)
(* comparators agree; a detach leaves nothing armed; the stop the host is  *)
(* told of is the one that happened: for every number of comparators,      *)
(* addresses, faults and sessions.                                         *)
(***************************************************************************)
EXTENDS CoreDebug, WellFoundedInduction, TLAPS

StepMark == [type |-> "step", addr |-> None]
SlotNames == {"break", "watch", "trigger"} \X Nat
Entry == [type : Types, addr : Addrs, slot : SlotNames]

-----------------------------------------------------------------------------
(* Lists of points, apart from any state *)

At(L, i) == [type |-> L[i].type, addr |-> L[i].addr]
Ents(L, p) == {i \in 1 .. Len(L) : L[i].type = p.type /\ L[i].addr = p.addr}
FirstOf(L, p) == CHOOSE i \in Ents(L, p) : \A j \in Ents(L, p) : i <= j
SlotOf(L, p) == L[FirstOf(L, p)].slot

\* Each point of H has an entry in L whose slot is taken (U) and is no other point's; if no
\* write went wrong (X) the comparators W hold it there.
ListedAs(L, H, U, X, W) ==
    \A p \in H :
        /\ Ents(L, p) # {}
        /\ SlotOf(L, p) \in U
        /\ p \notin X => W[SlotOf(L, p)] = p
        /\ \A q \in H : SlotOf(L, q) = SlotOf(L, p) => q = p

\* Entries of other points lie behind all entries of H.
FreshAs(L, H) ==
    \A p \in H : \A i \in 1 .. FirstOf(L, p) : At(L, i) \in H /\ FirstOf(L, At(L, i)) = i

\* The comparators S hold nothing but points of H, each in its own slot.
OnlyAs(L, H, S, W) ==
    \A s \in S : W[s] # Off => W[s] \in H /\ SlotOf(L, W[s]) = s

\* A set of numbers has a least one.
LEMMA LeastNat ==
    ASSUME NEW S, S \subseteq Nat, S # {}
    PROVE  \E x \in S : \A y \in S : x <= y
<1>1. IsWellFoundedOn(OpToRel(<, Nat), Nat)
  BY NatLessThanWellFounded, Zenon
<1>2. PICK x \in S : \A y \in S : ~(<<y, x>> \in OpToRel(<, Nat))
  BY <1>1, WFMin, Zenon
<1>3. \A y \in S : ~(y < x)
  BY <1>2 DEF OpToRel
<1> QED
  BY <1>3

LEMMA LowestIn ==
    ASSUME NEW S, S \subseteq SlotNames, S # {}
    PROVE  Lowest(S) \in S
<1> DEFINE T == {s[2] : s \in S}
<1>1. T \subseteq Nat /\ T # {}
  BY DEF SlotNames
<1> HIDE DEF T
<1>2. PICK x \in T : \A y \in T : x <= y
  BY <1>1, LeastNat
<1>3. \E s \in S : \A r \in S : s[2] <= r[2]
  <2>1. PICK s \in S : x = s[2]
    BY <1>2 DEF T
  <2>2. \A r \in S : r[2] \in T
    BY DEF T
  <2> QED
    BY <1>2, <2>1, <2>2
<1> QED
  BY <1>3 DEF Lowest

LEMMA FirstIs ==
    ASSUME NEW L \in Seq(Entry), NEW p, NEW i \in Ents(L, p),
           \A j \in Ents(L, p) : i <= j
    PROVE  FirstOf(L, p) = i
<1>1. Ents(L, p) \subseteq Int
  BY DEF Ents
<1>2. \A k \in Ents(L, p) : (\A j \in Ents(L, p) : k <= j) => k = i
  BY <1>1
<1> QED
  BY <1>2 DEF FirstOf

LEMMA FirstIn ==
    ASSUME NEW L \in Seq(Entry), NEW p, Ents(L, p) # {}
    PROVE  /\ FirstOf(L, p) \in Ents(L, p)
           /\ \A j \in Ents(L, p) : FirstOf(L, p) <= j
           /\ FirstOf(L, p) \in 1 .. Len(L)
           /\ L[FirstOf(L, p)].type = p.type /\ L[FirstOf(L, p)].addr = p.addr
           /\ SlotOf(L, p) \in SlotNames
<1>1. Ents(L, p) \subseteq Nat
  BY DEF Ents
<1>2. PICK i \in Ents(L, p) : \A j \in Ents(L, p) : i <= j
  BY <1>1, LeastNat
<1>3. FirstOf(L, p) = i
  BY <1>2, FirstIs
<1>4. i \in 1 .. Len(L) /\ L[i].type = p.type /\ L[i].addr = p.addr
  BY <1>2 DEF Ents
<1>5. L[i] \in Entry
  BY <1>4
<1>6. L[i].slot \in SlotNames
  BY <1>5 DEF Entry
<1> QED
  BY <1>2, <1>3, <1>4, <1>6 DEF SlotOf

\* A new entry goes to the front.
Push(e, L) == <<e>> \o L
PointOf(e) == [type |-> e.type, addr |-> e.addr]

LEMMA Pushed ==
    ASSUME NEW L \in Seq(Entry), NEW e \in Entry
    PROVE  /\ Push(e, L) \in Seq(Entry)
           /\ Len(Push(e, L)) = Len(L) + 1
           /\ Push(e, L)[1] = e
           /\ \A i \in 1 .. Len(L) : Push(e, L)[i + 1] = L[i]
           /\ \A i \in 2 .. Len(L) + 1 : Push(e, L)[i] = L[i - 1]
BY DEF Push

LEMMA PushedFirst ==
    ASSUME NEW L \in Seq(Entry), NEW e \in Entry
    PROVE  /\ Ents(Push(e, L), PointOf(e)) # {}
           /\ FirstOf(Push(e, L), PointOf(e)) = 1
           /\ SlotOf(Push(e, L), PointOf(e)) = e.slot
           /\ \A q \in Points : q # PointOf(e) /\ Ents(L, q) # {} =>
                /\ Ents(Push(e, L), q) # {}
                /\ FirstOf(Push(e, L), q) = FirstOf(L, q) + 1
                /\ SlotOf(Push(e, L), q) = SlotOf(L, q)
<1>0. PICK L2 : L2 = Push(e, L)
  OBVIOUS
<1>p. PICK p : p = PointOf(e)
  OBVIOUS
<1>t. p.type = e.type /\ p.addr = e.addr
  BY <1>p DEF PointOf
<1>1. /\ L2 \in Seq(Entry) /\ Len(L2) = Len(L) + 1 /\ L2[1] = e
      /\ \A i \in 1 .. Len(L) : L2[i + 1] = L[i]
      /\ \A i \in 2 .. Len(L) + 1 : L2[i] = L[i - 1]
  BY <1>0, Pushed
<1>2. 1 \in Ents(L2, p) /\ \A j \in Ents(L2, p) : 1 <= j
  BY <1>1, <1>t DEF Ents
<1>3. FirstOf(L2, p) = 1
  BY <1>1, <1>2, FirstIs
<1>4. ASSUME NEW q \in Points, q # p, Ents(L, q) # {}
      PROVE  /\ Ents(L2, q) # {}
             /\ FirstOf(L2, q) = FirstOf(L, q) + 1
             /\ SlotOf(L2, q) = SlotOf(L, q)
  <2>1. PICK i \in 1 .. Len(L) : i = FirstOf(L, q)
    BY <1>4, FirstIn
  <2>2. L[i].type = q.type /\ L[i].addr = q.addr /\ \A j \in Ents(L, q) : i <= j
    BY <1>4, <2>1, FirstIn
  <2>3. i + 1 \in Ents(L2, q)
    BY <1>1, <2>1, <2>2 DEF Ents
  <2>4. 1 \notin Ents(L2, q)
    <3>1. q.type # e.type \/ q.addr # e.addr
      BY <1>4, <1>p DEF Points, PointOf
    <3> QED
      BY <1>1, <3>1 DEF Ents
  <2>5. \A j \in Ents(L2, q) : j - 1 \in Ents(L, q)
    BY <1>1, <2>4 DEF Ents
  <2>6. \A j \in Ents(L2, q) : i + 1 <= j
    <3>1. Ents(L2, q) \subseteq Int
      BY DEF Ents
    <3> QED
      BY <2>2, <2>5, <3>1
  <2>7. FirstOf(L2, q) = i + 1
    BY <1>1, <2>3, <2>6, FirstIs
  <2> QED
    BY <1>1, <2>1, <2>3, <2>7 DEF SlotOf
<1>5. SlotOf(L2, p) = e.slot
  BY <1>1, <1>3 DEF SlotOf
<1> QED
  BY <1>0, <1>p, <1>2, <1>3, <1>4, <1>5, Zenon

\* Taking an entry out moves the ones behind it up.
Without(L, r) == SubSeq(L, 1, r - 1) \o SubSeq(L, r + 1, Len(L))

LEMMA Joined ==
    ASSUME NEW A \in Seq(Entry), NEW B \in Seq(Entry)
    PROVE  /\ A \o B \in Seq(Entry)
           /\ Len(A \o B) = Len(A) + Len(B)
           /\ \A i \in 1 .. Len(A) + Len(B) : (A \o B)[i] = IF i <= Len(A) THEN A[i] ELSE B[i - Len(A)]
OBVIOUS

LEMMA Removed ==
    ASSUME NEW L \in Seq(Entry), NEW r \in 1 .. Len(L)
    PROVE  /\ Without(L, r) \in Seq(Entry)
           /\ Len(Without(L, r)) = Len(L) - 1
           /\ \A i \in 1 .. Len(L) - 1 : Without(L, r)[i] = IF i < r THEN L[i] ELSE L[i + 1]
<1>a. SubSeq(L, 1, r - 1) \in Seq(Entry)
  OBVIOUS
<1>b. SubSeq(L, r + 1, Len(L)) \in Seq(Entry)
  OBVIOUS
<1>1. PICK A \in Seq(Entry) : A = SubSeq(L, 1, r - 1)
  BY <1>a, Zenon
<1>2. Len(A) = r - 1 /\ \A i \in 1 .. r - 1 : A[i] = L[i]
  BY <1>1
<1>3. PICK B \in Seq(Entry) : B = SubSeq(L, r + 1, Len(L))
  BY <1>b, Zenon
<1>4. Len(B) = Len(L) - r /\ \A i \in 1 .. Len(L) - r : B[i] = L[r + i]
  BY <1>3
<1>5. PICK C : C = A \o B
  OBVIOUS
<1>6. C = Without(L, r)
  BY <1>1, <1>3, <1>5 DEF Without
<1>7. /\ C \in Seq(Entry) /\ Len(C) = Len(A) + Len(B)
      /\ \A i \in 1 .. Len(A) + Len(B) : C[i] = IF i <= Len(A) THEN A[i] ELSE B[i - Len(A)]
  <2>1. A \o B \in Seq(Entry) /\ Len(A \o B) = Len(A) + Len(B)
    BY Joined, Zenon
  <2>2. \A i \in 1 .. Len(A) + Len(B) : (A \o B)[i] = IF i <= Len(A) THEN A[i] ELSE B[i - Len(A)]
    BY Joined, Zenon
  <2> QED
    BY <1>5, <2>1, <2>2, Zenon
<1>8. ASSUME NEW i \in 1 .. Len(L) - 1 PROVE C[i] = IF i < r THEN L[i] ELSE L[i + 1]
  <2>0. r \in Nat /\ i \in Nat /\ Len(L) \in Nat
    OBVIOUS
  <2>1. CASE i < r
    <3>1. i \in 1 .. Len(A) + Len(B) /\ i <= Len(A)
      BY <1>2, <1>4, <2>0, <2>1
    <3>2. C[i] = A[i]
      BY <1>7, <3>1, Zenon
    <3> QED
      BY <1>2, <2>0, <2>1, <3>2
  <2>2. CASE ~(i < r)
    <3>1. PICK k \in 1 .. Len(L) - r : k = i - (r - 1)
      BY <2>0, <2>2
    <3>a. i \in 1 .. Len(A) + Len(B) /\ ~(i <= Len(A)) /\ k = i - Len(A)
      BY <1>2, <1>4, <2>0, <2>2, <3>1
    <3>2. C[i] = B[k]
      BY <1>7, <3>a, Zenon
    <3>3. B[k] = L[r + k] /\ r + k = i + 1
      BY <1>4, <2>0, <3>1
    <3> QED
      BY <2>2, <3>2, <3>3
  <2> QED
    BY <2>1, <2>2
<1>9. Len(C) = Len(L) - 1
  BY <1>2, <1>4, <1>7
<1> QED
  BY <1>6, <1>7, <1>8, <1>9

LEMMA RemovedFirst ==
    ASSUME NEW L \in Seq(Entry), NEW p \in Points, Ents(L, p) # {}, NEW r, r = FirstOf(L, p), NEW L2,
           L2 = Without(L, r), NEW q \in Points, q # p, Ents(L, q) # {}
    PROVE  /\ Ents(L2, q) # {}
           /\ FirstOf(L, q) # r
           /\ FirstOf(L2, q) = IF FirstOf(L, q) < r THEN FirstOf(L, q) ELSE FirstOf(L, q) - 1
           /\ SlotOf(L2, q) = SlotOf(L, q)
<1>1. r \in 1 .. Len(L) /\ L[r].type = p.type /\ L[r].addr = p.addr
  BY FirstIn
<1>2. /\ L2 \in Seq(Entry) /\ Len(L2) = Len(L) - 1
      /\ \A i \in 1 .. Len(L) - 1 : L2[i] = IF i < r THEN L[i] ELSE L[i + 1]
  BY <1>1, Removed, Zenon
<1>3. PICK f \in 1 .. Len(L) : f = FirstOf(L, q)
  BY FirstIn
<1>4. L[f].type = q.type /\ L[f].addr = q.addr /\ \A j \in Ents(L, q) : f <= j
  BY <1>3, FirstIn
<1>5. f # r
  <2>1. q.type # p.type \/ q.addr # p.addr
    BY DEF Points
  <2> QED
    BY <1>1, <1>4, <2>1
<1>g. PICK g \in Int : g = IF f < r THEN f ELSE f - 1
  BY <1>3
<1>6. g \in 1 .. Len(L2) /\ L2[g] = L[f]
  BY <1>1, <1>2, <1>3, <1>5, <1>g
<1>7. g \in Ents(L2, q)
  BY <1>4, <1>6 DEF Ents
<1>8. ASSUME NEW j \in Ents(L2, q) PROVE g <= j
  <2>1. j \in 1 .. Len(L2) /\ L2[j].type = q.type /\ L2[j].addr = q.addr
    BY DEF Ents
  <2>2. CASE j < r
    <3>1. j \in Ents(L, q)
      BY <1>1, <1>2, <2>1, <2>2 DEF Ents
    <3> QED
      BY <1>3, <1>4, <1>g, <2>1, <3>1
  <2>3. CASE ~(j < r)
    <3>1. j + 1 \in Ents(L, q)
      BY <1>1, <1>2, <2>1, <2>3 DEF Ents
    <3>2. f <= j + 1
      BY <1>4, <3>1
    <3> QED
      BY <1>1, <1>3, <1>5, <1>g, <2>1, <2>3, <3>2
  <2> QED
    BY <2>2, <2>3
<1>9. FirstOf(L2, q) = g
  BY <1>2, <1>7, <1>8, FirstIs
<1> QED
  BY <1>3, <1>5, <1>6, <1>7, <1>9, <1>g DEF SlotOf

-----------------------------------------------------------------------------
(* What setting and clearing a point does to them *)

\* The comparator of a dropped write keeps what it has.
Written(W, W2, s, p, X2) == (W2 = W /\ p \in X2) \/ W2 = [W EXCEPT ![s] = p]

LEMMA SetListed ==
    ASSUME NEW L \in Seq(Entry), NEW H \in SUBSET Points, NEW U, NEW X, NEW W, NEW D, NEW X2, NEW W2,
           NEW e \in Entry, PointOf(e) \notin H, e.slot \notin U, e.slot \in D, U \subseteq D,
           W \in [D -> Points \union {Off, StepMark}],
           X \subseteq X2, Written(W, W2, e.slot, PointOf(e), X2),
           ListedAs(L, H, U, X, W)
    PROVE  ListedAs(Push(e, L), H \union {PointOf(e)}, U \union {e.slot}, X2, W2)
<1>0. PICK p : p = PointOf(e)
  OBVIOUS
<1>a. PICK L2 : L2 = Push(e, L)
  OBVIOUS
<1>1. Ents(L2, p) # {} /\ SlotOf(L2, p) = e.slot
  BY <1>0, <1>a, PushedFirst
<1>2. \A q \in H : /\ Ents(L, q) # {} /\ SlotOf(L, q) \in U
                   /\ q \notin X => W[SlotOf(L, q)] = q
                   /\ \A t \in H : SlotOf(L, t) = SlotOf(L, q) => t = q
  BY DEF ListedAs
<1>3. \A q \in H : Ents(L2, q) # {} /\ SlotOf(L2, q) = SlotOf(L, q)
  <2> TAKE q \in H
  <2>1. q \in Points /\ q # p
    BY <1>0
  <2> QED
    BY <1>0, <1>a, <1>2, <2>1, PushedFirst
<1>w. (W2 = W /\ p \in X2) \/ W2 = [W EXCEPT ![e.slot] = p]
  BY <1>0 DEF Written
<1>4. \A q \in H : q \notin X2 => W2[SlotOf(L, q)] = q
  <2> SUFFICES ASSUME NEW q \in H, q \notin X2 PROVE W2[SlotOf(L, q)] = q
    OBVIOUS
  <2>1. PICK t : t = SlotOf(L, q)
    OBVIOUS
  <2>2. W[t] = q /\ t # e.slot /\ t \in D
    BY <1>2, <2>1
  <2>3. W2[t] = W[t]
    BY <1>w, <2>2
  <2> QED
    BY <2>1, <2>2, <2>3
<1>5. p \notin X2 => W2[e.slot] = p
  BY <1>w
<1>6. \A q \in H : SlotOf(L2, q) \in U /\ SlotOf(L2, q) # e.slot
  BY <1>2, <1>3
<1>7. \A q, t \in H \union {p} : SlotOf(L2, q) = SlotOf(L2, t) => q = t
  BY <1>1, <1>2, <1>3, <1>6
<1>8. \A q \in H \union {p} : /\ Ents(L2, q) # {}
                              /\ SlotOf(L2, q) \in U \union {e.slot}
                              /\ q \notin X2 => W2[SlotOf(L2, q)] = q
  BY <1>1, <1>3, <1>4, <1>5, <1>6
<1> QED
  BY <1>0, <1>a, <1>7, <1>8, Zenon DEF ListedAs

LEMMA SetFresh ==
    ASSUME NEW L \in Seq(Entry), NEW H \in SUBSET Points, NEW e \in Entry, PointOf(e) \notin H,
           \A q \in H : Ents(L, q) # {}, FreshAs(L, H)
    PROVE  FreshAs(Push(e, L), H \union {PointOf(e)})
<1>0. PICK p : p = PointOf(e)
  OBVIOUS
<1>a. PICK L2 : L2 = Push(e, L)
  OBVIOUS
<1>1. FirstOf(L2, p) = 1
  BY <1>0, <1>a, PushedFirst
<1>2. \A q \in H : q \in Points /\ q # p /\ FirstOf(L2, q) = FirstOf(L, q) + 1
  BY <1>0, <1>a, PushedFirst
<1>3. /\ L2[1] = e
      /\ \A i \in 1 .. Len(L) : L2[i + 1] = L[i]
  BY <1>a, Pushed
<1>4. At(L2, 1) = p
  BY <1>0, <1>3 DEF At, PointOf
<1>5. ASSUME NEW q \in H, NEW i \in 1 .. FirstOf(L2, q)
      PROVE  At(L2, i) \in H \union {p} /\ FirstOf(L2, At(L2, i)) = i
  <2>1. PICK f \in 1 .. Len(L) : f = FirstOf(L, q)
    BY FirstIn
  <2>2. CASE i = 1
    BY <1>1, <1>4, <2>2
  <2>3. CASE i # 1
    <3>1. PICK j \in 1 .. f : i = j + 1
      BY <1>2, <2>1, <2>3
    <3>2. At(L2, i) = At(L, j)
      BY <1>3, <2>1, <3>1 DEF At
    <3>3. At(L, j) \in H /\ FirstOf(L, At(L, j)) = j
      BY <2>1, <3>1 DEF FreshAs
    <3> QED
      BY <1>2, <3>1, <3>2, <3>3
  <2> QED
    BY <2>2, <2>3
<1>6. \A i \in 1 .. FirstOf(L2, p) : i = 1
  BY <1>1
<1> QED
  BY <1>0, <1>a, <1>1, <1>4, <1>5, <1>6, Zenon DEF FreshAs

LEMMA SetOnly ==
    ASSUME NEW L \in Seq(Entry), NEW H \in SUBSET Points, NEW W, NEW D, NEW S \in SUBSET D, NEW W2,
           NEW e \in Entry, PointOf(e) \notin H, e.slot \in D,
           W \in [D -> Points \union {Off, StepMark}], W2 = [W EXCEPT ![e.slot] = PointOf(e)],
           \A q \in H : Ents(L, q) # {},
           OnlyAs(L, H, S, W)
    PROVE  OnlyAs(Push(e, L), H \union {PointOf(e)}, S, W2)
<1>0. PICK p : p = PointOf(e)
  OBVIOUS
<1>a. PICK L2 : L2 = Push(e, L)
  OBVIOUS
<1>1. SlotOf(L2, p) = e.slot
  BY <1>0, <1>a, PushedFirst
<1>2. ASSUME NEW s \in S, W2[s] # Off
      PROVE  W2[s] \in H \union {p} /\ SlotOf(L2, W2[s]) = s
  <2>1. CASE s = e.slot
    BY <1>0, <1>1, <2>1
  <2>2. CASE s # e.slot
    <3>1. W2[s] = W[s]
      BY <2>2
    <3>2. W[s] \in H /\ SlotOf(L, W[s]) = s
      BY <1>2, <3>1 DEF OnlyAs
    <3>3. SlotOf(L2, W[s]) = SlotOf(L, W[s])
      BY <1>a, <3>2, PushedFirst
    <3> QED
      BY <3>1, <3>2, <3>3
  <2> QED
    BY <2>1, <2>2
<1> QED
  BY <1>0, <1>a, <1>2, Zenon DEF OnlyAs

\* Slots that no point of the list has may be taken and written.
LEMMA KeepListed ==
    ASSUME NEW L, NEW H, NEW U, NEW X, NEW W, NEW U2, NEW X2, NEW W2,
           ListedAs(L, H, U, X, W), U \subseteq U2, X \subseteq X2, \A s \in U : W2[s] = W[s]
    PROVE  ListedAs(L, H, U2, X2, W2)
BY DEF ListedAs

LEMMA ClearListed ==
    ASSUME NEW L \in Seq(Entry), NEW H \in SUBSET Points, NEW U, NEW X, NEW W, NEW X2, NEW W2,
           NEW p \in H, X \subseteq X2, \A s \in U : s # SlotOf(L, p) => W2[s] = W[s],
           ListedAs(L, H, U, X, W)
    PROVE  ListedAs(Without(L, FirstOf(L, p)), H \ {p}, U \ {SlotOf(L, p)}, X2, W2)
<1>a. PICK L2 : L2 = Without(L, FirstOf(L, p))
  OBVIOUS
<1>2. \A q \in H : /\ Ents(L, q) # {} /\ SlotOf(L, q) \in U
                   /\ q \notin X => W[SlotOf(L, q)] = q
                   /\ \A t \in H : SlotOf(L, t) = SlotOf(L, q) => t = q
  BY DEF ListedAs
<1>3. \A q \in H \ {p} : Ents(L2, q) # {} /\ SlotOf(L2, q) = SlotOf(L, q)
  BY <1>a, <1>2, RemovedFirst
<1>4. \A q \in H \ {p} : SlotOf(L, q) # SlotOf(L, p)
  BY <1>2
<1>5. \A q \in H \ {p} : /\ Ents(L2, q) # {}
                         /\ SlotOf(L2, q) \in U \ {SlotOf(L, p)}
                         /\ q \notin X2 => W2[SlotOf(L2, q)] = q
                         /\ \A t \in H \ {p} : SlotOf(L2, t) = SlotOf(L2, q) => t = q
  BY <1>2, <1>3, <1>4
<1> QED
  BY <1>a, <1>5, Zenon DEF ListedAs

LEMMA ClearFresh ==
    ASSUME NEW L \in Seq(Entry), NEW H \in SUBSET Points, NEW p \in H,
           \A q \in H : Ents(L, q) # {}, FreshAs(L, H)
    PROVE  FreshAs(Without(L, FirstOf(L, p)), H \ {p})
<1>0. PICK r \in 1 .. Len(L) : r = FirstOf(L, p)
  BY FirstIn
<1>a. PICK L2 : L2 = Without(L, r)
  OBVIOUS
<1>1. /\ Len(L2) = Len(L) - 1
      /\ \A i \in 1 .. Len(L) - 1 : L2[i] = IF i < r THEN L[i] ELSE L[i + 1]
  BY <1>a, Removed
<1>2. \A q \in H \ {p} : /\ FirstOf(L, q) # r
                         /\ FirstOf(L, q) \in 1 .. Len(L)
                         /\ FirstOf(L2, q) = IF FirstOf(L, q) < r THEN FirstOf(L, q) ELSE FirstOf(L, q) - 1
  BY <1>0, <1>a, RemovedFirst, FirstIn
<1>3. ASSUME NEW q \in H \ {p}, NEW i \in 1 .. FirstOf(L2, q)
      PROVE  At(L2, i) \in H \ {p} /\ FirstOf(L2, At(L2, i)) = i
  <2>1. PICK f \in 1 .. Len(L) : f = FirstOf(L, q)
    BY <1>2
  <2>2. PICK j \in 1 .. f : j = IF i < r THEN i ELSE i + 1
    BY <1>0, <1>2, <2>1
  <2>i. i \in 1 .. Len(L) - 1
    BY <1>0, <1>2, <2>1
  <2>3. At(L2, i) = At(L, j)
    BY <1>1, <2>2, <2>i DEF At
  <2>4. At(L, j) \in H /\ FirstOf(L, At(L, j)) = j
    BY <2>1, <2>2 DEF FreshAs
  <2>5. At(L, j) # p
    BY <1>0, <2>2, <2>4, <2>i
  <2>6. FirstOf(L2, At(L, j)) = IF j < r THEN j ELSE j - 1
    BY <1>2, <2>4, <2>5
  <2> QED
    BY <1>0, <2>2, <2>3, <2>4, <2>5, <2>6, <2>i
<1> QED
  BY <1>0, <1>a, <1>3, Zenon DEF FreshAs

LEMMA ClearOnly ==
    ASSUME NEW L \in Seq(Entry), NEW H \in SUBSET Points, NEW W, NEW D, NEW S \in SUBSET D, NEW W2,
           NEW p \in H, SlotOf(L, p) \in D,
           W \in [D -> Points \union {Off, StepMark}], W2 = [W EXCEPT ![SlotOf(L, p)] = Off],
           \A q \in H : Ents(L, q) # {},
           OnlyAs(L, H, S, W)
    PROVE  OnlyAs(Without(L, FirstOf(L, p)), H \ {p}, S, W2)
<1>a. PICK L2 : L2 = Without(L, FirstOf(L, p))
  OBVIOUS
<1>2. ASSUME NEW s \in S, W2[s] # Off
      PROVE  W2[s] \in H \ {p} /\ SlotOf(L2, W2[s]) = s
  <2>1. s # SlotOf(L, p)
    BY <1>2
  <2>2. W2[s] = W[s]
    BY <2>1
  <2>3. W[s] \in H /\ SlotOf(L, W[s]) = s
    BY <1>2, <2>2 DEF OnlyAs
  <2>4. W[s] # p
    BY <2>1, <2>3
  <2>5. SlotOf(L2, W[s]) = SlotOf(L, W[s])
    BY <1>a, <2>3, <2>4, RemovedFirst
  <2> QED
    BY <2>2, <2>3, <2>4, <2>5
<1> QED
  BY <1>a, <1>2, Zenon DEF OnlyAs

-----------------------------------------------------------------------------
(* The inductive invariant *)

Shape ==
    /\ arch \in {"m", "ar", "rv"}
    /\ bw_list \in Seq(Entry)
    /\ host \subseteq Points
    /\ used \subseteq Slots
    /\ matched \subseteq Slots
    /\ arch # "rv" => \A s \in matched : s[1] = "watch"
    /\ hw \in [Comparators -> Points \union {Off, StepMark}]
    /\ \A s \in Slots : hw[s] # StepMark
    /\ arch # "rv" => \A s \in Slots : hw[s] # Off => s[1] = hw[s].type
    /\ core \in {"running", "halting", "halted"}
    /\ dhcsr \in [step : BOOLEAN, mask : BOOLEAN]

\* Each point of the host, the ones whose writes were dropped included, has an entry whose
\* slot is taken and is no other point's; if no write was dropped it is armed there.
Listed == ListedAs(bw_list, host, used, lost, hw)

\* What an earlier session left in the list lies behind all entries of this one.
NewestFirst == FreshAs(bw_list, host)

\* While no set or clear went wrong nothing is armed but the host's points (the triggers
\* of a hart may be left from an earlier session).
NothingElse == attached /\ arch # "rv" /\ lost = {} => OnlyAs(bw_list, host, Slots, hw)

\* A stop at a watchpoint has one that was hit.
HitKnown == attached /\ arch = "ar" /\ cause = "watch" => matched # {}

\* What makes a core stop after one instruction is armed only while it steps.
NoOldStep ==
    /\ arch # "ar" => hw[StepSlot] = Off
    /\ arch = "ar" => ~dhcsr.step
    /\ mode = "continue" => hw[StepSlot] = Off /\ ~dhcsr.step

Free ==
    /\ DetachedRuns
    /\ released => ~attached
    /\ released /\ arch # "rv" => mode = "continue"

PointInv == Listed /\ NewestFirst /\ NothingElse
CoreInv == Shape /\ PointInv /\ HitKnown /\ NoOldStep /\ Free

LEMMA SlotFacts ==
    /\ \A type \in Types : Bank(type) \subseteq Slots
    /\ Slots \subseteq SlotNames
    /\ Slots \subseteq Comparators
    /\ StepSlot \in Comparators /\ StepSlot \notin Slots
    /\ arch # "rv" => \A type \in Types : \A s \in Bank(type) : s[1] = type
<1>1. Slots \subseteq SlotNames
  BY CountAssumption DEF Slots, Bank, SlotNames
<1>2. StepSlot \notin SlotNames
  BY DEF StepSlot, SlotNames
<1> QED
  BY <1>1, <1>2 DEF Types, Slots, Comparators, Bank

LEMMA TakeFree ==
    ASSUME NEW type \in Types, FreeSlots(type) # {}
    PROVE  TakeSlot(type) \in Bank(type) /\ TakeSlot(type) \notin used
<1>1. FreeSlots(type) \subseteq SlotNames
  BY SlotFacts DEF FreeSlots
<1>2. TakeSlot(type) \in FreeSlots(type)
  BY <1>1, LowestIn DEF TakeSlot
<1> QED
  BY <1>2 DEF FreeSlots

LEMMA InitInv == Init => CoreInv
<1> SUFFICES ASSUME Init PROVE CoreInv
  OBVIOUS
<1> USE DEF Init
<1>1. Shape
  BY ArchAssumption, SlotFacts DEF Shape, Off, StepMark, Comparators
<1>2. PointInv
  BY DEF PointInv, Listed, NewestFirst, NothingElse, ListedAs, FreshAs
<1>3. HitKnown /\ NoOldStep /\ Free
  BY SlotFacts DEF HitKnown, NoOldStep, Free, DetachedRuns
<1> QED
  BY <1>1, <1>2, <1>3 DEF CoreInv

-----------------------------------------------------------------------------
(* Steps *)

LEMMA SameBanks ==
    ASSUME arch' = arch
    PROVE  /\ Slots' = Slots /\ Comparators' = Comparators
           /\ \A type : Bank(type)' = Bank(type)
BY DEF Slots, Comparators, Bank

LEMMA PointsKept ==
    ASSUME PointInv, UNCHANGED <<arch, points, hw, attached>>
    PROVE  PointInv'
<1>1. Listed' /\ NewestFirst'
  BY DEF PointInv, Listed, NewestFirst, points
<1>2. NothingElse'
  BY SameBanks DEF PointInv, NothingElse, points
<1> QED
  BY <1>1, <1>2 DEF PointInv

LEMMA PointsForgotten ==
    ASSUME host' = {}, attached' /\ arch' # "rv" => hw' = [s \in Comparators' |-> Off]
    PROVE  PointInv'
<1>1. Listed' /\ NewestFirst'
  BY DEF Listed, NewestFirst, ListedAs, FreshAs
<1>2. Slots' \subseteq Comparators'
  BY DEF Comparators
<1>3. NothingElse'
  BY <1>2 DEF NothingElse, OnlyAs
<1> QED
  BY <1>1, <1>3 DEF PointInv

\* Setting a point: the list, the mask and the comparator are written together, or a write
\* was dropped, or the entry could not be made.
LEMMA SetPoints ==
    ASSUME Shape, PointInv, NEW type \in Types, NEW addr \in Addrs, NEW heap \in BOOLEAN,
           SetPoint(type, addr, heap)
    PROVE  PointInv'
<1>1. PICK s : s = TakeSlot(type)
  OBVIOUS
<1>2. s \in Slots /\ s \notin used /\ s \in SlotNames /\ s \in Comparators
  BY <1>1, TakeFree, SlotFacts DEF SetPoint
<1>3. PICK e : e = [type |-> type, addr |-> addr, slot |-> s]
  OBVIOUS
<1>4. e \in Entry /\ PointOf(e) = [type |-> type, addr |-> addr] /\ e.slot = s
  BY <1>2, <1>3 DEF Entry, PointOf
<1>5. PICK p : p = PointOf(e)
  OBVIOUS
<1>6. /\ p \notin host /\ p \in Points
      /\ arch' = arch /\ attached' = attached
      /\ used' = used \union {s}
      /\ hw' = IF deaf THEN hw ELSE [hw EXCEPT ![s] = p]
      /\ bw_list' = IF heap THEN Push(e, bw_list) ELSE bw_list
      /\ host' = IF heap THEN host \union {p} ELSE host
      /\ lost' = IF ~heap \/ deaf THEN lost \union {p} ELSE lost
  BY <1>1, <1>3, <1>4, <1>5 DEF SetPoint, Push, Points, session
<1>7. /\ bw_list \in Seq(Entry) /\ host \in SUBSET Points /\ used \subseteq Comparators
      /\ hw \in [Comparators -> Points \union {Off, StepMark}] /\ Slots \in SUBSET Comparators
  BY SlotFacts DEF Shape
<1>8. Listed /\ NewestFirst /\ NothingElse /\ \A q \in host : Ents(bw_list, q) # {}
  BY DEF PointInv, Listed, ListedAs
<1>9. Listed'
  <2>1. CASE heap
    <3>1. lost \subseteq lost' /\ Written(hw, hw', e.slot, PointOf(e), lost')
      BY <1>4, <1>5, <1>6 DEF Written
    <3>2. ListedAs(Push(e, bw_list), host \union {PointOf(e)}, used \union {e.slot}, lost', hw')
      BY <1>2, <1>4, <1>5, <1>6, <1>7, <1>8, <3>1, SetListed DEF Listed
    <3> QED
      BY <1>4, <1>5, <1>6, <2>1, <3>2 DEF Listed
  <2>2. CASE ~heap
    <3>1. \A t \in used : hw'[t] = hw[t]
      BY <1>2, <1>6, <1>7
    <3>2. used \subseteq used' /\ lost \subseteq lost'
      BY <1>6
    <3>3. ListedAs(bw_list, host, used', lost', hw')
      BY <1>8, <3>1, <3>2, KeepListed DEF Listed
    <3> QED
      BY <1>6, <2>2, <3>3 DEF Listed
  <2> QED
    BY <2>1, <2>2
<1>10. NewestFirst'
  <2>1. FreshAs(Push(e, bw_list), host \union {PointOf(e)})
    BY <1>4, <1>5, <1>6, <1>7, <1>8, SetFresh DEF NewestFirst
  <2> QED
    BY <1>5, <1>6, <1>8, <2>1 DEF NewestFirst
<1>11. NothingElse'
  <2> SUFFICES ASSUME attached', arch' # "rv", lost' = {} PROVE OnlyAs(bw_list', host', Slots', hw')
    BY DEF NothingElse
  <2>1. heap /\ ~deaf /\ lost = {}
    BY <1>6
  <2>2. OnlyAs(bw_list, host, Slots, hw)
    BY <1>6, <1>8, <2>1 DEF NothingElse
  <2>3. hw' = [hw EXCEPT ![e.slot] = PointOf(e)]
    BY <1>4, <1>5, <1>6, <2>1
  <2>4. OnlyAs(Push(e, bw_list), host \union {PointOf(e)}, Slots, hw')
    BY <1>2, <1>4, <1>5, <1>6, <1>7, <1>8, <2>2, <2>3, SetOnly
  <2> QED
    BY <1>5, <1>6, <2>1, <2>4, SameBanks
<1> QED
  BY <1>9, <1>10, <1>11 DEF PointInv

LEMMA ClearPoints ==
    ASSUME Shape, PointInv, NEW type \in Types, NEW addr \in Addrs, ClearPoint(type, addr)
    PROVE  PointInv'
<1>1. PICK p : p = [type |-> type, addr |-> addr]
  OBVIOUS
<1>2. p \in host /\ p.type = type /\ p.addr = addr
  BY <1>1 DEF ClearPoint
<1>3. Found(type, addr) = FirstOf(bw_list, p)
  BY <1>2 DEF Found, FirstOf, Entries, Ents
<1>4. bw_list[Found(type, addr)].slot = SlotOf(bw_list, p)
  BY <1>3 DEF SlotOf
<1>5. PICK s : s = SlotOf(bw_list, p)
  OBVIOUS
<1>6. /\ arch' = arch /\ attached' = attached
      /\ used' = used \ {s}
      /\ hw' = IF deaf THEN hw ELSE [hw EXCEPT ![s] = Off]
      /\ bw_list' = Without(bw_list, FirstOf(bw_list, p))
      /\ host' = host \ {p}
      /\ lost' = IF deaf THEN lost \union {p} ELSE lost
  BY <1>1, <1>3, <1>4, <1>5 DEF ClearPoint, Without, session
<1>7. /\ bw_list \in Seq(Entry) /\ host \in SUBSET Points /\ used \subseteq Comparators
      /\ hw \in [Comparators -> Points \union {Off, StepMark}] /\ Slots \in SUBSET Comparators
  BY SlotFacts DEF Shape
<1>8. Listed /\ NewestFirst /\ NothingElse /\ \A q \in host : Ents(bw_list, q) # {}
  BY DEF PointInv, Listed, ListedAs
<1>s. s \in used
  BY <1>2, <1>5, <1>8 DEF Listed, ListedAs
<1>9. Listed'
  <2>1. \A t \in used : t # SlotOf(bw_list, p) => hw'[t] = hw[t]
    BY <1>5, <1>6, <1>7
  <2>2. lost \subseteq lost'
    BY <1>6
  <2>3. ListedAs(Without(bw_list, FirstOf(bw_list, p)), host \ {p}, used \ {SlotOf(bw_list, p)}, lost', hw')
    BY <1>2, <1>7, <1>8, <2>1, <2>2, ClearListed DEF Listed
  <2> QED
    BY <1>5, <1>6, <2>3 DEF Listed
<1>10. NewestFirst'
  <2>1. FreshAs(Without(bw_list, FirstOf(bw_list, p)), host \ {p})
    BY <1>2, <1>7, <1>8, ClearFresh DEF NewestFirst
  <2> QED
    BY <1>6, <2>1 DEF NewestFirst
<1>11. NothingElse'
  <2> SUFFICES ASSUME attached', arch' # "rv", lost' = {} PROVE OnlyAs(bw_list', host', Slots', hw')
    BY DEF NothingElse
  <2>1. ~deaf /\ lost = {}
    BY <1>6
  <2>2. OnlyAs(bw_list, host, Slots, hw)
    BY <1>6, <1>8, <2>1 DEF NothingElse
  <2>3. hw' = [hw EXCEPT ![SlotOf(bw_list, p)] = Off]
    BY <1>5, <1>6, <2>1
  <2>4. SlotOf(bw_list, p) \in Comparators
    BY <1>5, <1>7, <1>s
  <2>5. OnlyAs(Without(bw_list, FirstOf(bw_list, p)), host \ {p}, Slots, hw')
    BY <1>2, <1>7, <1>8, <2>2, <2>3, <2>4, ClearOnly
  <2> QED
    <3>1. Slots' = Slots
      BY <1>6, SameBanks
    <3> QED
      BY <1>6, <2>5, <3>1, Zenon
<1> QED
  BY <1>9, <1>10, <1>11 DEF PointInv

\* The comparator for stepping is nobody's point.
LEMMA StepPoints ==
    ASSUME Shape, PointInv, UNCHANGED <<arch, points, attached>>, NEW m, hw' = [hw EXCEPT ![StepSlot] = m]
    PROVE  PointInv'
<1>1. \A s \in Slots : hw'[s] = hw[s]
  BY SlotFacts DEF Shape
<1>2. Listed'
  <2>1. \A s \in used : hw'[s] = hw[s]
    BY <1>1 DEF Shape
  <2>2. PICK W : W = hw'
    OBVIOUS
  <2>3. \A s \in used : W[s] = hw[s]
    BY <2>1, <2>2, Zenon
  <2>4. ListedAs(bw_list, host, used, lost, hw)
    BY DEF PointInv, Listed
  <2>5. ListedAs(bw_list, host, used, lost, W)
    BY <2>3, <2>4, KeepListed, Zenon
  <2> QED
    BY <2>2, <2>5 DEF Listed, points
<1>3. NewestFirst'
  BY DEF PointInv, NewestFirst, points
<1>4. NothingElse'
  BY <1>1, SameBanks DEF PointInv, NothingElse, OnlyAs, points
<1> QED
  BY <1>2, <1>3, <1>4 DEF PointInv

Rest == HitKnown /\ NoOldStep /\ Free

\* The steps that leave the list, the masks and the comparators alone.
LEMMA QuietStep ==
    ASSUME CoreInv,
           \/ CoreStop \/ LinkFault \/ CheckError \/ Halt \/ WriteReg \/ ResetCortex
           \/ PollRunning \/ PollM \/ PollAR \/ PollRV
           \/ \E step \in BOOLEAN : ResumeM(step) \/ ResumeRV(step)
    PROVE  CoreInv'
<1> USE DEF CoreInv, points, trap, ctl, regs, session, stopped
<1>1. UNCHANGED <<arch, points, hw, attached, released>>
  BY DEF CoreStop, LinkFault, CheckError, Halt, WriteReg, ResetCortex, PollRunning, PollM, PollAR,
         PollRV, ResumeM, ResumeRV
<1>2. PointInv'
  BY <1>1, PointsKept
<1>3. Slots' = Slots /\ Comparators' = Comparators
  BY <1>1, SameBanks
<1>4. CASE CoreStop
  <2>1. \E hit \in SUBSET Slots : /\ matched' = matched \union hit
                                  /\ \A s \in hit : hw[s].type = "watch"
                                  /\ cause' = "watch" => matched' # {}
    <3>1. CASE /\ \E hit \in (SUBSET Armed("watch")) \ {{}} : matched' = matched \union hit
               /\ CoreHalts("watch")
      <4>1. PICK hit \in (SUBSET Armed("watch")) \ {{}} : matched' = matched \union hit
        BY <3>1
      <4>2. hit \in SUBSET Slots /\ hit # {} /\ \A s \in hit : hw[s].type = "watch"
        BY <4>1 DEF Armed
      <4> QED
        BY <4>1, <4>2
    <3>2. CASE matched' = matched /\ cause' # "watch"
      <4> WITNESS {} \in SUBSET Slots
      <4> QED
        BY <3>2
    <3> QED
      BY <1>4, <3>1, <3>2 DEF CoreStop, CoreHalts
  <2>2. core' = "halted" /\ UNCHANGED <<dhcsr, mode>>
    BY <1>4 DEF CoreStop, CoreHalts
  <2>3. Shape'
    BY <1>1, <1>3, <2>1, <2>2 DEF Shape, Off
  <2>4. ASSUME released, arch # "rv" PROVE FALSE
    <3>1. /\ core = "running" /\ ~attached /\ mode = "continue"
          /\ \A s \in Comparators : hw[s] = Off
      BY <2>4 DEF Free, DetachedRuns
    <3>2. Armed("break") = {} /\ Armed("watch") = {}
      BY <3>1, SlotFacts DEF Armed, Off
    <3>3. hw[StepSlot] = Off /\ ~dhcsr.step
      BY <3>1 DEF NoOldStep
    <3> QED
      BY <1>4, <3>1, <3>2, <3>3 DEF CoreStop
  <2>5. Rest'
    BY <1>1, <1>3, <2>1, <2>2, <2>4, SlotFacts DEF Rest, HitKnown, NoOldStep, Free, DetachedRuns
  <2> QED
    BY <1>2, <2>3, <2>5 DEF Rest
<1>5. CASE LinkFault \/ CheckError \/ WriteReg \/ PollRunning \/ PollAR \/ PollRV
  <2>1. UNCHANGED <<matched, core, cause, dhcsr, mode>>
    BY <1>5 DEF LinkFault, CheckError, WriteReg, PollRunning, PollAR, PollRV
  <2> QED
    BY <1>1, <1>2, <1>3, <2>1 DEF Shape, HitKnown, NoOldStep, Free, DetachedRuns
<1>6. CASE Halt
  <2>1. /\ UNCHANGED <<matched, cause, mode>> /\ attached
        /\ core' \in {core, Halting} /\ dhcsr' \in {dhcsr, Quiet}
    BY <1>6 DEF Halt
  <2>2. core' \in {"running", "halting", "halted"}
    BY <2>1 DEF Shape, Halting
  <2>a. Quiet \in [step : BOOLEAN, mask : BOOLEAN] /\ ~Quiet.step
    BY DEF Quiet
  <2>3. dhcsr' \in [step : BOOLEAN, mask : BOOLEAN] /\ (dhcsr'.step => dhcsr.step)
    <3>1. CASE dhcsr' = dhcsr
      BY <3>1, Zenon DEF Shape
    <3>2. CASE dhcsr' = Quiet
      BY <2>a, <3>2, Zenon
    <3> QED
      BY <2>1, <3>1, <3>2
  <2>4. Shape'
    BY <1>1, <1>3, <2>1, <2>2, <2>3 DEF Shape
  <2>5. HitKnown' /\ Free'
    BY <1>1, <1>3, <2>1 DEF HitKnown, Free, DetachedRuns
  <2>6. NoOldStep'
    BY <1>1, <2>1, <2>3 DEF NoOldStep
  <2> QED
    BY <1>2, <2>4, <2>5, <2>6
<1>7. CASE ResetCortex
  <2>1. /\ UNCHANGED <<matched, dhcsr, mode>> /\ attached
        /\ core' \in {"halted", "running"} /\ cause' = "cleared"
    BY <1>7 DEF ResetCortex
  <2> QED
    BY <1>1, <1>2, <1>3, <2>1 DEF Shape, HitKnown, NoOldStep, Free, DetachedRuns
<1>8. CASE PollM
  <2>1. /\ UNCHANGED <<core, dhcsr, mode>> /\ attached /\ arch = "m"
        /\ matched' \subseteq matched
    BY <1>8 DEF PollM
  <2> QED
    BY <1>1, <1>2, <1>3, <2>1 DEF Shape, HitKnown, NoOldStep, Free, DetachedRuns
<1>9. ASSUME NEW step \in BOOLEAN, ResumeM(step) \/ ResumeRV(step)
      PROVE  CoreInv'
  <2>1. /\ UNCHANGED matched /\ attached /\ arch # "ar"
        /\ \/ UNCHANGED <<dhcsr, core, cause, mode>>
           \/ /\ core' = "running" /\ mode' = Mode(step)
              /\ dhcsr' \in [step : BOOLEAN, mask : BOOLEAN] /\ dhcsr'.step = step
    <3>1. CASE ResumeM(step)
      BY <3>1 DEF ResumeM
    <3>2. CASE ResumeRV(step)
      BY <3>2 DEF ResumeRV
    <3> QED
      BY <1>9, <3>1, <3>2
  <2> QED
    BY <1>1, <1>2, <1>3, <2>1 DEF Shape, HitKnown, NoOldStep, Free, DetachedRuns, Mode
<1> QED
  BY <1>4, <1>5, <1>6, <1>7, <1>8, <1>9

LEMMA SetStep ==
    ASSUME CoreInv, NEW type \in Types, NEW addr \in Addrs, NEW heap \in BOOLEAN,
           SetPoint(type, addr, heap)
    PROVE  CoreInv'
<1>1. PointInv'
  BY SetPoints DEF CoreInv
<1>2. PICK s \in Bank(type) : s = TakeSlot(type)
  BY TakeFree DEF SetPoint
<1>3. s \in Slots /\ s \in SlotNames /\ s \in Comparators /\ s # StepSlot
  BY <1>2, SlotFacts
<1>4. PICK p \in Points : p = [type |-> type, addr |-> addr]
  BY DEF Points
<1>5. PICK e \in Entry : e = [type |-> type, addr |-> addr, slot |-> s]
  BY <1>3 DEF Entry
<1>6. /\ attached
      /\ UNCHANGED <<arch, attached, released, matched, dhcsr, core, cause, mode>>
      /\ used' = used \union {s}
      /\ hw' = hw \/ hw' = [hw EXCEPT ![s] = p]
      /\ bw_list' = bw_list \/ bw_list' = Push(e, bw_list)
      /\ host' \subseteq host \union {p}
  BY <1>2, <1>4, <1>5 DEF SetPoint, Push, ctl, session, stopped
<1>7. Slots' = Slots /\ Comparators' = Comparators
  BY <1>6, SameBanks
<1>8. Shape'
  <2>a. bw_list \in Seq(Entry)
    BY DEF CoreInv, Shape
  <2>b. Push(e, bw_list) \in Seq(Entry)
    BY <2>a, Pushed
  <2>1. bw_list' \in Seq(Entry)
    BY <1>6, <2>a, <2>b
  <2>2. p # Off /\ p # StepMark /\ p.type = type
    BY <1>4 DEF Off, StepMark, Types
  <2>3. hw' \in [Comparators -> Points \union {Off, StepMark}]
    BY <1>3, <1>6 DEF CoreInv, Shape
  <2>4. \A t \in Slots : hw'[t] = hw[t] \/ (t = s /\ hw'[t] = p)
    BY <1>3, <1>6 DEF CoreInv, Shape, Comparators
  <2>5. arch # "rv" => s[1] = type
    BY <1>2, SlotFacts
  <2> QED
    BY <1>3, <1>6, <1>7, <2>1, <2>2, <2>3, <2>4, <2>5 DEF CoreInv, Shape
<1>9. Rest'
  <2>1. hw'[StepSlot] = hw[StepSlot]
    BY <1>3, <1>6, SlotFacts DEF CoreInv, Shape
  <2>2. HitKnown' /\ NoOldStep'
    BY <1>6, <2>1 DEF CoreInv, HitKnown, NoOldStep
  <2>3. Free'
    BY <1>6 DEF CoreInv, Free, DetachedRuns
  <2> QED
    BY <2>2, <2>3 DEF Rest
<1> QED
  BY <1>1, <1>8, <1>9 DEF CoreInv, Rest

LEMMA ClearStep ==
    ASSUME CoreInv, NEW type \in Types, NEW addr \in Addrs, ClearPoint(type, addr)
    PROVE  CoreInv'
<1>1. PointInv'
  BY ClearPoints DEF CoreInv
<1>2. PICK p \in host : p = [type |-> type, addr |-> addr]
  BY DEF ClearPoint
<1>3. Found(type, addr) = FirstOf(bw_list, p)
  BY <1>2 DEF Found, FirstOf, Entries, Ents
<1>4. PICK s : s = SlotOf(bw_list, p)
  OBVIOUS
<1>5. s \in used /\ Ents(bw_list, p) # {}
  BY <1>4 DEF CoreInv, PointInv, Listed, ListedAs
<1>6. s \in Slots /\ s \in Comparators /\ s # StepSlot
  BY <1>5, SlotFacts DEF CoreInv, Shape
<1>7. /\ attached
      /\ UNCHANGED <<arch, attached, released, matched, dhcsr, core, cause, mode>>
      /\ used' = used \ {s}
      /\ hw' = hw \/ hw' = [hw EXCEPT ![s] = Off]
      /\ bw_list' = Without(bw_list, FirstOf(bw_list, p))
      /\ host' \subseteq host
  BY <1>2, <1>3, <1>4 DEF ClearPoint, Without, SlotOf, ctl, session, stopped
<1>8. Slots' = Slots /\ Comparators' = Comparators
  BY <1>7, SameBanks
<1>9. Shape'
  <2>1. FirstOf(bw_list, p) \in 1 .. Len(bw_list)
    BY <1>5, FirstIn DEF CoreInv, Shape
  <2>2. bw_list' \in Seq(Entry)
    BY <1>7, <2>1, Removed DEF CoreInv, Shape
  <2>3. hw' \in [Comparators -> Points \union {Off, StepMark}]
    BY <1>6, <1>7 DEF CoreInv, Shape
  <2>4. \A t \in Slots : hw'[t] = hw[t] \/ hw'[t] = Off
    BY <1>6, <1>7 DEF CoreInv, Shape, Comparators
  <2>5. Off # StepMark
    BY DEF Off, StepMark
  <2> QED
    BY <1>7, <1>8, <2>2, <2>3, <2>4, <2>5 DEF CoreInv, Shape
<1>10. Rest'
  <2>1. hw'[StepSlot] = hw[StepSlot]
    BY <1>6, <1>7, SlotFacts DEF CoreInv, Shape
  <2>2. HitKnown' /\ NoOldStep'
    BY <1>7, <2>1 DEF CoreInv, HitKnown, NoOldStep
  <2>3. Free'
    BY <1>7 DEF CoreInv, Free, DetachedRuns
  <2> QED
    BY <2>2, <2>3 DEF Rest
<1> QED
  BY <1>1, <1>9, <1>10 DEF CoreInv, Rest

LEMMA UnarmedShape ==
    /\ Unarmed \in [Comparators -> Points \union {Off, StepMark}]
    /\ \A s \in Comparators : Unarmed[s] = Off
    /\ \A s \in Slots : Unarmed[s] = Off
    /\ Unarmed[StepSlot] = Off
    /\ Off # StepMark
BY SlotFacts DEF Unarmed, Off, StepMark

\* What a step that clears or keeps all comparators needs to show for the shape.
LEMMA ShapeCleared ==
    ASSUME Shape, UNCHANGED <<arch, bw_list>>, host' \subseteq host, used' \subseteq used,
           matched' \subseteq matched, hw' = hw \/ hw' = Unarmed,
           core' \in {"running", "halting", "halted"}, dhcsr' \in {dhcsr, Quiet}
    PROVE  Shape'
<1>1. Slots' = Slots /\ Comparators' = Comparators
  BY SameBanks
<1>2. hw' \in [Comparators -> Points \union {Off, StepMark}]
  BY UnarmedShape DEF Shape
<1>3. \A s \in Slots : hw'[s] = hw[s] \/ hw'[s] = Off
  BY UnarmedShape
<1>4. dhcsr' \in [step : BOOLEAN, mask : BOOLEAN]
  <2>1. Quiet \in [step : BOOLEAN, mask : BOOLEAN]
    BY DEF Quiet
  <2> QED
    BY <2>1 DEF Shape
<1> QED
  BY <1>1, <1>2, <1>3, <1>4, UnarmedShape DEF Shape

\* The same for the comparator and the bit that make a core step.
LEMMA NoOldStepCleared ==
    ASSUME Shape, NoOldStep, arch' = arch, hw' = hw \/ hw' = Unarmed, dhcsr' \in {dhcsr, Quiet},
           \/ mode' = mode
           \/ arch = "m" /\ hw' = Unarmed /\ dhcsr' = Quiet
           \/ arch = "ar" /\ hw' = Unarmed
           \/ arch = "rv" /\ dhcsr' = Quiet
    PROVE  NoOldStep'
<1>1. hw'[StepSlot] = hw[StepSlot] \/ hw'[StepSlot] = Off
  BY UnarmedShape
<1>2. hw' = Unarmed => hw'[StepSlot] = Off
  BY UnarmedShape
<1>3. dhcsr'.step => dhcsr.step
  BY DEF Quiet
<1>4. dhcsr' = Quiet => ~dhcsr'.step
  BY DEF Quiet
<1> QED
  BY <1>1, <1>2, <1>3, <1>4 DEF NoOldStep, Shape

LEMMA AttachStep ==
    ASSUME CoreInv, (\E ok \in BOOLEAN : AttachM(ok) \/ AttachAR(ok)) \/ AttachRV
    PROVE  CoreInv'
<1> USE DEF CoreInv
<1>1. /\ UNCHANGED <<arch, bw_list, mode>> /\ host' = {} /\ released' = FALSE
      /\ used' \subseteq used /\ matched' \subseteq matched
      /\ hw' = hw \/ hw' = Unarmed
      /\ dhcsr' \in {dhcsr, Quiet}
      /\ attached' /\ arch # "rv" => hw' = Unarmed
  BY DEF AttachM, AttachAR, AttachRV, ForgetPoints, ctl, trap
<1>2. core' \in {"running", "halting", "halted"}
  BY DEF AttachM, AttachAR, AttachRV, Halting, Shape, stopped
<1>3. Shape'
  <2>1. UNCHANGED <<arch, bw_list>> /\ host' \subseteq host
    BY <1>1
  <2> QED
    BY <1>1, <1>2, <2>1, ShapeCleared
<1>4. PointInv'
  <2>1. Comparators' = Comparators
    BY <1>1, SameBanks
  <2>2. attached' /\ arch' # "rv" => hw' = [s \in Comparators' |-> Off]
    BY <1>1, <2>1 DEF Unarmed
  <2> QED
    BY <1>1, <2>2, PointsForgotten
<1>5. HitKnown'
  BY <1>1 DEF AttachM, AttachAR, AttachRV, HitKnown
<1>6. NoOldStep'
  BY <1>1, NoOldStepCleared
<1>7. Free'
  BY <1>1 DEF Free, DetachedRuns
<1> QED
  BY <1>3, <1>4, <1>5, <1>6, <1>7

LEMMA DetachStep ==
    ASSUME CoreInv, DetachM \/ DetachAR \/ DetachRV
    PROVE  CoreInv'
<1> USE DEF CoreInv
<1>1. /\ UNCHANGED <<arch, bw_list, used>> /\ host' = {} /\ attached' = FALSE
      /\ matched' \subseteq matched
      /\ hw' = hw \/ hw' = Unarmed
      /\ dhcsr' \in {dhcsr, Quiet}
      /\ core' \in {core, "running"}
      /\ released' /\ arch # "rv" => hw' = Unarmed /\ core' = "running"
  BY DEF DetachM, DetachAR, DetachRV, DetachClears, RestartAR, ctl, trap
<1>2. Shape'
  <2>1. core' \in {"running", "halting", "halted"}
    BY <1>1 DEF Shape
  <2>2. UNCHANGED <<arch, bw_list>> /\ host' \subseteq host /\ used' \subseteq used
    BY <1>1
  <2> QED
    BY <1>1, <2>1, <2>2, ShapeCleared
<1>3. PointInv'
  BY <1>1, PointsForgotten
<1>4. HitKnown'
  BY <1>1 DEF HitKnown
<1>5. NoOldStep'
  <2>1. \/ mode' = mode
        \/ arch = "m" /\ hw' = Unarmed /\ dhcsr' = Quiet
        \/ arch = "ar" /\ hw' = Unarmed
        \/ arch = "rv" /\ dhcsr' = Quiet
    BY DEF DetachM, DetachAR, DetachRV, DetachClears, RestartAR
  <2> QED
    BY <1>1, <2>1, NoOldStepCleared
<1>6. Free'
  <2>1. Comparators' = Comparators
    BY <1>1, SameBanks
  <2>2. released' => mode' = "continue"
    BY DEF DetachM, DetachAR, DetachRV
  <2> QED
    BY <1>1, <2>1, <2>2, UnarmedShape DEF Free, DetachedRuns
<1> QED
  BY <1>2, <1>3, <1>4, <1>5, <1>6

LEMMA ResetRVStep ==
    ASSUME CoreInv, ResetRV
    PROVE  CoreInv'
<1> USE DEF CoreInv
<1>1. /\ UNCHANGED <<arch, bw_list, used, matched, dhcsr, attached, released, mode>>
      /\ arch = "rv" /\ core' = "halting" /\ cause' = "none"
      /\ UNCHANGED <<hw, host, lost>> \/ (hw' = Unarmed /\ host' = host /\ host \subseteq lost')
  BY DEF ResetRV, session, ctl
<1>2. Shape'
  BY <1>1, ShapeCleared
<1>3. PointInv'
  <2>1. CASE UNCHANGED <<hw, host, lost>>
    BY <1>1, <2>1, PointsKept DEF points
  <2>2. CASE host' = host /\ host \subseteq lost'
    <3>1. Listed'
      BY <1>1, <2>2 DEF PointInv, Listed, ListedAs
    <3>2. NewestFirst' /\ NothingElse'
      BY <1>1, <2>2 DEF PointInv, NewestFirst, NothingElse
    <3> QED
      BY <3>1, <3>2 DEF PointInv
  <2> QED
    BY <1>1, <2>1, <2>2
<1>4. HitKnown' /\ Free'
  BY <1>1 DEF HitKnown, Free, DetachedRuns
<1>5. NoOldStep'
  BY <1>1, NoOldStepCleared
<1> QED
  BY <1>2, <1>3, <1>4, <1>5

LEMMA ResumeARStep ==
    ASSUME CoreInv, NEW step \in BOOLEAN, ResumeAR(step)
    PROVE  CoreInv'
<1> USE DEF CoreInv
<1>0. arch = "ar" /\ attached /\ UNCHANGED <<arch, points, dhcsr, attached, released>>
  BY DEF ResumeAR, ctl
<1>1. CASE UNCHANGED <<trap, core, cause, mode>>
  <2>1. PointInv'
    BY <1>0, <1>1, PointsKept DEF trap
  <2>2. Shape'
    BY <1>0, <1>1, SameBanks DEF Shape, points, trap
  <2> QED
    BY <1>0, <1>1, <2>1, <2>2, SameBanks DEF HitKnown, NoOldStep, Free, DetachedRuns, trap
<1>2. CASE /\ hw' = [hw EXCEPT ![StepSlot] = StepPoint(step)] /\ matched' = {}
           /\ core' = "running" /\ cause' = "none" /\ mode' = Mode(step)
  <2>1. PointInv'
    BY <1>0, <1>2, StepPoints
  <2>2. Slots' = Slots /\ Comparators' = Comparators
    BY <1>0, SameBanks
  <2>3. StepPoint(step) \in {Off, StepMark}
    BY DEF StepPoint, StepMark
  <2>4. hw' \in [Comparators -> Points \union {Off, StepMark}]
    BY <1>2, <2>3 DEF Shape
  <2>5. hw'[StepSlot] = StepPoint(step) /\ \A s \in Slots : hw'[s] = hw[s]
    BY <1>2, SlotFacts DEF Shape
  <2>6. Shape'
    BY <1>0, <1>2, <2>2, <2>4, <2>5 DEF Shape, points
  <2>7. mode' = "continue" => hw'[StepSlot] = Off
    BY <1>2, <2>5 DEF Mode, StepPoint
  <2>8. NoOldStep'
    BY <1>0, <2>7 DEF NoOldStep
  <2>9. HitKnown' /\ Free'
    BY <1>0, <1>2 DEF HitKnown, Free, DetachedRuns
  <2> QED
    BY <2>1, <2>6, <2>8, <2>9
<1> QED
  BY <1>1, <1>2 DEF ResumeAR, RestartAR

LEMMA StepInv == CoreInv /\ [Next]_vars => CoreInv'
<1> SUFFICES ASSUME CoreInv, [Next]_vars PROVE CoreInv'
  OBVIOUS
<1>1. CASE UNCHANGED vars
  <2>1. UNCHANGED <<arch, points, trap, ctl, attached, released, stopped, mode>>
    BY <1>1 DEF vars, session
  <2>2. PointInv'
    BY <2>1, PointsKept DEF CoreInv, trap
  <2>3. Shape'
    BY <2>1, SameBanks DEF CoreInv, Shape, points, trap, ctl, stopped
  <2> QED
    BY <2>1, <2>2, <2>3, SameBanks DEF CoreInv, HitKnown, NoOldStep, Free, DetachedRuns, trap, ctl, stopped
<1>2. CASE \E type \in Types, addr \in Addrs, heap \in BOOLEAN : SetPoint(type, addr, heap)
  BY <1>2, SetStep
<1>3. CASE \E type \in Types, addr \in Addrs : ClearPoint(type, addr)
  BY <1>3, ClearStep
<1>4. CASE \E step \in BOOLEAN : ResumeAR(step)
  BY <1>4, ResumeARStep
<1>5. CASE ResetRV
  BY <1>5, ResetRVStep
<1>6. CASE DetachM \/ DetachAR \/ DetachRV
  BY <1>6, DetachStep
<1>7. CASE (\E ok \in BOOLEAN : AttachM(ok) \/ AttachAR(ok)) \/ AttachRV
  BY <1>7, AttachStep
<1>8. CASE \/ CoreStop \/ LinkFault \/ CheckError \/ Halt \/ WriteReg \/ ResetCortex
           \/ PollRunning \/ PollM \/ PollAR \/ PollRV
           \/ \E step \in BOOLEAN : ResumeM(step) \/ ResumeRV(step)
  BY <1>8, QuietStep
<1>9. CASE Operation
  BY <1>3, <1>4, <1>5, <1>6, <1>7, <1>8, <1>9 DEF Operation
<1> QED
  BY <1>1, <1>2, <1>8, <1>9 DEF Next, Poll, Hung

LEMMA Invariance == Spec => []CoreInv
BY InitInv, StepInv, PTL DEF Spec

-----------------------------------------------------------------------------
(* Theorems *)

LEMMA EntryIs == \A p : EntryOf(p).slot = SlotOf(bw_list, p) /\ Entries(p.type, p.addr) = Ents(bw_list, p)
BY DEF EntryOf, SlotOf, Found, FirstOf, Entries, Ents

\* Every point the host was told is set is armed in a comparator of its own that the driver
\* holds for taken, whatever earlier sessions left in bw_list (target_breakwatch_set and
\* _clear over the three drivers): any number of comparators, addresses, sessions, faults.
\* The points in lost are left out: dropped writes, failed copies, triggers lost by a reset.
THEOREM PointsSafe == Spec => []PointsArmed
<1>1. CoreInv => PointsArmed
  <2> SUFFICES ASSUME CoreInv PROVE PointsArmed
    OBVIOUS
  <2>1. \A p \in host : /\ Ents(bw_list, p) # {}
                        /\ SlotOf(bw_list, p) \in used
                        /\ p \notin lost => hw[SlotOf(bw_list, p)] = p
                        /\ \A q \in host : SlotOf(bw_list, q) = SlotOf(bw_list, p) => q = p
    BY DEF CoreInv, PointInv, Listed, ListedAs
  <2>2. ASSUME NEW p \in host \ lost
        PROVE  /\ Entries(p.type, p.addr) # {}
               /\ EntryOf(p).slot \in used
               /\ hw[EntryOf(p).slot] = p
    BY <2>1, EntryIs
  <2>3. ASSUME NEW p \in host \ lost, NEW q \in host \ (lost \union {p})
        PROVE  EntryOf(q).slot # EntryOf(p).slot
    BY <2>1, EntryIs
  <2> QED
    BY <2>2, <2>3 DEF PointsArmed
<1> QED
  BY <1>1, Invariance, PTL

\* From a detach that reached a Cortex core until the next attach nothing is armed and the
\* core runs (cortexm_detach, cortexar_detach), after any sequence of commands and faults.
THEOREM DetachFrees == Spec => []DetachedRuns
<1>1. CoreInv => DetachedRuns
  BY DEF CoreInv, Free
<1> QED
  BY <1>1, Invariance, PTL

LEMMA NoStepStop ==
    CoreInv /\ [Next]_vars =>
        (mode = "continue" /\ core # "halted" /\ core' = "halted" => cause' # "step")
<1> SUFFICES ASSUME CoreInv, [Next]_vars, mode = "continue", core # "halted", core' = "halted"
             PROVE  cause' # "step"
  OBVIOUS
<1>1. hw[StepSlot] = Off /\ ~dhcsr.step
  BY DEF CoreInv, NoOldStep
<1>2. CASE CoreStop
  BY <1>1, <1>2 DEF CoreStop, CoreHalts
<1>3. CASE \E ok \in BOOLEAN : AttachAR(ok)
  BY <1>3 DEF AttachAR
<1>4. CASE ResetCortex
  BY <1>4 DEF ResetCortex
<1>5. ASSUME \/ CheckError \/ (\E ok \in BOOLEAN : AttachM(ok)) \/ AttachRV
             \/ DetachM \/ DetachAR \/ DetachRV \/ Halt
             \/ (\E step \in BOOLEAN : ResumeM(step) \/ ResumeAR(step) \/ ResumeRV(step))
             \/ WriteReg \/ ResetRV \/ LinkFault \/ Poll
      PROVE  FALSE
  BY <1>5 DEF CheckError, AttachM, AttachRV, DetachM, DetachAR, DetachRV, RestartAR, Halt, Halting,
              ResumeM, ResumeAR, ResumeRV, WriteReg, ResetRV, LinkFault, Poll, PollRunning, PollM,
              PollAR, PollRV, stopped
<1>6. ASSUME \/ \E type \in Types, addr \in Addrs : ClearPoint(type, addr)
             \/ \E type \in Types, addr \in Addrs, heap \in BOOLEAN : SetPoint(type, addr, heap)
             \/ Hung \/ UNCHANGED vars
      PROVE  FALSE
  BY <1>6 DEF ClearPoint, SetPoint, Hung, vars, stopped
<1>7. CASE Operation
  BY <1>2, <1>3, <1>4, <1>5, <1>6, <1>7 DEF Operation
<1> QED
  BY <1>5, <1>6, <1>7 DEF Next

\* On "m" the address comes from a comparator that was hit.
LEMMA WatchMHit ==
    ASSUME CoreInv, PollM, report'.watch # None, lost = {}, StillSet(matched)
    PROVE  LET p == [type |-> "watch", addr |-> report'.watch]
           IN  p \in host /\ \E s \in matched : hw[s] = p
<1>1. report'.watch = WatchM /\ Matching # {} /\ attached /\ arch = "m"
  BY DEF PollM, ReasonM, WatchM
<1>2. Matching \subseteq SlotNames
  BY SlotFacts DEF Matching, CoreInv, Shape
<1>3. PICK s \in Matching : s = Lowest(Matching)
  BY <1>1, <1>2, LowestIn
<1>4. s \in matched /\ s \in Slots /\ s[1] = "watch"
  BY <1>1 DEF Matching, CoreInv, Shape
<1>5. hw[s] # Off
  BY <1>4 DEF StillSet
<1>6. hw[s] \in host
  BY <1>1, <1>4, <1>5 DEF CoreInv, PointInv, NothingElse, OnlyAs
<1>7. hw[s] \in Points /\ hw[s].type = "watch"
  BY <1>1, <1>4, <1>5, <1>6 DEF CoreInv, Shape
<1>8. report'.watch = hw[s].addr
  BY <1>1, <1>3 DEF WatchM
<1>9. [type |-> "watch", addr |-> report'.watch] = hw[s]
  BY <1>7, <1>8 DEF Points
<1> QED
  BY <1>4, <1>6, <1>9

\* On "ar" it comes from the list; only one watchpoint is taken, so it is the one hit.
LEMMA WatchARHit ==
    ASSUME CoreInv, PollAR, report'.watch # None, lost = {}, StillSet(matched)
    PROVE  LET p == [type |-> "watch", addr |-> report'.watch]
           IN  p \in host /\ \E s \in matched : hw[s] = p
<1>1. /\ report'.watch = WatchAR /\ Watches # {} /\ attached /\ arch = "ar"
      /\ cause = "watch" /\ OneWatch
  BY DEF PollAR, ReasonAR, WatchAR
<1>2. PICK s : s \in matched
  BY <1>1 DEF CoreInv, HitKnown
<1>3. s \in Slots /\ s[1] = "watch" /\ hw[s] # Off
  BY <1>1, <1>2 DEF CoreInv, Shape, StillSet
<1>4. PICK p \in host : p = hw[s] /\ SlotOf(bw_list, p) = s
  BY <1>1, <1>3 DEF CoreInv, PointInv, NothingElse, OnlyAs
<1>5. p \in Points /\ p.type = "watch"
  BY <1>1, <1>3, <1>4 DEF CoreInv, Shape
<1>6. \A q \in host : /\ Ents(bw_list, q) # {} /\ SlotOf(bw_list, q) \in used
                      /\ hw[SlotOf(bw_list, q)] = q
  BY DEF CoreInv, PointInv, Listed, ListedAs
<1>7. s \in used /\ \A t \in used : t[1] = "watch" => t = s
  <2>1. s \in used
    BY <1>4, <1>6
  <2> QED
    BY <1>1, <1>3, <2>1 DEF OneWatch
<1>8. bw_list \in Seq(Entry) /\ host \subseteq Points
  BY DEF CoreInv, Shape
<1>9. Watches \subseteq Nat
  BY <1>8 DEF Watches
<1>10. \E i \in Watches : \A j \in Watches : i <= j
  BY <1>1, <1>9, LeastNat
<1>11. PICK i \in Watches : (\A j \in Watches : i <= j) /\ WatchAR = bw_list[i].addr
  BY <1>1, <1>10 DEF WatchAR
<1>12. PICK f \in 1 .. Len(bw_list) : f = FirstOf(bw_list, p)
  BY <1>6, <1>8, FirstIn
<1>13. f \in Watches
  BY <1>5, <1>6, <1>8, <1>12, FirstIn DEF Watches
<1>14. i \in 1 .. f /\ i \in 1 .. Len(bw_list) /\ bw_list[i].type = "watch"
  BY <1>8, <1>11, <1>12, <1>13 DEF Watches
<1>15. At(bw_list, i) \in host
  BY <1>12, <1>14 DEF CoreInv, PointInv, NewestFirst, FreshAs
<1>16. PICK q \in host : q = At(bw_list, i)
  BY <1>15
<1>17. q = [type |-> "watch", addr |-> report'.watch]
  BY <1>1, <1>11, <1>14, <1>16 DEF At
<1>18. PICK t \in used : t = SlotOf(bw_list, q) /\ hw[t] = q
  BY <1>6
<1>19. t[1] = "watch"
  <2>1. t \in Slots /\ hw[t] # Off /\ hw[t].type = "watch"
    BY <1>17, <1>18 DEF CoreInv, Shape, Off
  <2> QED
    BY <1>1, <2>1 DEF CoreInv, Shape
<1>20. t = s
  BY <1>7, <1>18, <1>19
<1> QED
  BY <1>2, <1>16, <1>17, <1>18, <1>20

LEMMA WatchStep ==
    CoreInv /\ [Next]_vars =>
        ((report' # report /\ report'.watch # None /\ lost = {} /\ StillSet(matched)) =>
            LET p == [type |-> "watch", addr |-> report'.watch]
            IN  p \in host /\ \E s \in matched : hw[s] = p)
<1> SUFFICES ASSUME CoreInv, [Next]_vars,
                    report' # report, report'.watch # None, lost = {}, StillSet(matched)
             PROVE  LET p == [type |-> "watch", addr |-> report'.watch]
                    IN  p \in host /\ \E s \in matched : hw[s] = p
  OBVIOUS
<1>1. ~UNCHANGED vars /\ ~Hung
  BY DEF vars, Hung
<1>2. report' # Silent
  BY DEF Silent
<1>3. ~PollRunning /\ ~PollRV
  BY DEF PollRunning, PollRV, Running, ReasonRV
<1>4. PollM \/ PollAR
  BY <1>1, <1>2, <1>3 DEF Next, Poll
<1> QED
  BY <1>4, WatchMHit, WatchARHit

\* The stop the host is told of is the one that happened: a continued program does not stop
\* for a step (cortexm_halt_resume, cortexar_halt_resume), and a reported watchpoint is one
\* the host holds and whose comparator was hit (cortexm_check_watch, cortexar_halt_poll).
THEOREM StopsRight == Spec => StopsTrue
BY NoStepStop, WatchStep, Invariance, PTL DEF Spec, StopsTrue, ContinueIsNoStep, WatchIsHit

=============================================================================
