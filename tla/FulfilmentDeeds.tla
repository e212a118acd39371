---------------------------- MODULE FulfilmentDeeds ----------------------------
(* Machine-checked: what each step of Fulfilment does to the units, when the  *)
(* requests come one at a time.  Units are counted per order and variant: held *)
(* for the order, on the way to it, missing; and over all stores.  A step is  *)
(* one of a few deeds, and each deed says what it adds to these sums and what *)
(* it takes away.  FulfilmentUnits draws the conclusions.                     *)
EXTENDS FulfilmentProofs
-----------------------------------------------------------------------------
(* Sums by class.                                                            *)

Class(S, g, y) == {x \in S : g[x] = y}
ByClass(S, f, T, g) == [y \in T |-> Total(Class(S, g, y), f)]

\* Adding up what each class adds up to is adding up everything.
LEMMA TotalByClass ==
    ASSUME NEW S, NEW f, Summed(S, f), NEW T, IsFiniteSet(T), NEW g, \A x \in S : g[x] \in T
    PROVE  /\ Summed(T, ByClass(S, f, T, g)) /\ \A y \in T : ByClass(S, f, T, g)[y] \in Nat
           /\ Total(T, ByClass(S, f, T, g)) = Total(S, f)
<1> DEFINE n == ByClass(S, f, T, g)
           part(y) == Columns(Class(S, g, y), f)
<1>1. ASSUME NEW y \in T
      PROVE  /\ Class(S, g, y) \subseteq S /\ n[y] \in Nat /\ n[y] = Cardinality(part(y))
             /\ IsFiniteSet(part(y))
  <2>1. Class(S, g, y) \subseteq S
    BY DEF Class
  <2>2. Summed(Class(S, g, y), f)
    BY <2>1, TotalPart
  <2>3. n[y] = Total(Class(S, g, y), f)
    BY DEF ByClass
  <2>4. QED
    BY <2>1, <2>2, <2>3, TotalNat, ColumnsAreFinite
<1>2. Summed(T, n)
  <2> HIDE DEF n
  <2>1. QED
    BY <1>1 DEF Summed
<1> DEFINE bij == [y \in T |-> CHOOSE b : b \in Bijection(1..n[y], part(y))]
<1>3. ASSUME NEW y \in T PROVE bij[y] \in Bijection(1..n[y], part(y))
  <2> HIDE DEF n, part
  <2>1. ExistsBijection(1..Cardinality(part(y)), part(y))
    BY <1>1, FS_CardinalityType
  <2>2. \E b : b \in Bijection(1..n[y], part(y))
    BY <1>1, <2>1 DEF ExistsBijection
  <2>3. (CHOOSE b : b \in Bijection(1..n[y], part(y))) \in Bijection(1..n[y], part(y))
    BY <2>2
  <2>4. QED
    BY <2>3
<1>4. ASSUME NEW y \in T, NEW p \in part(y)
      PROVE  \E x \in S : g[x] = y /\ \E k \in 1..f[x] : p = <<x, k>>
  BY InColumns DEF Class
<1>0. ASSUME NEW D, NEW P, NEW b \in Bijection(D, P)
      PROVE  /\ \A k \in D : b[k] \in P
             /\ \A k \in D, m \in D : b[k] = b[m] => k = m
             /\ \A p \in P : \E k \in D : b[k] = p
  BY Fun_BijectionProperties
<1>5. ASSUME NEW y \in T
      PROVE  /\ \A k \in 1..n[y] : bij[y][k] \in part(y)
             /\ \A k \in 1..n[y], m \in 1..n[y] : bij[y][k] = bij[y][m] => k = m
             /\ \A p \in part(y) : \E k \in 1..n[y] : bij[y][k] = p
  <2>1. PICK b : b = bij[y]
    OBVIOUS
  <2> HIDE DEF n, part, bij
  <2>2. PICK D, P : D = 1..n[y] /\ P = part(y)
    OBVIOUS
  <2>3. b \in Bijection(D, P)
    BY <1>3, <2>1, <2>2
  <2>4. /\ \A k \in D : b[k] \in P
        /\ \A k \in D, m \in D : b[k] = b[m] => k = m
        /\ \A p \in P : \E k \in D : b[k] = p
    BY <1>0, <2>3
  <2>5. QED
    BY <2>1, <2>2, <2>4
<1> HIDE DEF n, part, bij
<1> DEFINE h == [p \in Columns(T, n) |-> bij[p[1]][p[2]]]
<1>6. ASSUME NEW p \in Columns(T, n)
      PROVE  \E y \in T : \E k \in 1..n[y] : p = <<y, k>> /\ h[p] = bij[y][k]
  <2>1. PICK y \in T : \E k \in 1..n[y] : p = <<y, k>>
    BY InColumns
  <2>2. PICK k \in 1..n[y] : p = <<y, k>>
    BY <2>1
  <2>3. p[1] = y /\ p[2] = k
    BY <2>2
  <2>4. QED
    BY <2>2, <2>3
<1>7. \A y \in T : \A k \in 1..n[y] : <<y, k>> \in Columns(T, n) /\ h[<<y, k>>] = bij[y][k]
  <2>1. SUFFICES ASSUME NEW y \in T, NEW k \in 1..n[y]
                 PROVE  <<y, k>> \in Columns(T, n) /\ h[<<y, k>>] = bij[y][k]
    OBVIOUS
  <2>2. <<y, k>> \in Columns(T, n)
    BY InColumns
  <2>3. QED
    BY <2>2
<1>8. h \in [Columns(T, n) -> Columns(S, f)]
  <2>1. ASSUME NEW p \in Columns(T, n) PROVE h[p] \in Columns(S, f)
    <3>1. PICK y \in T : \E k \in 1..n[y] : h[p] = bij[y][k]
      BY <1>6
    <3>2. h[p] \in part(y)
      BY <1>5, <3>1
    <3>3. QED
      BY <1>4, <3>2, InColumns
  <2>2. QED
    BY <2>1
<1> HIDE DEF h
<1>9. ASSUME NEW p \in Columns(T, n), NEW q \in Columns(T, n), h[p] = h[q] PROVE p = q
  <2>1. PICK y \in T : \E k \in 1..n[y] : p = <<y, k>> /\ h[p] = bij[y][k]
    BY <1>6
  <2>2. PICK k \in 1..n[y] : p = <<y, k>> /\ h[p] = bij[y][k]
    BY <2>1
  <2>3. PICK z \in T : \E m \in 1..n[z] : q = <<z, m>> /\ h[q] = bij[z][m]
    BY <1>6
  <2>4. PICK m \in 1..n[z] : q = <<z, m>> /\ h[q] = bij[z][m]
    BY <2>3
  <2>5. h[p] \in part(y) /\ h[p] \in part(z)
    BY <1>5, <1>9, <2>2, <2>4
  <2>6. PICK x \in S : g[x] = y /\ \E j \in 1..f[x] : h[p] = <<x, j>>
    BY <1>4, <2>5
  <2>7. PICK w \in S : g[w] = z /\ \E j \in 1..f[w] : h[p] = <<w, j>>
    BY <1>4, <2>5
  <2>8. y = z
    BY <2>6, <2>7
  <2>9. k = m
    BY <1>5, <1>9, <2>2, <2>4, <2>8
  <2>10. QED
    BY <2>2, <2>4, <2>8, <2>9
<1>10. ASSUME NEW c \in Columns(S, f) PROVE \E p \in Columns(T, n) : h[p] = c
  <2>1. PICK x \in S : \E j \in 1..f[x] : c = <<x, j>>
    BY InColumns
  <2>2. PICK y \in T : y = g[x]
    OBVIOUS
  <2>3. x \in Class(S, g, y)
    BY <2>2 DEF Class
  <2>4. c \in part(y)
    BY <2>1, <2>3, InColumns DEF part
  <2>5. PICK k \in 1..n[y] : bij[y][k] = c
    BY <1>5, <2>4
  <2>6. QED
    BY <1>7, <2>5
<1>11. h \in Bijection(Columns(T, n), Columns(S, f))
  BY <1>8, <1>9, <1>10 DEF Bijection, Injection, Surjection, IsInjective
<1>12. IsFiniteSet(Columns(T, n)) /\ Total(T, n) = Cardinality(Columns(T, n))
  BY <1>2, ColumnsAreFinite
<1>13. Cardinality(Columns(S, f)) = Cardinality(Columns(T, n))
  BY <1>11, <1>12, FS_Bijection DEF ExistsBijection
<1>14. Total(S, f) = Cardinality(Columns(S, f))
  BY ColumnsAreFinite
<1>15. QED
  BY <1>1, <1>2, <1>12, <1>13, <1>14 DEF n

-----------------------------------------------------------------------------
(* What is held for an order.                                                *)

\* Some ACTIVE reservations, those of them that a step leaves, and what these count.
Leaves(before, after, now) ==
    /\ before \subseteq ResIds /\ \A r \in before : res[r].status = "ACTIVE"
    /\ after = {r \in before : res'[r].status = "ACTIVE"} /\ now = Quantities'

\* What is taken of them is what they counted more before.
LEMMA TakenOf ==
    ASSUME Typed, NEW G, NEW take, Shrunk(G, take),
           NEW before, NEW after, NEW now, Leaves(before, after, now)
    PROVE  /\ Total(before, Quantities) = Total(before \cap G, take) + Total(after, now)
           /\ Total(before \cap G, take) \in Nat /\ Total(after, now) \in Nat
<1>0. /\ before \subseteq ResIds /\ \A r \in before : res[r].status = "ACTIVE"
      /\ after = {r \in before : res'[r].status = "ACTIVE"} /\ now = Quantities'
  BY DEF Leaves
<1>1. PICK part : part = before \cap G
  OBVIOUS
<1> DEFINE g == [r \in before |-> IF r \in part THEN take[r] ELSE 0]
           h == [r \in before |-> IF r \in part THEN Quantities[r] - take[r] ELSE Quantities[r]]
<1>2. part \subseteq before /\ after \subseteq before /\ before \subseteq ResIds
  BY <1>0, <1>1
<1>3. ASSUME NEW r \in before
      PROVE  g[r] \in Nat /\ h[r] \in Nat /\ Quantities[r] = g[r] + h[r]
  <2>1. Quantities[r] = res[r].qty /\ res[r].qty \in Nat
    BY <1>2, Quantity
  <2>2. CASE r \in part
    <3>1. take[r] \in 0..res[r].qty
      BY <1>1, <2>2 DEF Shrunk
    <3>2. g[r] = take[r] /\ h[r] = res[r].qty - take[r]
      BY <2>1, <2>2
    <3>3. QED
      BY <2>1, <3>1, <3>2
  <2>3. CASE r \notin part
    BY <2>1, <2>3
  <2>4. QED
    BY <2>2, <2>3
<1>4. IsFiniteSet(before) /\ IsFiniteSet(part) /\ IsFiniteSet(after)
  BY <1>2, ReservationsAreFinite, FS_Subset
<1>5. Total(before, Quantities) = Total(before, g) + Total(before, h)
  <2> HIDE DEF g, h
  <2>1. QED
    BY <1>3, <1>4, TotalPlus
<1>6. Summed(before, g) /\ Summed(before, h)
  <2> HIDE DEF g, h
  <2>1. QED
    BY <1>3, <1>4 DEF Summed
<1>7. Total(before, g) = Total(part, take)
  <2>1. \A r \in before \ part : g[r] <= 0
    OBVIOUS
  <2>2. \A r \in part : g[r] = take[r]
    BY <1>2
  <2> HIDE DEF g
  <2>3. Total(before, g) = Total(part, g)
    BY <1>2, <1>6, <2>1, TotalPositive
  <2>4. QED
    BY <2>2, <2>3, TotalSame
<1>8. Total(before, h) = Total(after, now)
  <2>1. ASSUME NEW r \in before, r \notin after PROVE h[r] <= 0
    <3>1. r \in ResIds /\ res[r].status = "ACTIVE" /\ Quantities[r] = res[r].qty
      BY <1>0, Quantity
    <3>2. r \in G
      BY <1>0, <2>1, <3>1 DEF Shrunk
    <3>3. r \in part
      BY <1>1, <3>2
    <3>4. take[r] = res[r].qty
      BY <1>0, <2>1, <3>2 DEF Shrunk
    <3>5. res[r].qty \in Nat
      BY <3>1, Quantity
    <3>6. h[r] = Quantities[r] - take[r]
      BY <2>1, <3>3
    <3>7. QED
      BY <3>1, <3>4, <3>5, <3>6
  <2>2. ASSUME NEW r \in after PROVE h[r] = now[r]
    <3>1. r \in ResIds /\ res'[r].status = "ACTIVE" /\ now[r] = res'[r].qty /\ r \in before
      BY <1>0, <1>2, <2>2 DEF Quantities
    <3>2. CASE r \in part
      <4>1. res'[r].qty = res[r].qty - take[r]
        BY <1>1, <3>1, <3>2 DEF Shrunk
      <4>2. h[r] = Quantities[r] - take[r] /\ Quantities[r] = res[r].qty
        BY <3>1, <3>2, Quantity
      <4>3. QED
        BY <3>1, <4>1, <4>2
    <3>3. CASE r \notin part
      <4>1. res'[r] = res[r]
        BY <1>1, <3>1, <3>3 DEF Shrunk
      <4>2. h[r] = Quantities[r] /\ Quantities[r] = res[r].qty
        BY <3>1, <3>3, Quantity
      <4>3. QED
        BY <3>1, <4>1, <4>2
    <3>4. QED
      BY <3>2, <3>3
  <2> HIDE DEF h
  <2>3. Total(before, h) = Total(after, h)
    BY <1>2, <1>6, <2>1, TotalPositive
  <2>4. QED
    BY <2>2, <2>3, TotalSame
<1>9. Total(part, take) \in Nat /\ Total(after, now) \in Nat
  <2>1. Total(before, g) \in Nat /\ Total(before, h) \in Nat
    <3> HIDE DEF g, h
    <3>1. QED
      BY <1>6, TotalNat
  <2>2. QED
    BY <1>7, <1>8, <2>1
<1>10. QED
  BY <1>1, <1>5, <1>7, <1>8, <1>9

\* The reservations that hold a variant for an order.
HeldRows(o, v) == {r \in Active(o) : res[r].inv[2] = v}

LEMMA HeldShrinks ==
    ASSUME Typed, NEW G, NEW take, Shrunk(G, take), NEW o, NEW v
    PROVE  /\ HeldFor(o, v) = Total(HeldRows(o, v) \cap G, take) + HeldFor(o, v)'
           /\ Total(HeldRows(o, v) \cap G, take) \in Nat /\ HeldFor(o, v)' \in Nat
<1>1. PICK before, after, now : /\ before = HeldRows(o, v) /\ after = HeldRows(o, v)'
                                /\ now = Quantities'
  OBVIOUS
<1>2. before \subseteq ResIds /\ \A r \in before : res[r].status = "ACTIVE"
  BY <1>1 DEF HeldRows, Active
<1>3. after = {r \in before : res'[r].status = "ACTIVE"}
  <2>1. \A r \in ResIds : res[r].status # "ACTIVE" => r \notin G
    BY DEF Shrunk
  <2>2. \A r \in ResIds : res'[r].status = "ACTIVE" =>
           res[r].status = "ACTIVE" /\ res'[r].inv = res[r].inv /\ res'[r].ord = res[r].ord
    BY <2>1 DEF Shrunk
  <2>3. \A r \in before : res'[r].inv = res[r].inv /\ res'[r].ord = res[r].ord
    BY <1>2 DEF Shrunk
  <2>4. QED
    BY <1>1, <2>2, <2>3 DEF HeldRows, Active
<1>4. /\ Total(before, Quantities) = Total(before \cap G, take) + Total(after, now)
      /\ Total(before \cap G, take) \in Nat /\ Total(after, now) \in Nat
  <2>1. Leaves(before, after, now)
    BY <1>1, <1>2, <1>3 DEF Leaves
  <2>2. QED
    BY <2>1, TakenOf
<1>5. Total(before, Quantities) = HeldFor(o, v) /\ Total(after, now) = HeldFor(o, v)'
  BY <1>1 DEF HeldFor, HeldRows
<1>6. QED
  BY <1>1, <1>4, <1>5

LEMMA HeldIsNat ==
    ASSUME Typed, NEW o, NEW v
    PROVE  /\ HeldRows(o, v) \subseteq ResIds /\ Summed(HeldRows(o, v), Quantities)
           /\ HeldFor(o, v) = Total(HeldRows(o, v), Quantities) /\ HeldFor(o, v) \in Nat
<1>1. HeldRows(o, v) \subseteq ResIds
  BY DEF HeldRows, Active
<1>2. Summed(HeldRows(o, v), Quantities)
  BY <1>1, QuantitiesSummed
<1>3. HeldFor(o, v) = Total(HeldRows(o, v), Quantities)
  BY DEF HeldFor, HeldRows
<1>4. Total(HeldRows(o, v), Quantities) \in Nat
  BY <1>2, TotalNat
<1>5. QED
  BY <1>1, <1>2, <1>3, <1>4

\* What the new reservations of a set count for an order.
NewHeld(ids, o, v) == Total({r \in ids : res[r].ord = o /\ res[r].inv[2] = v}, Quantities)

LEMMA HeldGrows ==
    ASSUME Typed, Typed', ReservationsNumbered, NEW ids, Grown(ids), NEW o, NEW v
    PROVE  HeldFor(o, v)' = HeldFor(o, v) + NewHeld(ids, o, v)' /\ NewHeld(ids, o, v)' \in Nat
<1>1. PICK before, after, new, now :
         /\ before = HeldRows(o, v) /\ after = HeldRows(o, v)' /\ now = Quantities'
         /\ new = {r \in ids : res'[r].ord = o /\ res'[r].inv[2] = v}
  OBVIOUS
<1>2. ids \subseteq ResIds /\ \A r \in ids : res[r].status = "ABSENT"
  BY NextAreFree DEF Grown, NextIds
<1>3. after = before \union new /\ before \cap new = {}
  BY <1>1, <1>2 DEF Grown, HeldRows, Active
<1>4. before \subseteq ResIds /\ \A r \in before : Quantities[r] = now[r]
  BY <1>1, <1>2 DEF Grown, HeldRows, Active, Quantities
<1>5. Summed(before, now) /\ Summed(new, now)
  <2>1. before \subseteq ResIds /\ new \subseteq ResIds
    BY <1>1, <1>2, <1>4
  <2>2. ASSUME NEW r \in ResIds PROVE now[r] \in Int
    BY <1>1 DEF Typed, TypeOK, Quantities, ReservationRow
  <2>3. QED
    BY <2>1, <2>2, ReservationsAreFinite DEF Summed
<1>6. Total(after, now) = Total(before, now) + Total(new, now) /\ Total(new, now) \in Nat
  BY <1>3, <1>5, TotalJoin, TotalNat
<1>7. Total(before, Quantities) = Total(before, now)
  BY <1>4, TotalSame
<1>8. /\ HeldFor(o, v) = Total(before, Quantities) /\ HeldFor(o, v)' = Total(after, now)
      /\ NewHeld(ids, o, v)' = Total(new, now)
  BY <1>1 DEF HeldFor, HeldRows, NewHeld
<1>9. QED
  BY <1>6, <1>7, <1>8

LEMMA HeldIsNatNext ==
    ASSUME Typed', NEW o, NEW v PROVE HeldFor(o, v)' \in Nat
<1>1. HeldRows(o, v)' \subseteq ResIds
  BY DEF HeldRows, Active
<1>2. \A r \in HeldRows(o, v)' : Quantities'[r] \in Nat
  BY <1>1 DEF Quantities, Typed, TypeOK, ReservationRow
<1>3. Summed(HeldRows(o, v)', Quantities')
  BY <1>1, <1>2, ReservationsAreFinite DEF Summed
<1>4. HeldFor(o, v)' = Total(HeldRows(o, v)', Quantities')
  BY DEF HeldFor, HeldRows
<1>5. QED
  BY <1>3, <1>4, TotalNat

LEMMA HeldStays ==
    ASSUME NEW o, NEW v, UNCHANGED res PROVE HeldFor(o, v)' = HeldFor(o, v)
  BY DEF HeldFor, Active, Quantities

-----------------------------------------------------------------------------
(* Sums of which one summand changes.                                        *)

LEMMA OneSummand ==
    ASSUME NEW S, NEW f, NEW g, Summed(S, f), Summed(S, g), NEW t \in S, f[t] \in Nat, g[t] \in Nat,
           \A x \in S \ {t} : g[x] = f[x]
    PROVE  Total(S, g) + f[t] = Total(S, f) + g[t]
<1>1. {t} \subseteq S
  OBVIOUS
<1>2. Total(S, f) = Total({t}, f) + Total(S \ {t}, f) /\ Summed(S \ {t}, f)
  BY <1>1, TotalPart
<1>3. Total(S, g) = Total({t}, g) + Total(S \ {t}, g)
  BY <1>1, TotalPart
<1>4. Total({t}, f) = f[t] /\ Total({t}, g) = g[t]
  BY TotalOne
<1>5. Total(S \ {t}, f) = Total(S \ {t}, g)
  BY TotalSame
<1>6. Total(S \ {t}, f) \in Nat
  BY <1>2, TotalNat
<1>7. QED
  BY <1>2, <1>3, <1>4, <1>5, <1>6

\* A sum of nothing.
LEMMA TotalZero ==
    ASSUME NEW S, NEW f, Summed(S, f), \A x \in S : f[x] <= 0 PROVE Total(S, f) = 0
<1>1. {} \subseteq S /\ \A x \in S \ {} : f[x] <= 0
  OBVIOUS
<1>2. Total(S, f) = Total({}, f)
  BY <1>1, TotalPositive
<1>3. QED
  BY <1>2, TotalEmpty

-----------------------------------------------------------------------------
(* What is on the way to an order.                                           *)

\* The units that a transfer brings, by its row.
WayItems(row, o, v) ==
    {k \in ItemKeys : /\ row.items[k].qty > 0 /\ row.ord = o
                      /\ row.items[k].variant = v /\ row.status # "CANCELLED"}
LeftOf(row) == [k \in ItemKeys |-> Left(row.items[k])]
RowWay(row, o, v) == Total(WayItems(row, o, v), LeftOf(row))

Resting(row) == row.status \in {"ABSENT", "PENDING", "RECEIVED", "CANCELLED"}

LEMMA TransfersAreFinite == IsFiniteSet(XferIds)
  BY FS_Interval, ErpAssumption DEF XferIds

LEMMA WayTyped ==
    ASSUME Typed, TransferBalanced, NEW t \in XferIds, NEW o, NEW v
    PROVE  /\ \A k \in ItemKeys : LeftOf(xfer[t])[k] \in Nat
           /\ WayItems(xfer[t], o, v) \subseteq Items(t)
           /\ Summed(WayItems(xfer[t], o, v), LeftOf(xfer[t]))
           /\ RowWay(xfer[t], o, v) \in Nat
           /\ Resting(xfer[t]) => RowWay(xfer[t], o, v) = 0
<1>1. ASSUME NEW k \in ItemKeys
      PROVE  /\ LeftOf(xfer[t])[k] = Left(xfer[t].items[k]) /\ LeftOf(xfer[t])[k] \in Nat
             /\ Resting(xfer[t]) /\ xfer[t].status # "CANCELLED" => LeftOf(xfer[t])[k] = 0
  <2>1. /\ xfer[t].items[k].disp \in Nat /\ xfer[t].items[k].rec \in Nat
        /\ xfer[t].items[k].disc \in Nat
        /\ xfer[t].items[k].rec + xfer[t].items[k].disc <= xfer[t].items[k].disp
    BY TransferType DEF TransferBalanced
  <2>2. LeftOf(xfer[t])[k] = xfer[t].items[k].disp - xfer[t].items[k].rec - xfer[t].items[k].disc
    BY DEF LeftOf, Left
  <2>3. Resting(xfer[t]) /\ xfer[t].status # "CANCELLED" =>
           xfer[t].items[k].disp = 0
             \/ xfer[t].items[k].rec + xfer[t].items[k].disc = xfer[t].items[k].disp
    BY DEF Resting, TransferBalanced
  <2>4. QED
    BY <2>1, <2>2, <2>3 DEF Left
<1>2. WayItems(xfer[t], o, v) \subseteq Items(t) /\ WayItems(xfer[t], o, v) \subseteq ItemKeys
  BY DEF WayItems, Items
<1>3. Summed(WayItems(xfer[t], o, v), LeftOf(xfer[t]))
  BY <1>1, <1>2, ItemsAreFinite DEF Summed
<1>4. RowWay(xfer[t], o, v) \in Nat
  BY <1>3, TotalNat DEF RowWay
<1>5. ASSUME Resting(xfer[t]) PROVE RowWay(xfer[t], o, v) = 0
  <2>1. \A k \in WayItems(xfer[t], o, v) : LeftOf(xfer[t])[k] <= 0
    BY <1>1, <1>5 DEF WayItems
  <2>2. QED
    BY <1>3, <2>1, TotalZero DEF RowWay
<1>6. QED
  BY <1>1, <1>2, <1>3, <1>4, <1>5

Ways(o, v) == [t \in XferIds |-> RowWay(xfer[t], o, v)]

LEMMA WayByTransfer ==
    ASSUME Typed, TransferBalanced, NEW o, NEW v
    PROVE  OnTheWayFor(o, v) = Total(XferIds, Ways(o, v)) /\ Summed(XferIds, Ways(o, v))
<1>1. PICK S : S = MovingItems(o, v)
  OBVIOUS
<1>2. PICK f : f = [p \in S |-> Left(xfer[p[1]].items[p[2]])]
  OBVIOUS
<1>3. PICK g : g = [p \in S |-> p[1]]
  OBVIOUS
<1>4. S \subseteq XferIds \X ItemKeys
  BY <1>1 DEF MovingItems
<1>5. IsFiniteSet(S)
  <2>1. IsFiniteSet(XferIds \X ItemKeys)
    BY TransfersAreFinite, ItemsAreFinite, FS_Product
  <2>2. QED
    BY <1>4, <2>1, FS_Subset
<1>6. ASSUME NEW t \in XferIds, NEW k \in ItemKeys
      PROVE  <<t, k>> \in S <=> k \in WayItems(xfer[t], o, v)
  BY <1>1 DEF MovingItems, WayItems, Items
<1>7. ASSUME NEW p \in S
      PROVE  /\ g[p] \in XferIds /\ p[2] \in WayItems(xfer[g[p]], o, v) /\ p = <<g[p], p[2]>>
             /\ f[p] = LeftOf(xfer[g[p]])[p[2]]
  BY <1>2, <1>3, <1>4, <1>6 DEF LeftOf
<1>8. Summed(S, f)
  <2>1. ASSUME NEW p \in S PROVE f[p] \in Int
    <3>1. PICK t \in XferIds, k \in ItemKeys : f[p] = LeftOf(xfer[t])[k]
      BY <1>4, <1>7
    <3>2. LeftOf(xfer[t])[k] \in Nat
      BY WayTyped
    <3>3. QED
      BY <3>1, <3>2
  <2>2. QED
    BY <1>5, <2>1 DEF Summed
<1>9. /\ Summed(XferIds, ByClass(S, f, XferIds, g))
      /\ Total(XferIds, ByClass(S, f, XferIds, g)) = Total(S, f)
  BY <1>7, <1>8, TransfersAreFinite, TotalByClass
<1>10. ASSUME NEW t \in XferIds PROVE ByClass(S, f, XferIds, g)[t] = Ways(o, v)[t]
  <2>1. PICK C, D, h : C = Class(S, g, t) /\ D = WayItems(xfer[t], o, v) /\ h = LeftOf(xfer[t])
    OBVIOUS
  <2>2. D \subseteq ItemKeys
    BY <2>1 DEF WayItems
  <2>3. PICK b : b = [k \in D |-> <<t, k>>]
    OBVIOUS
  <2>4. ASSUME NEW k \in D PROVE b[k] \in C /\ h[k] = f[b[k]]
    <3>1. <<t, k>> \in S
      BY <1>6, <2>1, <2>2
    <3>2. g[<<t, k>>] = t /\ f[<<t, k>>] = h[k]
      BY <1>3, <1>7, <2>1, <3>1
    <3>3. QED
      BY <2>1, <2>3, <3>1, <3>2 DEF Class
  <2>5. ASSUME NEW p \in C PROVE p[2] \in D /\ b[p[2]] = p
    <3>1. p \in S /\ g[p] = t
      BY <2>1 DEF Class
    <3>2. p[2] \in D /\ p = <<t, p[2]>>
      BY <1>7, <2>1, <3>1
    <3>3. QED
      BY <2>3, <3>2
  <2>6. b \in Bijection(D, C)
    <3>1. b \in [D -> C] /\ \A k \in D, m \in D : b[k] = b[m] => k = m
      BY <2>3, <2>4
    <3>2. \A p \in C : \E k \in D : b[k] = p
      BY <2>5
    <3>3. QED
      BY <3>1, <3>2 DEF Bijection, Injection, Surjection, IsInjective
  <2>7. Summed(C, f)
    <3>1. C \subseteq S
      BY <2>1 DEF Class
    <3>2. QED
      BY <1>8, <3>1, TotalPart
  <2>8. Total(D, h) = Total(C, f)
    BY <2>4, <2>6, <2>7, TotalRenamed
  <2>9. QED
    BY <2>1, <2>8 DEF ByClass, Ways, RowWay
<1>11. Total(XferIds, ByClass(S, f, XferIds, g)) = Total(XferIds, Ways(o, v))
  BY <1>10, TotalSame
<1>12. Total(S, f) = OnTheWayFor(o, v)
  BY <1>1, <1>2 DEF OnTheWayFor
<1>13. Summed(XferIds, Ways(o, v))
  BY <1>9, <1>10 DEF Summed
<1>14. QED
  BY <1>9, <1>11, <1>12, <1>13

WayFacts ==
    \A o, v :
        /\ OnTheWayFor(o, v) = Total(XferIds, Ways(o, v)) /\ OnTheWayFor(o, v) \in Nat
        /\ Summed(XferIds, Ways(o, v))
        /\ \A t \in XferIds : /\ Ways(o, v)[t] = RowWay(xfer[t], o, v)
                              /\ RowWay(xfer[t], o, v) \in Nat
                              /\ Resting(xfer[t]) => RowWay(xfer[t], o, v) = 0

LEMMA WaysAdded == Typed /\ TransferBalanced => WayFacts
<1>1. SUFFICES ASSUME Typed, TransferBalanced, NEW o, NEW v
               PROVE  /\ OnTheWayFor(o, v) = Total(XferIds, Ways(o, v)) /\ OnTheWayFor(o, v) \in Nat
                      /\ Summed(XferIds, Ways(o, v))
                      /\ \A t \in XferIds : /\ Ways(o, v)[t] = RowWay(xfer[t], o, v)
                                            /\ RowWay(xfer[t], o, v) \in Nat
                                            /\ Resting(xfer[t]) => RowWay(xfer[t], o, v) = 0
  BY DEF WayFacts
<1>2. OnTheWayFor(o, v) = Total(XferIds, Ways(o, v)) /\ Summed(XferIds, Ways(o, v))
  BY <1>1, WayByTransfer
<1>3. OnTheWayFor(o, v) \in Nat
  BY <1>2, TotalNat
<1>4. QED
  BY <1>1, <1>2, <1>3, WayTyped DEF Ways

LEMMA WaysAddedNext ==
    ASSUME Typed', TransferBalanced' PROVE WayFacts'
<1>1. Typed' /\ TransferBalanced' => WayFacts'
  BY WaysAdded, PTL
<1>2. QED
  BY <1>1

\* One transfer moves.
LEMMA WayMoves ==
    ASSUME WayFacts, WayFacts', NEW t \in XferIds, Others({t}), NEW o, NEW v
    PROVE  OnTheWayFor(o, v)' + RowWay(xfer[t], o, v) = OnTheWayFor(o, v) + RowWay(xfer'[t], o, v)
<1>1. PICK f, g : f = Ways(o, v) /\ g = Ways(o, v)'
  OBVIOUS
<1>2. Summed(XferIds, f) /\ OnTheWayFor(o, v) = Total(XferIds, f)
  BY <1>1 DEF WayFacts
<1>3. Summed(XferIds, g) /\ OnTheWayFor(o, v)' = Total(XferIds, g)
  BY <1>1 DEF WayFacts
<1>4. f[t] = RowWay(xfer[t], o, v) /\ f[t] \in Nat
  BY <1>1 DEF WayFacts
<1>5. g[t] = RowWay(xfer'[t], o, v) /\ g[t] \in Nat
  BY <1>1 DEF WayFacts
<1>6. \A u \in XferIds \ {t} : g[u] = f[u]
  BY <1>1 DEF Ways, Others
<1>7. QED
  BY <1>2, <1>3, <1>4, <1>5, <1>6, OneSummand

\* No transfer moves.
LEMMA WayRests ==
    ASSUME WayFacts, WayFacts', NEW o, NEW v,
           \A t \in XferIds : xfer'[t] = xfer[t] \/ (Resting(xfer[t]) /\ Resting(xfer'[t]))
    PROVE  OnTheWayFor(o, v)' = OnTheWayFor(o, v)
<1>1. PICK f, g : f = Ways(o, v) /\ g = Ways(o, v)'
  OBVIOUS
<1>2. OnTheWayFor(o, v) = Total(XferIds, f)
  BY <1>1 DEF WayFacts
<1>3. OnTheWayFor(o, v)' = Total(XferIds, g)
  BY <1>1 DEF WayFacts
<1>4. ASSUME NEW t \in XferIds PROVE g[t] = f[t]
  <2>1. f[t] = RowWay(xfer[t], o, v) /\ (Resting(xfer[t]) => f[t] = 0)
    BY <1>1 DEF WayFacts
  <2>2. g[t] = RowWay(xfer'[t], o, v) /\ (Resting(xfer'[t]) => g[t] = 0)
    BY <1>1 DEF WayFacts
  <2>3. QED
    BY <2>1, <2>2
<1>5. QED
  BY <1>2, <1>3, <1>4, TotalSame

-----------------------------------------------------------------------------
(* What a request that releases takes.                                       *)

LEMMA SoonerOrders ==
    ASSUME Typed, NEW l \in Lines, NEW R, R \subseteq ResIds, \A r \in R : res[r].line \in {Null, l},
           NEW a \in R, NEW b \in R
    PROVE  /\ a # b => Sooner(l, a, b) \/ Sooner(l, b, a)
           /\ ~Sooner(l, a, a)
           /\ \A c \in R : Sooner(l, c, a) /\ Sooner(l, a, b) => Sooner(l, c, b)
<1>1. Null # l
  BY ErpAssumption
<1>2. \A r \in R : r \in Int
  BY DEF ResIds
<1>3. QED
  BY <1>1, <1>2 DEF Sooner

\* How n units of the reservations R are taken in the order of the sort, and
\* from which of them: before[r] units come before r.
TakesInTurn(l, R, n, take, before, K) ==
    /\ R \subseteq ResIds /\ \A r \in R : res[r].line \in {Null, l}
    /\ n \in Nat /\ K \subseteq R
    /\ \A r \in R : before[r] = Total({p \in R : Sooner(l, p, r)}, Quantities)
    /\ \A r \in K : take[r] = Least(res[r].qty, Greatest(0, n - before[r]))

\* All in all no more than was asked.
LEMMA TakesAtMost ==
    ASSUME Typed, NEW l \in Lines, NEW R, NEW n, NEW take, NEW before, NEW K,
           TakesInTurn(l, R, n, take, before, K)
    PROVE  Total(K, take) <= n
<1>0. /\ R \subseteq ResIds /\ \A r \in R : res[r].line \in {Null, l}
      /\ n \in Nat /\ K \subseteq R
      /\ \A r \in R : before[r] = Total({p \in R : Sooner(l, p, r)}, Quantities)
      /\ \A r \in K : take[r] = Least(res[r].qty, Greatest(0, n - before[r]))
  BY DEF TakesInTurn
<1> DEFINE sooner(r) == {p \in R : Sooner(l, p, r)}
<1>1. ASSUME NEW r \in R
      PROVE  /\ before[r] \in Nat /\ Summed(sooner(r), Quantities)
             /\ Quantities[r] = res[r].qty /\ res[r].qty \in Nat
  <2>1. sooner(r) \subseteq ResIds
    BY <1>0
  <2>2. Summed(sooner(r), Quantities)
    <3> HIDE DEF sooner
    <3>1. QED
      BY <2>1, QuantitiesSummed
  <2>3. before[r] \in Nat
    BY <1>0, <2>2, TotalNat
  <2>4. QED
    BY <1>0, <2>2, <2>3, Quantity
<1>2. ASSUME NEW r \in K
      PROVE  /\ take[r] \in Nat /\ take[r] <= res[r].qty
             /\ take[r] > 0 => before[r] + take[r] <= n
  <2>1. before[r] \in Nat /\ res[r].qty \in Nat
    BY <1>0, <1>1
  <2>2. take[r] = Least(res[r].qty, Greatest(0, n - before[r]))
    BY <1>0
  <2>3. QED
    BY <1>0, <2>1, <2>2 DEF Least, Greatest
<1>3. ASSUME NEW a \in R, NEW b \in R, Sooner(l, a, b)
      PROVE  before[a] + res[a].qty <= before[b]
  <2>1. PICK A, B : A = sooner(a) /\ B = sooner(b)
    OBVIOUS
  <2>2. A \union {a} \subseteq B /\ a \notin A
    BY <1>0, <1>3, <2>1, SoonerOrders
  <2>3. Summed(B, Quantities) /\ Summed(A, Quantities)
    BY <1>1, <2>1
  <2>4. Summed({a}, Quantities) /\ Quantities[a] = res[a].qty /\ res[a].qty \in Nat
    <3>1. Quantities[a] = res[a].qty /\ res[a].qty \in Nat
      BY <1>1
    <3>2. IsFiniteSet({a})
      BY FS_Singleton
    <3>3. QED
      BY <3>1, <3>2 DEF Summed
  <2>5. Total(A \union {a}, Quantities) = Total(A, Quantities) + Total({a}, Quantities)
    BY <2>2, <2>3, <2>4, TotalJoin
  <2>6. Total({a}, Quantities) = res[a].qty
    BY <2>4, TotalOne
  <2>7. /\ Total(B, Quantities) = Total(A \union {a}, Quantities) + Total(B \ (A \union {a}), Quantities)
        /\ Total(B \ (A \union {a}), Quantities) \in Nat
    BY <2>2, <2>3, TotalPart, TotalNat
  <2>8. before[a] = Total(A, Quantities) /\ before[b] = Total(B, Quantities) /\ before[a] \in Nat
    BY <1>0, <1>1, <2>1
  <2>9. QED
    BY <2>4, <2>5, <2>6, <2>7, <2>8
<1> HIDE DEF sooner
<1>4. IsFiniteSet(K) /\ Summed(K, take)
  BY <1>0, <1>2, ReservationsAreFinite DEF Summed
<1> DEFINE h == [c \in Columns(K, take) |-> before[c[1]] + c[2]]
<1>5. ASSUME NEW c \in Columns(K, take)
      PROVE  \E r \in K : \E k \in 1..take[r] : c = <<r, k>> /\ h[c] = before[r] + k /\ h[c] \in 1..n
  <2>1. PICK r \in K : \E k \in 1..take[r] : c = <<r, k>>
    BY InColumns
  <2>2. PICK k \in 1..take[r] : c = <<r, k>>
    BY <2>1
  <2>3. h[c] = before[r] + k
    BY <2>2
  <2>4. before[r] \in Nat /\ take[r] \in Nat /\ k \in Nat /\ k >= 1 /\ take[r] > 0
    BY <1>0, <1>1, <1>2
  <2>5. before[r] + take[r] <= n
    BY <1>2, <2>4
  <2> HIDE DEF h
  <2>6. QED
    BY <1>0, <2>2, <2>3, <2>4, <2>5
<1> HIDE DEF h
<1>6. ASSUME NEW c \in Columns(K, take), NEW d \in Columns(K, take), h[c] = h[d] PROVE c = d
  <2>1. PICK r \in K : \E k \in 1..take[r] : c = <<r, k>> /\ h[c] = before[r] + k
    BY <1>5
  <2>2. PICK k \in 1..take[r] : c = <<r, k>> /\ h[c] = before[r] + k
    BY <2>1
  <2>3. PICK q \in K : \E m \in 1..take[q] : d = <<q, m>> /\ h[d] = before[q] + m
    BY <1>5
  <2>4. PICK m \in 1..take[q] : d = <<q, m>> /\ h[d] = before[q] + m
    BY <2>3
  <2>5. /\ before[r] \in Nat /\ take[r] \in Nat /\ take[r] <= res[r].qty /\ res[r].qty \in Nat
        /\ before[q] \in Nat /\ take[q] \in Nat /\ take[q] <= res[q].qty /\ res[q].qty \in Nat
    BY <1>0, <1>1, <1>2
  <2>6. before[r] + k = before[q] + m
    BY <1>6, <2>2, <2>4
  <2>7. ~Sooner(l, r, q) /\ ~Sooner(l, q, r)
    BY <1>0, <1>3, <2>5, <2>6
  <2>8. r = q
    BY <1>0, <2>7, SoonerOrders
  <2>9. k = m
    BY <2>5, <2>6, <2>8
  <2>10. QED
    BY <2>2, <2>4, <2>8, <2>9
<1>7. PICK C : C = Columns(K, take)
  OBVIOUS
<1>8. h \in Injection(C, 1..n)
  <2>1. h \in [C -> 1..n]
    BY <1>5, <1>7 DEF h
  <2>2. QED
    BY <1>6, <1>7, <2>1 DEF Injection, IsInjective
<1>9. IsFiniteSet(1..n) /\ Cardinality(1..n) = n
  BY <1>0, FS_Interval
<1>10. Cardinality(C) <= Cardinality(1..n)
  BY <1>8, <1>9, FS_Injection
<1>11. Total(K, take) = Cardinality(C)
  BY <1>4, <1>7, ColumnsAreFinite
<1>12. QED
  BY <1>9, <1>10, <1>11

-----------------------------------------------------------------------------
(* One request at a time: what a request has read of its order is still so.   *)

KnowsOrder(r) ==
    /\ r.op = "status" /\ r.phase = "commit" =>
          DOMAIN r.held = Active(r.ord) /\ \A k \in DOMAIN r.held : r.held[k] = res[k].qty
    /\ r.op = "release" =>
          /\ line[r.line].qty > 0 /\ ord[LineOrder[r.line]].status # "DELIVERED"
          /\ \A k \in DOMAIN r.take : /\ res[k].ord = LineOrder[r.line]
                                      /\ res[k].inv[2] = LineVariant[r.line]
          /\ Total(DOMAIN r.take, r.take) <= line[r.line].reserved
    /\ r.op = "complete" /\ r.phase = "write" => MovingFor(r.ord) = {}
    /\ r.op = "reserve" => line[r.line].qty > 0
    /\ r.op = "pick" => r.limit = Limits(r.ord)
AllKnow == \A s \in Slots : KnowsOrder(req[s])
KnowingOps == {"status", "release", "complete", "reserve", "pick"}

\* How much of the lines may be picked depends on the tables.
LEMMA SameLimits ==
    ASSUME UNCHANGED tables, NEW o PROVE Limits(o)' = Limits(o)
<1>1. UNCHANGED <<line, res>>
  BY DEF tables
<1>2. LinesOf(o)' = LinesOf(o) /\ Quantities' = Quantities
  BY <1>1 DEF LinesOf, Quantities
<1>3. \A p, v : ReservedForVariant(p, v)' = ReservedForVariant(p, v)
  BY <1>1, <1>2, Zenon DEF ReservedForVariant
<1>4. \A l : MaxPickable(l)' = MaxPickable(l)
  BY <1>1, <1>3, Zenon DEF MaxPickable
<1>5. QED
  BY <1>2, <1>4, Zenon DEF Limits

LEMMA KnowsWhenAlone ==
    ASSUME Alone, Typed, NEW s \in Slots, NEW r, Continue(s, r), KnowsOrder(r)' PROVE AllKnow'
<1>1. req' = [req EXCEPT ![s] = r] /\ DOMAIN req = Slots
  BY DEF Continue, Typed, TypeOK
<1>2. ASSUME NEW z \in Slots PROVE KnowsOrder(req[z])'
  <2>1. req'[z] = r
    BY <1>1 DEF Alone
  <2>2. QED
    BY <2>1 DEF KnowsOrder, Active, MovingFor, Limits
<1>3. QED
  BY <1>2 DEF AllKnow

\* A request that is going to pick.
LEMMA KnowsPick ==
    ASSUME Alone, Typed, NEW s \in Slots, NEW o, NEW delta, UNCHANGED tables,
           Continue(s, [op |-> "pick", phase |-> "write", ord |-> o, limit |-> Limits(o),
                        delta |-> delta])
    PROVE  AllKnow'
<1>1. PICK r : r = [op |-> "pick", phase |-> "write", ord |-> o, limit |-> Limits(o),
                    delta |-> delta]
  OBVIOUS
<1>2. r.op = "pick" /\ r.ord = o /\ r.limit = Limits(o)
  BY <1>1
<1>3. Limits(o)' = Limits(o)
  BY SameLimits
<1>4. KnowsOrder(r)'
  <2>1. Limits(r.ord)' = r.limit
    BY <1>2, <1>3
  <2>2. QED
    BY <1>2, <2>1 DEF KnowsOrder
<1>5. QED
  BY <1>1, <1>4, KnowsWhenAlone

LEMMA KnowsOther ==
    ASSUME Alone, Typed, NEW s \in Slots, NEW r, Continue(s, r),
           \/ r.op \notin KnowingOps
           \/ r.op = "status" /\ r.phase = "lock"
           \/ r.op = "complete" /\ r.phase = "read"
    PROVE  AllKnow'
<1>1. KnowsOrder(r)'
  BY DEF KnowsOrder, KnowingOps
<1>2. QED
  BY <1>1, KnowsWhenAlone

LEMMA KnowsEnd ==
    ASSUME Alone, Typed, NEW s \in Slots, Finish(s) PROVE AllKnow'
<1>1. Idle.op \notin KnowingOps
  BY DEF Idle, KnowingOps
<1>2. QED
  BY <1>1, KnowsOther DEF Finish

LEMMA KnowsAtOnce ==
    ASSUME Alone, NEW s \in Slots, NEW e, Starts(s, e), UNCHANGED req PROVE AllKnow'
<1>1. ASSUME NEW z \in Slots PROVE KnowsOrder(req[z])'
  <2>1. req'[z] = Idle
    BY DEF Starts, Alone
  <2>2. req'[z].op \notin KnowingOps
    BY <2>1 DEF Idle, KnowingOps
  <2>3. QED
    BY <2>2 DEF KnowsOrder, KnowingOps
<1>2. QED
  BY <1>1 DEF AllKnow

LEMMA KnowsSame ==
    ASSUME AllKnow, UNCHANGED vars PROVE AllKnow'
<1>1. ASSUME NEW r, KnowsOrder(r) PROVE KnowsOrder(r)'
  <2>1. UNCHANGED tables
    BY DEF vars, tables
  <2>2. Limits(r.ord)' = Limits(r.ord)
    BY <2>1, SameLimits
  <2>3. QED
    BY <1>1, <2>1, <2>2 DEF tables, KnowsOrder, Active, MovingFor
<1>2. UNCHANGED req
  BY DEF vars
<1>3. QED
  BY <1>1, <1>2 DEF AllKnow

LEMMA WarehouseKnows ==
    ASSUME Alone, WarehouseNext PROVE AllKnow'
<1>1. PICK s \in Slots :
        \/ \E i \in Inventories : CreateMovement(s, i) \/ CreateReservation(s, i)
        \/ ReconcileReservedStock(s)
        \/ CreateStockTransfer(s)
        \/ \E t \in XferIds : \/ DispatchStockTransfer(s, t)
                              \/ ReceiveStockTransfer(s, t)
                              \/ CancelStockTransfer(s, t)
  BY DEF WarehouseNext
<1>2. UNCHANGED req /\ \E e : Starts(s, e)
  BY <1>1 DEF CreateMovement, CreateReservation, ReconcileReservedStock,
     CreateStockTransfer, DispatchStockTransfer, ReceiveStockTransfer, CancelStockTransfer
<1>3. QED
  BY <1>2, KnowsAtOnce

\* The units that a release takes are reserved for its line.
LEMMA ReleaseKnows ==
    ASSUME Alone, Typed, NEW s \in Slots, NEW l \in Lines, NEW store, ReleaseRead(s, l, store)
    PROVE  AllKnow'
<1>1. PICK R : R = Releasable(l, store)
  OBVIOUS
<1>2. /\ R \subseteq ResIds
      /\ \A r \in R : /\ res[r].line \in {Null, l} /\ res[r].ord = LineOrder[l]
                      /\ res[r].inv[2] = LineVariant[l]
  BY <1>1 DEF Releasable, Active
<1> DEFINE before(r) == Total({p \in R : Sooner(l, p, r)}, Quantities)
           take(n) == [r \in R |-> Least(res[r].qty, Greatest(0, n - before(r)))]
           kept(n) == {p \in R : take(n)[p] > 0}
           q(n) == [op |-> "release", phase |-> "write", line |-> l,
                    take |-> [x \in kept(n) |-> take(n)[x]],
                    left |-> [x \in kept(n) |-> res[x].qty - take(n)[x]]]
<1>3. PICK n \in 1..line[l].reserved : Continue(s, q(n))
  BY <1>1 DEF ReleaseRead
<1>4. PICK K : K = kept(n)
  OBVIOUS
<1>5. PICK t : t = [x \in K |-> take(n)[x]]
  OBVIOUS
<1>6. PICK b : b = [r \in R |-> before(r)]
  OBVIOUS
<1>7. K \subseteq R
  BY <1>4
<1>8. n \in Nat /\ n <= line[l].reserved /\ line[l].reserved \in Int
  BY LineType
<1>9. \A r \in R : b[r] = Total({p \in R : Sooner(l, p, r)}, Quantities)
  BY <1>6
<1>10. \A r \in K : t[r] = Least(res[r].qty, Greatest(0, n - b[r]))
  <2>1. ASSUME NEW r \in K PROVE t[r] = Least(res[r].qty, Greatest(0, n - b[r]))
    <3>1. r \in R /\ b[r] = before(r) /\ t[r] = take(n)[r]
      BY <1>5, <1>6, <1>7
    <3> HIDE DEF before
    <3>2. take(n)[r] = Least(res[r].qty, Greatest(0, n - before(r)))
      BY <3>1
    <3>3. QED
      BY <3>1, <3>2
  <2>2. QED
    BY <2>1
<1>11. Total(K, t) <= n
  <2>1. TakesInTurn(l, R, n, t, b, K)
    BY <1>2, <1>7, <1>8, <1>9, <1>10 DEF TakesInTurn
  <2>2. QED
    BY <2>1, TakesAtMost
<1>12. PICK r : r = q(n)
  OBVIOUS
<1> HIDE DEF take
<1>13. r.op = "release" /\ r.line = l /\ r.take = t /\ DOMAIN r.take = K /\ Continue(s, r)
  BY <1>3, <1>4, <1>5, <1>12
<1> HIDE DEF q, kept, before
<1>14. UNCHANGED tables /\ line[l].qty > 0 /\ ord[LineOrder[l]].status # "DELIVERED"
  BY DEF ReleaseRead, LinesOf
<1>15. Total(K, t) <= line[l].reserved
  <2>1. Total(K, t) \in Nat
    <3>1. \A x \in K : t[x] \in Int
      <4>1. ASSUME NEW x \in K PROVE t[x] \in Int
        <5>1. x \in ResIds /\ x \in R
          BY <1>2, <1>7
        <5>2. res[x].qty \in Nat
          BY <5>1, Quantity
        <5>3. b[x] \in Nat
          <6>1. {p \in R : Sooner(l, p, x)} \subseteq ResIds
            BY <1>2
          <6>2. Summed({p \in R : Sooner(l, p, x)}, Quantities)
            BY <6>1, QuantitiesSummed
          <6>3. QED
            BY <1>9, <5>1, <6>2, TotalNat
        <5>4. t[x] = Least(res[x].qty, Greatest(0, n - b[x]))
          BY <1>10
        <5>5. QED
          BY <1>8, <5>2, <5>3, <5>4 DEF Least, Greatest
      <4>2. QED
        BY <4>1
    <3>2. IsFiniteSet(K)
      BY <1>2, <1>7, ReservationsAreFinite
    <3>3. QED
      BY <3>1, <3>2, TotalIsNat
  <2>2. QED
    BY <1>8, <1>11, <2>1
<1>16. KnowsOrder(r)'
  <2>1. \A k \in DOMAIN r.take : res[k].ord = LineOrder[l] /\ res[k].inv[2] = LineVariant[l]
    BY <1>2, <1>7, <1>13
  <2>2. QED
    BY <1>13, <1>14, <1>15, <2>1 DEF KnowsOrder, tables
<1>17. QED
  BY <1>13, <1>16, KnowsWhenAlone

LEMMA LinesKnow ==
    ASSUME Alone, Typed, NEW s \in Slots, LineNext(s) PROVE AllKnow'
<1>1. ASSUME NEW l \in Lines, NEW store \in Stores, ReserveRead(s, l, store) PROVE AllKnow'
  <2>1. line[l].qty > 0 /\ UNCHANGED tables
    BY <1>1 DEF ReserveRead, LinesOf
  <2>2. PICK q, p, f :
          Continue(s, [op |-> "reserve", phase |-> "write", line |-> l, store |-> store, qty |-> q,
                       partial |-> p, fulfil |-> f])
    BY <1>1 DEF ReserveRead
  <2>3. PICK r : r = [op |-> "reserve", phase |-> "write", line |-> l, store |-> store, qty |-> q,
                      partial |-> p, fulfil |-> f]
    OBVIOUS
  <2>4. r.op = "reserve" /\ r.line = l /\ Continue(s, r)
    BY <2>2, <2>3
  <2>5. KnowsOrder(r)'
    BY <2>1, <2>4 DEF KnowsOrder, tables
  <2>6. QED
    BY <2>4, <2>5, KnowsWhenAlone
<1>2. ASSUME NEW l \in Lines, NEW store \in Stores \union {Null}, ReleaseRead(s, l, store)
      PROVE  AllKnow'
  BY <1>2, ReleaseKnows
<1>3. ASSUME NEW l \in Lines, ShortageRead(s, l) PROVE AllKnow'
  BY <1>3, KnowsOther DEF ShortageRead, KnowingOps
<1>4. CASE ReserveWrite(s) \/ ReleaseWrite(s) \/ ShortageWrite(s)
  BY <1>4, KnowsEnd DEF ReserveWrite, ReleaseWrite, ShortageWrite
<1>5. ASSUME NEW o \in Orders, RegisterOrderReturn(s, o) PROVE AllKnow'
  BY <1>5, KnowsAtOnce DEF RegisterOrderReturn
<1>6. QED
  BY <1>1, <1>2, <1>3, <1>4, <1>5 DEF LineNext

LEMMA PickingKnows ==
    ASSUME Alone, Typed, NEW s \in Slots, PickingNext(s) PROVE AllKnow'
<1>1. ASSUME NEW r, Continue(s, r), r.op \notin KnowingOps PROVE AllKnow'
  BY <1>1, KnowsOther
<1>2. ASSUME NEW o \in Orders, StartPickingRead(s, o) PROVE AllKnow'
  BY <1>1, <1>2 DEF StartPickingRead, KnowingOps
<1>3. ASSUME NEW o \in Orders, PickAllRead(s, o) PROVE AllKnow'
  BY <1>3, KnowsPick DEF PickAllRead
<1>4. ASSUME NEW o \in Orders, CompletePickingRead(s, o) PROVE AllKnow'
  <2>1. PICK r : r = [op |-> "complete", phase |-> "write", ord |-> o]
    OBVIOUS
  <2>2. Continue(s, r) /\ UNCHANGED tables /\ MovingFor(o) = {}
    BY <2>1, <1>4 DEF CompletePickingRead
  <2>3. r.op = "complete" /\ r.ord = o
    BY <2>1
  <2>4. KnowsOrder(r)'
    BY <2>2, <2>3 DEF KnowsOrder, MovingFor, tables
  <2>5. QED
    BY <2>2, <2>4, KnowsWhenAlone
<1>5. ASSUME NEW l \in Lines, PickLineRead(s, l) PROVE AllKnow'
  BY <1>5, KnowsPick DEF PickLineRead
<1>6. ASSUME NEW o \in Orders, NEW store \in Stores, TaskRead(s, o, store) PROVE AllKnow'
  BY <1>1, <1>6 DEF TaskRead, KnowingOps
<1>7. ASSUME NEW o \in Orders, CompletePacking(s, o) PROVE AllKnow'
  BY <1>7, KnowsAtOnce DEF CompletePacking
<1>8. CASE CountOpenPickingTasks(s)
  <2>1. PICK r : r = [op |-> "complete", phase |-> "read", ord |-> req[s].ord]
    OBVIOUS
  <2>2. Finish(s) \/ Continue(s, r)
    BY <1>8, <2>1 DEF CountOpenPickingTasks
  <2>3. r.op = "complete" /\ r.phase = "read"
    BY <2>1
  <2>4. QED
    BY <2>2, <2>3, KnowsEnd, KnowsOther
<1>9. CASE StartPickingSession(s) \/ PickWrite(s) \/ SyncRead(s) \/ FinishPickingTask(s)
  BY <1>1, <1>9 DEF StartPickingSession, PickWrite, SyncRead, FinishPickingTask, KnowingOps
<1>10. CASE StartPickingStatus(s) \/ SyncWrite(s) \/ CompletePickingWrite(s)
  BY <1>10, KnowsEnd DEF StartPickingStatus, SyncWrite, CompletePickingWrite
<1>11. QED
  BY <1>2, <1>3, <1>4, <1>5, <1>6, <1>7, <1>8, <1>9, <1>10 DEF PickingNext

LEMMA StatusKnows ==
    ASSUME Alone, Typed, NEW s \in Slots, StatusNext(s) PROVE AllKnow'
<1>1. ASSUME NEW o \in Orders, NEW target \in OrderStatus, UpdateStatusRead(s, o, target)
      PROVE  AllKnow'
  <2>1. PICK r : r = [op |-> "status", phase |-> "lock", ord |-> o, target |-> target,
                      seen |-> ord[o].status, stores |-> LineStores(o)]
    OBVIOUS
  <2>2. Continue(s, r) /\ r.op = "status" /\ r.phase = "lock"
    BY <1>1, <2>1 DEF UpdateStatusRead
  <2>3. QED
    BY <2>2, KnowsOther
<1>2. CASE UpdateStatusLock(s)
  <2>1. PICK r : r = [op |-> "status", phase |-> "commit", ord |-> req[s].ord,
                      target |-> req[s].target, seen |-> req[s].seen, stores |-> req[s].stores,
                      held |-> [k \in Active(req[s].ord) |-> res[k].qty],
                      picked |-> HasPicked(req[s].ord)]
    OBVIOUS
  <2>2. Continue(s, r) /\ UNCHANGED tables
    BY <1>2, <2>1 DEF UpdateStatusLock
  <2>3. r.op = "status" /\ r.ord = req[s].ord /\ r.held = [k \in Active(req[s].ord) |-> res[k].qty]
    BY <2>1
  <2>4. DOMAIN r.held = Active(r.ord) /\ \A k \in DOMAIN r.held : r.held[k] = res[k].qty
    BY <2>3
  <2>5. Active(r.ord)' = Active(r.ord)
    BY <2>2, <2>3 DEF Active, tables
  <2>6. KnowsOrder(r)'
    BY <2>2, <2>3, <2>4, <2>5 DEF KnowsOrder, tables
  <2>7. QED
    BY <2>2, <2>6, KnowsWhenAlone
<1>3. CASE Commits(s)
  BY <1>3, KnowsEnd DEF Commits, ConfirmOrder, CancelOrder, CompleteReturn, DeliverOrder, MoveOrder
<1>4. QED
  BY <1>1, <1>2, <1>3 DEF StatusNext, Commits

LEMMA NextKnows ==
    ASSUME Alone, Typed, AllKnow, [Next]_vars PROVE AllKnow'
<1>1. ASSUME NEW s \in Slots, DeskNext(s) \/ CreateOrderReview(s) PROVE AllKnow'
  <2>1. ASSUME NEW o \in Orders, CreateMarketplaceOrder(s, o) PROVE AllKnow'
    BY <2>1, KnowsOther DEF CreateMarketplaceOrder, KnowingOps
  <2>2. ASSUME NEW o \in Orders, CreateOrder(s, o) PROVE AllKnow'
    BY <2>2, KnowsAtOnce DEF CreateOrder
  <2>3. CASE CreateOrderReview(s)
    BY <2>3, KnowsEnd DEF CreateOrderReview
  <2>4. QED
    BY <1>1, <2>1, <2>2, <2>3 DEF DeskNext
<1>2. ASSUME NEW s \in Slots, Abort(s) PROVE AllKnow'
  BY <1>2, KnowsEnd DEF Abort
<1>3. QED
  BY <1>1, <1>2, WarehouseKnows, LinesKnow, PickingKnows, StatusKnows, KnowsSame DEF Next

LEMMA AlwaysKnow ==
    ASSUME Alone PROVE Spec => []AllKnow
<1>1. Init => AllKnow
  BY DEF Init, AllKnow, KnowsOrder, Idle
<1>2. Typed /\ AllKnow /\ [Next]_vars => AllKnow'
  BY NextKnows
<1>3. QED
  BY <1>1, <1>2, AlwaysTyped, PTL DEF Spec

-----------------------------------------------------------------------------
(* Every step, by what it does to lines, reservations and transfers.         *)

LinesRest == \A l \in Lines : line'[l].qty = line[l].qty /\ line'[l].reserved = line[l].reserved
StockRests == \A i \in Inventories : inv'[i].stock = inv[i].stock

\* Units enter and leave the warehouse with orders and transfers only.
Sealed == {"movement", "return"} \intersect Endpoints = {}
Calm == LinesRest /\ UNCHANGED <<res, xfer>> /\ (Sealed => StockRests)

\* A commit that settles what is held for its order.
Settles(s) == CompleteReturn(s) \/ DeliverOrder(s) \/ (CancelOrder(s) /\ ~req[s].picked)

StepKind ==
    \/ Calm
    \/ \E s \in Slots, o \in Orders : CreateOrder(s, o) \/ CreateMarketplaceOrder(s, o)
    \/ \E s \in Slots : ReserveWrite(s) \/ ReleaseWrite(s)
    \/ \E s \in Slots : Settles(s)
    \/ \E s \in Slots : ConfirmOrder(s) \/ CreateStockTransfer(s)
    \/ \E s \in Slots, t \in XferIds : \/ DispatchStockTransfer(s, t)
                                       \/ ReceiveStockTransfer(s, t)
                                       \/ CancelStockTransfer(s, t)

LEMMA CalmWarehouse ==
    ASSUME Typed, NEW s \in Slots,
           (\E i \in Inventories : CreateMovement(s, i)) \/ ReconcileReservedStock(s)
    PROVE  Calm
<1>1. CASE \E i \in Inventories : CreateMovement(s, i)
  BY <1>1 DEF CreateMovement, Starts, Calm, LinesRest, Sealed
<1>2. CASE ReconcileReservedStock(s)
  <2>1. PICK S : inv' = [i \in Inventories |->
                     IF i \in S THEN [inv[i] EXCEPT !.reserved = Total(ActiveOn(i), Quantities)]
                     ELSE inv[i]]
    BY <1>2 DEF ReconcileReservedStock
  <2>2. ASSUME NEW i \in Inventories PROVE inv'[i].stock = inv[i].stock
    <3>1. \E n : inv'[i] = inv[i] \/ inv'[i] = [inv[i] EXCEPT !.reserved = n]
      BY <2>1
    <3>2. QED
      BY <3>1, InventoryType DEF InventoryRow
  <2>3. QED
    BY <1>2, <2>2 DEF ReconcileReservedStock, Calm, LinesRest, StockRests
<1>3. QED
  BY <1>1, <1>2

LEMMA CalmLines ==
    ASSUME Typed, NEW s \in Slots, ShortageWrite(s) \/ \E o \in Orders : RegisterOrderReturn(s, o)
    PROVE  Calm
<1>1. CASE ShortageWrite(s)
  <2>1. \E k, n : line' = [line EXCEPT ![k].shortage = n]
    BY <1>1 DEF ShortageWrite
  <2>2. LinesRest
    BY <2>1, LineType DEF LinesRest, LineRow, Typed, TypeOK
  <2>3. QED
    BY <1>1, <2>2 DEF ShortageWrite, Calm, StockRests
<1>2. ASSUME NEW o \in Orders, RegisterOrderReturn(s, o) PROVE Calm
  <2>1. PICK L \in (SUBSET LinesOf(o)) \ {{}} : \E q \in [L -> 1..MaxQty] :
           line' = [k \in Lines |-> IF k \in L
                                    THEN [line[k] EXCEPT !.returned = line[k].returned + q[k]]
                                    ELSE line[k]]
    BY <1>2 DEF RegisterOrderReturn
  <2>2. ASSUME NEW l \in Lines
        PROVE  line'[l].qty = line[l].qty /\ line'[l].reserved = line[l].reserved
    <3>1. \E n : line'[l] = line[l] \/ line'[l] = [line[l] EXCEPT !.returned = n]
      BY <2>1
    <3>2. QED
      BY <3>1, LineType DEF LineRow
  <2>3. QED
    BY <1>2, <2>2 DEF RegisterOrderReturn, Starts, Calm, LinesRest, Sealed
<1>3. QED
  BY <1>1, <1>2

LEMMA CalmPicking ==
    ASSUME Typed, NEW s \in Slots, PickingNext(s) PROVE Calm
<1>1. UNCHANGED <<res, xfer>>
  BY DEF PickingNext, StartPickingRead, PickAllRead, CompletePickingRead, PickLineRead,
     StartPickingSession, StartPickingStatus, PickWrite, SyncRead, SyncWrite, CompletePickingWrite,
     FinishPickingTask, CountOpenPickingTasks, TaskRead, CompletePacking, tables
<1>2. ASSUME NEW l \in Lines
      PROVE  line'[l].qty = line[l].qty /\ line'[l].reserved = line[l].reserved
  <2>1. line'[l] = line[l] \/ \E n : line'[l] = [line[l] EXCEPT !.picked = n]
    BY PickingWritesPicked
  <2>2. QED
    BY <2>1, LineType DEF LineRow
<1>3. UNCHANGED inv
  BY PickingWritesPicked
<1>4. QED
  BY <1>1, <1>2, <1>3 DEF Calm, LinesRest, StockRests

LEMMA Still ==
    ASSUME UNCHANGED <<inv, line, res, xfer>> PROVE Calm
BY DEF Calm, LinesRest, StockRests

LEMMA StepKinds ==
    ASSUME Typed, "reservation" \notin Endpoints, [Next]_vars PROVE StepKind
<1>1. CASE WarehouseNext
  <2>1. PICK s \in Slots :
        \/ \E i \in Inventories : CreateMovement(s, i) \/ CreateReservation(s, i)
        \/ ReconcileReservedStock(s)
        \/ CreateStockTransfer(s)
        \/ \E t \in XferIds : \/ DispatchStockTransfer(s, t)
                              \/ ReceiveStockTransfer(s, t)
                              \/ CancelStockTransfer(s, t)
    BY <1>1 DEF WarehouseNext
  <2>2. \A i \in Inventories : ~CreateReservation(s, i)
    BY DEF CreateReservation, Starts
  <2>3. QED
    BY <2>1, <2>2, CalmWarehouse DEF StepKind
<1>2. ASSUME NEW s \in Slots, DeskNext(s) \/ CreateOrderReview(s) PROVE StepKind
  BY <1>2, Still DEF StepKind, DeskNext, CreateOrderReview
<1>3. ASSUME NEW s \in Slots, StatusNext(s) PROVE StepKind
  <2>1. CASE CancelOrder(s) /\ req[s].picked
    BY <2>1, Still DEF CancelOrder, StepKind
  <2>2. CASE MoveOrder(s) \/ UpdateStatusLock(s)
    BY <2>2, Still DEF MoveOrder, UpdateStatusLock, tables, StepKind
  <2>3. CASE \E o \in Orders, target \in OrderStatus : UpdateStatusRead(s, o, target)
    BY <2>3, Still DEF UpdateStatusRead, tables, StepKind
  <2>4. QED
    BY <1>3, <2>1, <2>2, <2>3 DEF StatusNext, StepKind, Settles
<1>4. ASSUME NEW s \in Slots, LineNext(s) PROVE StepKind
  <2>1. CASE \E l \in Lines :
                \/ \E store \in Stores : ReserveRead(s, l, store)
                \/ \E store \in Stores \union {Null} : ReleaseRead(s, l, store)
                \/ ShortageRead(s, l)
    BY <2>1, Still DEF ReserveRead, ReleaseRead, ShortageRead, tables, StepKind
  <2>2. QED
    BY <1>4, <2>1, CalmLines DEF LineNext, StepKind
<1>5. ASSUME NEW s \in Slots, PickingNext(s) PROVE StepKind
  BY <1>5, CalmPicking DEF StepKind
<1>6. ASSUME NEW s \in Slots, Abort(s) PROVE StepKind
  BY <1>6, Still DEF Abort, tables, StepKind
<1>7. CASE UNCHANGED vars
  BY <1>7, Still DEF vars, StepKind
<1>8. QED
  BY <1>1, <1>2, <1>3, <1>4, <1>5, <1>6, <1>7 DEF Next

-----------------------------------------------------------------------------
(* What the new reservations of a step are, and what they hold.              *)

\* The reservations of an order that a step makes, one for each member k of S,
\* hold f[k] units of the inventory place[k] for the line anchor[k].
Gains(o, S, place, f, anchor) ==
    /\ \A p, v : HeldFor(p, v)' = HeldFor(p, v) + IF p = o THEN Total({k \in S : place[k][2] = v}, f)
                                                  ELSE 0
    /\ \A r \in ResIds : res'[r].status = "ACTIVE" =>
          \/ res'[r] = res[r]
          \/ res'[r].ord = o /\ \E k \in S : res'[r].inv = place[k] /\ res'[r].line = anchor[k]

LEMMA MadeHeld ==
    ASSUME Typed, ReservationsNumbered, NEW rows, NEW new, NEW S, NEW place, NEW f,
           MadeOf(rows, new, S, place, f), res' = Inserted(rows),
           NEW o, \A r \in DOMAIN new : rows[r].ord = o, NEW p, NEW v
    PROVE  NewHeld(DOMAIN new, p, v)' = IF p = o THEN Total({k \in S : place[k][2] = v}, f) ELSE 0
<1>0. /\ S \subseteq Nat /\ Summed(S, f) /\ IsFiniteSet(S) /\ new \in NewReservations(S)
      /\ \A r \in DOMAIN new : rows[r].inv = place[new[r]] /\ rows[r].qty = f[new[r]]
  BY DEF MadeOf, Summed
<1>1. new \in Bijection(DOMAIN new, S)
  BY <1>0, Inserts
<1>2. /\ \A r \in DOMAIN new : new[r] \in S
      /\ \A r \in DOMAIN new, q \in DOMAIN new : new[r] = new[q] => r = q
      /\ \A k \in S : \E r \in DOMAIN new : new[r] = k
  BY <1>1 DEF Bijection, Injection, Surjection, IsInjective
<1>3. \A r \in DOMAIN new : r \in ResIds /\ res'[r] = rows[r]
  <2>1. /\ Grown(DOMAIN new) /\ \A r \in DOMAIN new : res'[r] = rows[r]
    BY InsertedRows
  <2>2. QED
    BY <2>1 DEF Grown, NextIds
<1>4. PICK D, T, now : /\ D = {r \in DOMAIN new : res'[r].ord = p /\ res'[r].inv[2] = v}
                       /\ T = {k \in S : place[k][2] = v} /\ now = Quantities'
  OBVIOUS
<1>5. NewHeld(DOMAIN new, p, v)' = Total(D, now)
  BY <1>4 DEF NewHeld
<1>6. CASE p # o
  <2>1. D = {}
    BY <1>3, <1>4, <1>6
  <2>2. QED
    BY <1>5, <1>6, <2>1, TotalEmpty, Zenon
<1>7. CASE p = o
  <2> DEFINE b == [r \in D |-> new[r]]
  <2>1. D \subseteq DOMAIN new /\ T \subseteq S
    BY <1>4
  <2>2. \A r \in DOMAIN new : r \in D <=> new[r] \in T
    BY <1>0, <1>2, <1>3, <1>4, <1>7
  <2>3. b \in [D -> T]
    BY <2>1, <2>2
  <2>4. \A r \in D, q \in D : b[r] = b[q] => r = q
    BY <1>2, <2>1
  <2>5. ASSUME NEW k \in T PROVE \E r \in D : b[r] = k
    <3>1. PICK r \in DOMAIN new : new[r] = k
      BY <1>2, <2>1
    <3>2. QED
      BY <2>2, <3>1
  <2>6. b \in Bijection(D, T)
    <3> HIDE DEF b
    <3>1. b \in Injection(D, T)
      BY <2>3, <2>4 DEF Injection, IsInjective
    <3>2. b \in Surjection(D, T)
      BY <2>3, <2>5 DEF Surjection
    <3>3. QED
      BY <3>1, <3>2 DEF Bijection
  <2>7. \A r \in D : now[r] = f[b[r]]
    BY <1>0, <1>3, <1>4, <2>1 DEF Quantities
  <2>8. Summed(T, f)
    BY <1>0, <2>1, TotalPart
  <2> HIDE DEF b
  <2>9. Total(D, now) = Total(T, f)
    BY <2>6, <2>7, <2>8, TotalRenamed
  <2>10. QED
    BY <1>4, <1>5, <1>7, <2>9
<1>8. QED
  BY <1>6, <1>7

LEMMA Gained ==
    ASSUME Typed, Typed', ReservationsNumbered, NEW rows, NEW new, NEW S, NEW place, NEW f, NEW anchor,
           MadeOf(rows, new, S, place, f), res' = Inserted(rows),
           NEW o, \A r \in DOMAIN new : rows[r].ord = o, \A r \in DOMAIN new : rows[r].line = anchor[new[r]]
    PROVE  Gains(o, S, place, f, anchor)
<1>1. /\ Grown(DOMAIN new)
      /\ \A r \in DOMAIN new : new[r] \in S /\ res'[r] = rows[r]
  BY InsertedRows
<1>2. ASSUME NEW p, NEW v
      PROVE  HeldFor(p, v)' = HeldFor(p, v) + IF p = o THEN Total({k \in S : place[k][2] = v}, f)
                                              ELSE 0
  BY <1>1, HeldGrows, MadeHeld
<1>3. ASSUME NEW r \in ResIds, res'[r].status = "ACTIVE"
      PROVE  \/ res'[r] = res[r]
             \/ res'[r].ord = o /\ \E k \in S : res'[r].inv = place[k] /\ res'[r].line = anchor[k]
  <2>1. CASE r \in DOMAIN new
    <3>1. res'[r].inv = place[new[r]] /\ res'[r].ord = o /\ res'[r].line = anchor[new[r]] /\ new[r] \in S
      BY <1>1, <2>1 DEF MadeOf
    <3>2. QED
      BY <3>1
  <2>2. CASE r \notin DOMAIN new
    BY <1>1, <2>2 DEF Grown
  <2>3. QED
    BY <2>1, <2>2
<1>4. QED
  BY <1>2, <1>3 DEF Gains

\* Reservations that end or shrink stay what they were.
Loses(G, take) ==
    /\ Shrunk(G, take)
    /\ \A r \in ResIds : res'[r].line = res[r].line

-----------------------------------------------------------------------------
(* New orders.                                                               *)

\* An order is placed with the lines L and what is ordered of each.
Ordered(o, L, q) ==
    /\ ~Placed(o) /\ Placed(o)' /\ \A p \in Orders \ {o} : ord'[p] = ord[p]
    /\ L \subseteq Lines
    /\ \A l \in L : /\ LineOrder[l] = o /\ q[l] \in Nat /\ q[l] > 0 /\ line'[l].qty = q[l]
                    /\ line'[l].picked <= line'[l].reserved /\ line'[l].returned = 0
    /\ \A l \in Lines \ L : line'[l] = line[l]

\* It is sold at once, out of the inventories at ...
Sells(o, L, q, at) ==
    /\ Ordered(o, L, q) /\ ord'[o].status = "DELIVERED" /\ UNCHANGED <<res, xfer>>
    /\ \A l \in L : line'[l].reserved = q[l] /\ at[l] \in Inventories /\ at[l][2] = LineVariant[l]
    /\ \A i \in Inventories : inv'[i].stock = inv[i].stock - PerLine(L, at, q)[i]

\* ... or got[l] units are reserved for each line.
Promises(o, L, q, got, at, anchor) ==
    /\ Ordered(o, L, q) /\ ord'[o].status \in {"WAITING_TRANSFER", "PENDING"} /\ StockRests
    /\ \A l \in L : /\ line'[l].reserved = got[l] /\ got[l] \in Nat
                    /\ at[l] \in Inventories /\ at[l][2] = LineVariant[l]
                    /\ anchor[l] = l \/ (anchor[l] = Null /\ at[l][1] = ord'[o].source)
    /\ Gains(o, {l \in L : got[l] > 0}, at, got, anchor)
    /\ UNCHANGED xfer \/ EnsureRemoteTransfers(res', o, ord'[o].source)

LEMMA NewOrderRows ==
    ASSUME Typed, NEW o \in Orders, NEW status, NEW channel, NEW source, NEW fulfil,
           ord' = [ord EXCEPT ![o] = [NoOrder EXCEPT !.status = status, !.channel = channel,
                                                     !.source = source, !.fulfil = fulfil]]
    PROVE  /\ ord'[o].status = status /\ ord'[o].source = source
           /\ \A p \in Orders \ {o} : ord'[p] = ord[p]
BY DEF Typed, TypeOK, NoOrder

LEMMA NoNewReservations ==
    ASSUME Typed, ReservationsNumbered, NEW new \in NewReservations({}), NEW rows,
           DOMAIN rows = DOMAIN new, res' = Inserted(rows)
    PROVE  UNCHANGED res
<1>1. new \in Bijection(DOMAIN new, {})
  <2>1. {} \subseteq Nat /\ IsFiniteSet({})
    BY FS_EmptySet
  <2>2. QED
    BY <2>1, Inserts
<1>2. DOMAIN new = {}
  <2>1. new \in [DOMAIN new -> {}]
    BY <1>1 DEF Bijection, Injection
  <2>2. QED
    BY <2>1
<1>3. \A r \in ResIds : res'[r] = res[r]
  BY <1>2 DEF Inserted
<1>4. res' = [r \in ResIds |-> res'[r]] /\ res = [r \in ResIds |-> res[r]]
  BY DEF Inserted, Typed, TypeOK
<1>5. QED
  BY <1>3, <1>4

LEMMA CreateOrderDoes ==
    ASSUME Typed, Typed', ReservationsNumbered, NEW s \in Slots, NEW o \in Orders, CreateOrder(s, o)
    PROVE  \E L, q, at : Sells(o, L, q, at) \/ \E anchor : Promises(o, L, q, q, at, anchor)
<1>1. PICK channel \in {"POS", "INTERNAL"}, source \in Stores,
           L \in (SUBSET {l \in Lines : LineOrder[l] = o}) \ {{}} :
        \E q \in [L -> 1..MaxQty], store \in [L -> Stores], chosen \in Stores \union {Null} :
            PlaceOrder(o, channel, source, L, q, store, chosen)
  BY DEF CreateOrder
<1>2. PICK q \in [L -> 1..MaxQty], store \in [L -> Stores], chosen \in Stores \union {Null} :
            PlaceOrder(o, channel, source, L, q, store, chosen)
  BY <1>1
<1> DEFINE remote == {store[l] : l \in L} # {source}
           direct == channel = "POS" /\ ~remote
           at == [l \in L |-> <<store[l], LineVariant[l]>>]
           asked == PerLine(L, at, q)
<1>3. asked = PerLine(L, at, q)
  OBVIOUS
<1>4. /\ inv' = IF direct THEN Booked(Minus(asked), Nothing) ELSE Booked(Nothing, asked)
      /\ \E new \in NewReservations(IF direct THEN {} ELSE L) :
           res' = Inserted([r \in DOMAIN new |-> Reservation(o, new[r], at[new[r]], q[new[r]])])
      /\ line' = [l \in Lines |->
                      IF l \in L
                      THEN [NoLine EXCEPT !.qty = q[l], !.reserved = q[l], !.store = store[l],
                                          !.picked = IF direct THEN q[l] ELSE 0]
                      ELSE line[l]]
      /\ IF remote THEN EnsureRemoteTransfers(res', o, source) ELSE UNCHANGED xfer
  BY <1>2 DEF PlaceOrder
<1>5. /\ Placed(o)' /\ \A p \in Orders \ {o} : ord'[p] = ord[p]
      /\ ord'[o].source = source
      /\ direct => ord'[o].status = "DELIVERED"
      /\ ~direct => ord'[o].status \in {"WAITING_TRANSFER", "PENDING"}
  <2>1. PICK status \in {"DELIVERED", "WAITING_TRANSFER", "PENDING"} : \E row :
          /\ ord' = [ord EXCEPT ![o] = [NoOrder EXCEPT !.status = status, !.channel = channel,
                                                      !.source = source, !.fulfil = row]]
          /\ direct <=> status = "DELIVERED"
    BY <1>2 DEF PlaceOrder
  <2>2. ord'[o].status = status /\ ord'[o].source = source /\ \A p \in Orders \ {o} : ord'[p] = ord[p]
    BY <2>1 DEF Typed, TypeOK, NoOrder
  <2>3. QED
    BY <2>1, <2>2 DEF Placed
<1>6. L \subseteq Lines /\ \A l \in L : LineOrder[l] = o /\ q[l] \in Nat /\ q[l] > 0
  BY LineUnits
<1>7. \A l \in L : at[l] = <<store[l], LineVariant[l]>> /\ at[l] \in Inventories
  BY <1>6, LineType
<1>8. ASSUME NEW l \in L
      PROVE  /\ line'[l].qty = q[l] /\ line'[l].reserved = q[l] /\ line'[l].returned = 0
             /\ line'[l].picked <= line'[l].reserved
  <2>1. \E n \in {0, q[l]}, z \in Stores : line'[l] = [NoLine EXCEPT !.qty = q[l], !.reserved = q[l], !.store = z,
                                                         !.picked = n]
    BY <1>4, <1>6
  <2>2. QED
    BY <1>6, <2>1 DEF NoLine
<1>9. Ordered(o, L, q)
  <2>1. ~Placed(o)
    BY DEF CreateOrder
  <2>2. \A l \in Lines \ L : line'[l] = line[l]
    BY <1>4
  <2>3. QED
    BY <1>5, <1>6, <1>8, <2>1, <2>2 DEF Ordered
<1> HIDE DEF direct, at, asked, remote
<1>10. CASE direct
  <2>1. PICK new \in NewReservations({}) :
           res' = Inserted([r \in DOMAIN new |-> Reservation(o, new[r], at[new[r]], q[new[r]])])
    BY <1>4, <1>10
  <2>2. UNCHANGED res
    BY <2>1, NoNewReservations
  <2>3. UNCHANGED xfer
    BY <1>4, <1>10 DEF direct
  <2>4. \A i \in Inventories : inv'[i].stock = inv[i].stock - PerLine(L, at, q)[i]
    <3>1. ASSUME NEW i \in Inventories PROVE inv'[i].stock = inv[i].stock - PerLine(L, at, q)[i]
      <4>1. inv'[i].stock = inv[i].stock + Minus(asked)[i]
        BY <1>4, <1>10, BookedRows, Zenon
      <4>2. Minus(asked)[i] = -asked[i] /\ asked[i] \in Nat
        BY <1>3, LineUnits DEF Minus
      <4>3. QED
        BY <1>3, <4>1, <4>2, InventoryInts
    <3>2. QED
      BY <3>1
  <2>5. Sells(o, L, q, at)
    BY <1>5, <1>7, <1>8, <1>9, <1>10, <2>2, <2>3, <2>4 DEF Sells
  <2>6. QED
    BY <2>5
<1>11. CASE ~direct
  <2>1. PICK new \in NewReservations(L) :
           res' = Inserted([r \in DOMAIN new |-> Reservation(o, new[r], at[new[r]], q[new[r]])])
    BY <1>4, <1>11
  <2>2. PICK rows, anchor, S :
          /\ rows = [r \in DOMAIN new |-> Reservation(o, new[r], at[new[r]], q[new[r]])]
          /\ anchor = [l \in L |-> l] /\ S = {l \in L : q[l] > 0}
    OBVIOUS
  <2>3. L = S
    BY <1>6, <2>2
  <2>4. L \subseteq Nat /\ Summed(L, q)
    <3>1. L \subseteq Nat /\ IsFiniteSet(L)
      BY <1>6, LinesAreFinite, ErpAssumption
    <3>2. \A l \in L : q[l] \in Int
      BY LineUnits
    <3>3. QED
      BY <3>1, <3>2 DEF Summed
  <2>5. MadeOf(rows, new, L, at, q) /\ \A r \in DOMAIN new : rows[r].ord = o /\ rows[r].line = anchor[new[r]]
    <3>1. ASSUME NEW r \in DOMAIN new
          PROVE  /\ rows[r].status = "ACTIVE" /\ rows[r].ord = o /\ rows[r].line = anchor[new[r]]
                 /\ rows[r].inv = at[new[r]] /\ rows[r].qty = q[new[r]]
      <4>1. new[r] \in L
        BY NewReservationsType
      <4>2. QED
        BY <2>2, <4>1 DEF Reservation
    <3>2. DOMAIN rows = DOMAIN new
      BY <2>2
    <3>3. QED
      BY <2>4, <3>1, <3>2 DEF MadeOf
  <2>6. Gains(o, L, at, q, anchor)
    <3>1. res' = Inserted(rows)
      BY <2>1, <2>2
    <3>2. (\A r \in DOMAIN new : rows[r].ord = o) /\ \A r \in DOMAIN new : rows[r].line = anchor[new[r]]
      BY <2>5
    <3>3. QED
      BY <2>5, <3>1, <3>2, Gained
  <2>7. StockRests
    <3>1. ASSUME NEW i \in Inventories PROVE inv'[i].stock = inv[i].stock
      <4>0. inv' = Booked(Nothing, asked)
        BY <1>4, <1>11
      <4>1. inv'[i].stock = inv[i].stock + 0
        BY <4>0, BookedRows, NothingType
      <4>2. QED
        BY <4>1, InventoryInts
    <3>2. QED
      BY <3>1 DEF StockRests
  <2>8. UNCHANGED xfer \/ EnsureRemoteTransfers(res', o, ord'[o].source)
    BY <1>4, <1>5
  <2>9. \A l \in L : at[l][2] = LineVariant[l] /\ anchor[l] = l
    BY <1>7, <2>2
  <2>10. Gains(o, {l \in L : q[l] > 0}, at, q, anchor)
    BY <2>2, <2>3, <2>6
  <2>11. Promises(o, L, q, q, at, anchor)
    BY <1>5, <1>6, <1>7, <1>8, <1>9, <1>11, <2>7, <2>8, <2>9, <2>10 DEF Promises
  <2>12. QED
    BY <2>11
<1>12. QED
  BY <1>10, <1>11

LEMMA CheckoutDoes ==
    ASSUME Typed, Typed', ReservationsNumbered, NEW s \in Slots, NEW o \in Orders,
           CreateMarketplaceOrder(s, o)
    PROVE  \E L, q, got, at, anchor : Promises(o, L, q, got, at, anchor)
<1>1. PICK source \in Stores, L \in (SUBSET {l \in Lines : LineOrder[l] = o}) \ {{}},
           auto \in BOOLEAN :
        \E q \in [L -> 1..MaxQty] : PlaceMarketplaceOrder(o, source, L, q, auto)
  BY DEF CreateMarketplaceOrder
<1>2. PICK q \in [L -> 1..MaxQty] : PlaceMarketplaceOrder(o, source, L, q, auto)
  BY <1>1
<1> DEFINE at == [l \in L |-> <<source, LineVariant[l]>>]
           before(l) == Total({m \in L : m < l /\ LineVariant[m] = LineVariant[l]}, q)
           got == [l \in L |-> IF auto
                               THEN Least(q[l], Greatest(0, Available(at[l]) - before(l)))
                               ELSE 0]
           S == {l \in L : got[l] > 0}
<1>3. /\ inv' = Booked(Nothing, PerLine(L, at, got))
      /\ \E new \in NewReservations(S) :
           res' = Inserted([r \in DOMAIN new |-> Reservation(o, Null, at[new[r]], got[new[r]])])
      /\ line' = [l \in Lines |->
                      IF l \in L THEN [NoLine EXCEPT !.qty = q[l], !.reserved = got[l]]
                      ELSE line[l]]
      /\ ord' = [ord EXCEPT ![o] = [NoOrder EXCEPT !.status = "PENDING", !.channel = "ECOMMERCE",
                                                   !.source = source, !.fulfil = source]]
  BY <1>2 DEF PlaceMarketplaceOrder
<1>4. /\ L \subseteq Lines
      /\ \A l \in L : /\ q[l] \in Nat /\ q[l] \in Int /\ at[l] \in Inventories
                      /\ at[l] = <<source, LineVariant[l]>> /\ LineOrder[l] = o /\ q[l] > 0
  <2>1. L \subseteq Lines /\ \A l \in L : q[l] \in Nat /\ q[l] \in Int /\ LineOrder[l] = o /\ q[l] > 0
    BY LineUnits
  <2>2. QED
    BY <2>1, LineType
<1>5. ASSUME NEW l \in L PROVE got[l] \in Nat
  <2>1. before(l) \in Nat
    <3>1. IsFiniteSet({m \in L : m < l /\ LineVariant[m] = LineVariant[l]})
      BY <1>4, LinesAreFinite
    <3>2. QED
      BY <1>4, <3>1, TotalIsNat
  <2>2. Available(at[l]) \in Int
    BY <1>4, InventoryType
  <2>3. got[l] = IF auto THEN Least(q[l], Greatest(0, Available(at[l]) - before(l))) ELSE 0
    OBVIOUS
  <2> HIDE DEF before, at, got
  <2>4. QED
    BY <1>4, <2>1, <2>2, <2>3 DEF Least, Greatest
<1> HIDE DEF at, got
<1>6. S = {l \in L : got[l] > 0}
  OBVIOUS
<1> HIDE DEF S
<1>7. PICK new \in NewReservations(S) :
         res' = Inserted([r \in DOMAIN new |-> Reservation(o, Null, at[new[r]], got[new[r]])])
  BY <1>3
<1>8. PICK rows, anchor :
         /\ rows = [r \in DOMAIN new |-> Reservation(o, Null, at[new[r]], got[new[r]])]
         /\ anchor = [l \in L |-> Null]
  OBVIOUS
<1>9. S \subseteq Nat /\ S \subseteq L /\ Summed(S, got)
  <2>1. S \subseteq L /\ L \subseteq Lines /\ \A l \in L : got[l] \in Int
    BY <1>4, <1>5, <1>6
  <2>2. QED
    BY <2>1, LinesAreFinite, ErpAssumption DEF Summed
<1>10. /\ MadeOf(rows, new, S, at, got)
       /\ \A r \in DOMAIN new : rows[r].ord = o /\ rows[r].line = anchor[new[r]]
  <2>1. ASSUME NEW r \in DOMAIN new
        PROVE  /\ rows[r].status = "ACTIVE" /\ rows[r].ord = o /\ rows[r].line = anchor[new[r]]
               /\ rows[r].inv = at[new[r]] /\ rows[r].qty = got[new[r]]
    <3>1. new[r] \in L
      BY <1>9, NewReservationsType
    <3>2. QED
      BY <1>8, <3>1 DEF Reservation
  <2>2. DOMAIN rows = DOMAIN new
    BY <1>8
  <2>3. QED
    BY <1>7, <1>9, <2>1, <2>2 DEF MadeOf
<1>11. Gains(o, S, at, got, anchor)
  BY <1>7, <1>8, <1>10, Gained
<1>12. /\ ord'[o].status = "PENDING" /\ ord'[o].source = source
       /\ \A p \in Orders \ {o} : ord'[p] = ord[p]
  BY <1>3, NewOrderRows
<1>13. ASSUME NEW l \in L
       PROVE  /\ line'[l].qty = q[l] /\ line'[l].reserved = got[l] /\ line'[l].returned = 0
              /\ line'[l].picked <= line'[l].reserved
  <2>1. line'[l] = [NoLine EXCEPT !.qty = q[l], !.reserved = got[l]]
    BY <1>3, <1>4
  <2>2. got[l] \in Nat
    BY <1>5
  <2>3. QED
    BY <2>1, <2>2 DEF NoLine
<1>14. Ordered(o, L, q)
  <2>1. ~Placed(o)
    BY DEF CreateMarketplaceOrder
  <2>2. \A l \in Lines \ L : line'[l] = line[l]
    BY <1>3
  <2>3. QED
    BY <1>4, <1>12, <1>13, <2>1, <2>2 DEF Ordered, Placed
<1>15. StockRests
  <2>1. ASSUME NEW i \in Inventories PROVE inv'[i].stock = inv[i].stock
    <3>0. inv' = Booked(Nothing, PerLine(L, at, got))
      BY <1>3
    <3>1. inv'[i].stock = inv[i].stock + 0
      BY <3>0, BookedRows, NothingType
    <3>2. QED
      BY <3>1, InventoryInts
  <2>2. QED
    BY <2>1 DEF StockRests
<1>16. UNCHANGED xfer
  BY DEF CreateMarketplaceOrder
<1>17. \A l \in L : at[l][2] = LineVariant[l] /\ anchor[l] = Null /\ at[l][1] = ord'[o].source
  BY <1>4, <1>8, <1>12
<1>18. Gains(o, {l \in L : got[l] > 0}, at, got, anchor)
  BY <1>6, <1>11
<1>19. Promises(o, L, q, got, at, anchor)
  BY <1>4, <1>5, <1>12, <1>13, <1>14, <1>15, <1>16, <1>17, <1>18 DEF Promises
<1>20. QED
  BY <1>19

-----------------------------------------------------------------------------
(* Reserving and releasing.                                                  *)

\* A reservation of an order is one of a line of it: anchored to the line, or to
\* none and at the store of the order.
OfLine(r) ==
    \E l \in LinesOf(res[r].ord) :
        /\ LineVariant[l] = res[r].inv[2]
        /\ \/ res[r].line = l
           \/ res[r].line = Null /\ res[r].inv[1] = ord[res[r].ord].source

\* The reservations after a step are those of before, or of lines.
SameHolder(r) ==
    /\ res[r].status = "ACTIVE" /\ res'[r].ord = res[r].ord
    /\ res'[r].line = res[r].line /\ res'[r].inv = res[r].inv
Anchors ==
    \A r \in ResIds :
        res'[r].status = "ACTIVE" /\ res'[r].ord \in Orders => SameHolder(r) \/ OfLine(r)'

LEMMA LosingAnchors ==
    ASSUME NEW G, NEW take, Loses(G, take) PROVE Anchors
  BY DEF Loses, Shrunk, Anchors, SameHolder

LEMMA RestingAnchors ==
    ASSUME UNCHANGED res PROVE Anchors
  BY DEF Anchors, SameHolder

\* The line l and what is held for its order change by so much.
OtherLines(l) == \A m \in Lines \ {l} : line'[m] = line[m]
HeldChanges(l, n) ==
    \A p, v : HeldFor(p, v)' = HeldFor(p, v) + IF p = LineOrder[l] /\ v = LineVariant[l] THEN n ELSE 0
Reserves(l, take) ==
    /\ l \in Lines /\ take \in Nat /\ line[l].qty > 0 /\ OtherLines(l)
    /\ line'[l].reserved = line[l].reserved + take
    /\ line'[l].qty = line[l].qty /\ line'[l].picked = line[l].picked
    /\ line'[l].shortage = line[l].shortage /\ line'[l].returned = line[l].returned
    /\ HeldChanges(l, take) /\ Anchors
    /\ UNCHANGED xfer /\ StockRests

LEMMA ReserveWriteDoes ==
    ASSUME Typed, Typed', ReservationsNumbered, NEW s \in Slots, ReserveWrite(s), KnowsOrder(req[s])
    PROVE  \E take : Reserves(req[s].line, take)
<1>1. PICK l, o, i : l = req[s].line /\ o = LineOrder[l] /\ i = <<req[s].store, LineVariant[l]>>
  OBVIOUS
<1>2. PICK take : take = IF req[s].partial THEN Least(req[s].qty, Available(i)) ELSE req[s].qty
  OBVIOUS
<1>3. /\ take > 0 /\ req[s].op = "reserve"
      /\ inv' = [inv EXCEPT ![i].reserved = inv[i].reserved + take]
      /\ \E store : line' = [line EXCEPT ![l].reserved = line[l].reserved + take,
                                         ![l].store = store]
      /\ \E new \in NewReservations({l}) :
           res' = Inserted([r \in DOMAIN new |-> Reservation(o, l, i, take)])
      /\ ord' = [ord EXCEPT ![o].fulfil = req[s].store] \/ ord' = ord
      /\ UNCHANGED xfer
  BY <1>1, <1>2 DEF ReserveWrite, At
<1>4. l \in Lines /\ req[s].store \in Stores /\ req[s].qty \in Nat /\ o \in Orders /\ line[l].qty > 0
  BY <1>1, <1>3, RequestType, LineType DEF RequestOK, KnowsOrder
<1>5. i \in Inventories
  BY <1>1, <1>4, LineType
<1>6. take \in Nat
  BY <1>2, <1>3, <1>4, <1>5, InventoryType DEF Least
<1>7. PICK new \in NewReservations({l}) :
         res' = Inserted([r \in DOMAIN new |-> Reservation(o, l, i, take)])
  BY <1>3
<1>8. PICK rows, place, f, anchor :
         /\ rows = [r \in DOMAIN new |-> Reservation(o, l, i, take)]
         /\ place = [k \in {l} |-> i] /\ f = [k \in {l} |-> take] /\ anchor = [k \in {l} |-> l]
  OBVIOUS
<1>9. {l} \subseteq Nat /\ Summed({l}, f) /\ place[l] = i /\ f[l] = take /\ anchor[l] = l
  <2>1. IsFiniteSet({l})
    BY FS_Singleton
  <2>2. QED
    BY <1>4, <1>6, <1>8, <2>1, ErpAssumption DEF Summed
<1>10. /\ MadeOf(rows, new, {l}, place, f)
       /\ \A r \in DOMAIN new : rows[r].ord = o
       /\ \A r \in DOMAIN new : rows[r].line = anchor[new[r]]
  <2>1. ASSUME NEW r \in DOMAIN new
        PROVE  /\ rows[r].status = "ACTIVE" /\ rows[r].ord = o /\ rows[r].line = anchor[new[r]]
               /\ rows[r].inv = place[new[r]] /\ rows[r].qty = f[new[r]]
    <3>1. new[r] = l
      BY NewReservationsType
    <3>2. rows[r] = Reservation(o, l, i, take)
      BY <1>8
    <3>3. QED
      BY <1>9, <3>1, <3>2 DEF Reservation
  <2>2. DOMAIN rows = DOMAIN new
    BY <1>8
  <2>3. QED
    BY <1>7, <1>9, <2>1, <2>2 DEF MadeOf
<1>11. Gains(o, {l}, place, f, anchor)
  BY <1>7, <1>8, <1>10, Gained
<1>12. i[2] = LineVariant[l]
  BY <1>1
<1>13. ASSUME NEW p, NEW v
       PROVE  HeldFor(p, v)' = HeldFor(p, v) + IF p = o /\ v = LineVariant[l] THEN take ELSE 0
  <2>1. HeldFor(p, v)' = HeldFor(p, v) + IF p = o THEN Total({k \in {l} : place[k][2] = v}, f) ELSE 0
    BY <1>11 DEF Gains
  <2>2. CASE v = LineVariant[l]
    <3>1. {k \in {l} : place[k][2] = v} = {l}
      BY <1>9, <1>12, <2>2
    <3>2. Total({l}, f) = take
      BY <1>6, <1>9, TotalOne
    <3>3. QED
      BY <2>1, <2>2, <3>1, <3>2
  <2>3. CASE v # LineVariant[l]
    <3>1. {k \in {l} : place[k][2] = v} = {}
      BY <1>9, <1>12, <2>3
    <3>2. Total({k \in {l} : place[k][2] = v}, f) = 0
      BY <3>1, TotalEmpty, Zenon
    <3>3. QED
      BY <2>1, <2>3, <3>2
  <2>4. QED
    BY <2>2, <2>3
<1>14. line'[l] = [line[l] EXCEPT !.reserved = line[l].reserved + take, !.store = line'[l].store]
  <2>1. PICK store : line' = [line EXCEPT ![l].reserved = line[l].reserved + take, ![l].store = store]
    BY <1>3
  <2>2. line'[l] = [line[l] EXCEPT !.reserved = line[l].reserved + take, !.store = store]
    BY <1>4, <2>1 DEF Typed, TypeOK
  <2>3. store = line'[l].store
    BY <1>4, <2>2, LineType DEF LineRow
  <2>4. QED
    BY <2>2, <2>3
<1>15. /\ line'[l].reserved = line[l].reserved + take
       /\ line'[l].qty = line[l].qty /\ line'[l].picked = line[l].picked
       /\ line'[l].shortage = line[l].shortage /\ line'[l].returned = line[l].returned
  BY <1>4, <1>14, LineType DEF LineRow
<1>16. OtherLines(l)
  BY <1>3 DEF OtherLines, Typed, TypeOK
<1>17. StockRests
  BY <1>3, <1>5 DEF StockRests, Typed, TypeOK, InventoryRow
<1>18. ASSUME NEW r \in ResIds, res'[r].status = "ACTIVE"
       PROVE  SameHolder(r) \/ OfLine(r)'
  <2>1. CASE res'[r] = res[r]
    BY <1>18, <2>1 DEF SameHolder
  <2>2. CASE res'[r].ord = o /\ \E k \in {l} : res'[r].inv = place[k] /\ res'[r].line = anchor[k]
    <3>1. res'[r].ord = o /\ res'[r].inv = i /\ res'[r].line = l
      BY <1>9, <2>2
    <3>2. l \in LinesOf(o)'
      BY <1>1, <1>4, <1>15 DEF LinesOf
    <3>3. QED
      BY <1>12, <3>1, <3>2 DEF OfLine, LinesOf
  <2>3. QED
    BY <1>11, <1>18, <2>1, <2>2 DEF Gains
<1>19. HeldChanges(l, take) /\ Anchors
  BY <1>1, <1>13, <1>18 DEF HeldChanges, Anchors
<1>20. Reserves(l, take)
  BY <1>3, <1>4, <1>6, <1>15, <1>16, <1>17, <1>19 DEF Reserves
<1>21. QED
  BY <1>1, <1>20

\* So many units of the reservations are taken for the line l.
Releases(l, n) ==
    /\ l \in Lines /\ n \in Nat /\ line[l].qty > 0 /\ OtherLines(l)
    /\ line'[l].reserved = line[l].reserved - n
    /\ line'[l].qty = line[l].qty /\ line'[l].picked <= line[l].picked
    /\ line'[l].picked <= line'[l].reserved
    /\ line'[l].shortage = line[l].shortage /\ line'[l].returned = line[l].returned
    /\ HeldChanges(l, -n) /\ Anchors
    /\ UNCHANGED <<ord, xfer>> /\ StockRests

LEMMA ReleaseWriteDoes ==
    ASSUME Typed, NEW s \in Slots, ReleaseWrite(s), Fresh(req[s]), KnowsOrder(req[s])
    PROVE  \E n : Releases(req[s].line, n)
<1>1. PICK l, take, n, G : /\ l = req[s].line /\ take = req[s].take /\ G = DOMAIN take
                           /\ n = Total(G, take)
  OBVIOUS
<1>2. /\ req[s].op = "release"
      /\ inv' = [i \in Inventories |->
                   [inv[i] EXCEPT !.reserved = Greatest(0, inv[i].reserved
                                      - Total({r \in DOMAIN take : res[r].inv = i}, take))]]
      /\ line' = [line EXCEPT ![l].reserved = LeftOfLine(l, take),
                              ![l].picked = PickedClamped(l, LeftOfLine(l, take))]
      /\ UNCHANGED <<ord, xfer>>
  BY <1>1 DEF ReleaseWrite, At
<1>3. Shrunk(G, take)
  BY <1>1, ReleaseShrinks
<1>4. /\ l \in Lines /\ line[l].qty > 0 /\ n <= line[l].reserved
      /\ \A k \in G : res[k].ord = LineOrder[l] /\ res[k].inv[2] = LineVariant[l]
  BY <1>1, <1>2, RequestType DEF RequestOK, KnowsOrder
<1>5. G \subseteq ResIds /\ Summed(G, take) /\ n \in Nat
  <2>1. G \subseteq ResIds /\ \A k \in G : take[k] \in Int /\ res[k].status = "ACTIVE"
    BY <1>3, Quantity DEF Shrunk
  <2>2. Summed(G, take)
    BY <2>1, ReservationsAreFinite DEF Summed
  <2>3. QED
    BY <1>1, <2>1, <2>2, TotalNat
<1>6. LeftOfLine(l, take) = line[l].reserved - n
  BY <1>1, <1>4, <1>5, LineType DEF LeftOfLine, Greatest
<1>7. PICK left, p : left = line[l].reserved - n /\ p = Least(line[l].picked, left)
  OBVIOUS
<1>8. line' = [line EXCEPT ![l].reserved = left, ![l].picked = p]
  BY <1>2, <1>6, <1>7 DEF PickedClamped
<1>9. line'[l] = [line[l] EXCEPT !.reserved = left, !.picked = p]
  BY <1>4, <1>8 DEF Typed, TypeOK
<1>10. /\ line'[l].reserved = left /\ line'[l].qty = line[l].qty /\ line'[l].picked = p
       /\ line'[l].shortage = line[l].shortage /\ line'[l].returned = line[l].returned
  BY <1>4, <1>9, LineType DEF LineRow
<1>11. p <= line[l].picked /\ p <= left
  BY <1>4, <1>5, <1>7, LineType DEF Least
<1>12. OtherLines(l)
  BY <1>8 DEF OtherLines, Typed, TypeOK
<1>13. StockRests
  BY <1>2 DEF StockRests, Typed, TypeOK, InventoryRow
<1>14. Anchors
  <2>1. ASSUME NEW r \in ResIds PROVE res'[r].line = res[r].line
    <3>1. res' = [q \in ResIds |->
                    IF q \notin DOMAIN take THEN res[q]
                    ELSE IF req[s].left[q] = 0 THEN [res[q] EXCEPT !.status = "RELEASED"]
                    ELSE [res[q] EXCEPT !.qty = req[s].left[q]]]
      BY <1>1 DEF ReleaseWrite
    <3>2. res[r] \in ReservationRow
      BY Quantity
    <3>3. \/ res'[r] = res[r] \/ res'[r] = [res[r] EXCEPT !.status = "RELEASED"]
          \/ res'[r] = [res[r] EXCEPT !.qty = req[s].left[r]]
      BY <3>1
    <3>4. QED
      BY <3>2, <3>3 DEF ReservationRow
  <2>2. Loses(G, take)
    BY <1>3, <2>1 DEF Loses
  <2>3. QED
    BY <2>2, LosingAnchors
<1>15. ASSUME NEW p0, NEW v
       PROVE  HeldFor(p0, v)' = HeldFor(p0, v) + IF p0 = LineOrder[l] /\ v = LineVariant[l] THEN -n ELSE 0
  <2>1. /\ HeldFor(p0, v) = Total(HeldRows(p0, v) \cap G, take) + HeldFor(p0, v)'
        /\ Total(HeldRows(p0, v) \cap G, take) \in Nat /\ HeldFor(p0, v)' \in Nat
    BY <1>3, HeldShrinks
  <2>2. CASE p0 = LineOrder[l] /\ v = LineVariant[l]
    <3>1. G \subseteq HeldRows(p0, v)
      BY <1>3, <1>4, <2>2 DEF HeldRows, Active, Shrunk
    <3>2. HeldRows(p0, v) \cap G = G
      BY <3>1
    <3>3. PICK h, h2 : h = HeldFor(p0, v) /\ h2 = HeldFor(p0, v)'
      OBVIOUS
    <3>4. h = n + h2 /\ h2 \in Nat
      BY <1>1, <2>1, <3>2, <3>3
    <3>5. h2 = h + -n
      BY <1>5, <3>4
    <3>6. QED
      BY <2>2, <3>3, <3>5
  <2>3. CASE ~(p0 = LineOrder[l] /\ v = LineVariant[l])
    <3>1. HeldRows(p0, v) \cap G = {}
      BY <1>4, <2>3 DEF HeldRows, Active
    <3>2. Total(HeldRows(p0, v) \cap G, take) = 0
      BY <3>1, TotalEmpty, Zenon
    <3>3. QED
      BY <2>1, <2>3, <3>2
  <2>4. QED
    BY <2>2, <2>3
<1>16. HeldChanges(l, -n)
  BY <1>15 DEF HeldChanges
<1>17. Releases(l, n)
  BY <1>2, <1>4, <1>5, <1>7, <1>10, <1>11, <1>12, <1>13, <1>14, <1>16 DEF Releases
<1>18. QED
  BY <1>1, <1>17

-----------------------------------------------------------------------------
(* Settling an order.                                                        *)

\* All that is held for an order ends: it is delivered, or cancelled.
OtherOrders(o) == \A p \in Orders \ {o} : ord'[p] = ord[p]
Settling(o) ==
    /\ o \in Orders /\ Placed(o) /\ OtherOrders(o) /\ ord'[o].source = ord[o].source
    /\ UNCHANGED <<line, xfer>> /\ Anchors
    /\ \A p, v : HeldFor(p, v)' = IF p = o THEN 0 ELSE HeldFor(p, v)
Delivering(o) ==
    /\ Settling(o) /\ ord'[o].status = "DELIVERED"
    /\ ord[o].status = "READY" /\ Covered(o)
    /\ \A i \in Inventories :
          inv'[i].stock = inv[i].stock - Total({r \in Active(o) : res[r].inv = i}, Quantities)
Cancelling(o) == Settling(o) /\ ord'[o].status = "CANCELLED" /\ StockRests

LEMMA SettledHeld ==
    ASSUME Typed, NEW s \in Slots, Locked(s), KnowsOrder(req[s]),
           NEW status \in {"COMPLETED", "RELEASED"}, res' = Settled(s, status)
    PROVE  /\ Held(s) = Active(req[s].ord)
           /\ \A r \in Active(req[s].ord) : req[s].held[r] = res[r].qty
           /\ Anchors
           /\ \A p, v : HeldFor(p, v)' = IF p = req[s].ord THEN 0 ELSE HeldFor(p, v)
<1>1. PICK o, held, G : o = req[s].ord /\ held = req[s].held /\ G = Active(o)
  OBVIOUS
<1>2. DOMAIN held = G /\ \A k \in G : held[k] = res[k].qty
  BY <1>1 DEF KnowsOrder, Locked, At
<1>3. Held(s) = G
  BY <1>1, <1>2 DEF Held, Active
<1>4. G \subseteq ResIds /\ \A r \in G : res[r].status = "ACTIVE" /\ res[r].ord = o
  BY <1>1 DEF Active
<1>5. \A r \in ResIds : res'[r] = IF r \in G THEN [res[r] EXCEPT !.status = status] ELSE res[r]
  BY <1>3 DEF Settled
<1>6. ASSUME NEW r \in G
      PROVE  /\ Quantities[r] = res[r].qty /\ Quantities[r] \in 0..res[r].qty
             /\ res'[r].status = status /\ res'[r].inv = res[r].inv
             /\ res'[r].ord = res[r].ord /\ res'[r].qty = res[r].qty /\ res'[r].line = res[r].line
  <2>1. Quantities[r] = res[r].qty /\ res[r].qty \in Nat /\ res[r] \in ReservationRow
    BY <1>4, Quantity
  <2>2. res'[r] = [res[r] EXCEPT !.status = status]
    BY <1>4, <1>5
  <2>3. QED
    BY <2>1, <2>2 DEF ReservationRow
<1>7. Shrunk(G, Quantities) /\ \A r \in G : res'[r].status # "ACTIVE"
  BY <1>4, <1>5, <1>6 DEF Shrunk
<1>8. Anchors
  <2>1. \A r \in ResIds : res'[r].line = res[r].line
    BY <1>5, <1>6
  <2>2. Loses(G, Quantities)
    BY <1>7, <2>1 DEF Loses
  <2>3. QED
    BY <2>2, LosingAnchors
<1>9. ASSUME NEW p, NEW v
      PROVE  HeldFor(p, v)' = IF p = o THEN 0 ELSE HeldFor(p, v)
  <2>1. /\ HeldFor(p, v) = Total(HeldRows(p, v) \cap G, Quantities) + HeldFor(p, v)'
        /\ Total(HeldRows(p, v) \cap G, Quantities) \in Nat /\ HeldFor(p, v)' \in Nat
    BY <1>7, HeldShrinks
  <2>2. CASE p = o
    <3>1. HeldRows(p, v) \cap G = HeldRows(p, v)
      BY <1>1, <2>2 DEF HeldRows
    <3>2. HeldFor(p, v) = Total(HeldRows(p, v), Quantities)
      BY HeldIsNat
    <3>3. QED
      BY <2>1, <2>2, <3>1, <3>2
  <2>3. CASE p # o
    <3>1. HeldRows(p, v) \cap G = {}
      BY <1>4, <2>3 DEF HeldRows, Active
    <3>2. Total(HeldRows(p, v) \cap G, Quantities) = 0
      BY <3>1, TotalEmpty, Zenon
    <3>3. QED
      BY <2>1, <2>3, <3>2
  <2>4. QED
    BY <2>2, <2>3
<1>10. QED
  BY <1>1, <1>2, <1>3, <1>8, <1>9

LEMMA SettlesDoes ==
    ASSUME Typed, NEW s \in Slots, KnowsOrder(req[s]), LockKept(s), ReqKnows(req[s]), Settles(s)
    PROVE  (Delivering(req[s].ord) /\ DeliverOrder(s)) \/ Cancelling(req[s].ord)
<1>1. PICK o : o = req[s].ord
  OBVIOUS
<1>2. Locked(s) /\ UNCHANGED <<line, xfer>>
  BY DEF Settles, CompleteReturn, DeliverOrder, CancelOrder, Locked
<1>3. o \in Orders /\ Placed(o) /\ ord[o] \in OrderRow
  BY <1>1, <1>2, StatusRequest DEF Locked
<1>4. CASE DeliverOrder(s)
  <2>1. /\ res' = Settled(s, "COMPLETED") /\ inv' = Booked(Minus(StillOn(s)), Minus(StillOn(s)))
        /\ ord' = [ord EXCEPT ![o].status = "DELIVERED"] /\ Covered(o)
        /\ req[s].target = "DELIVERED" /\ req[s].op = "status"
    BY <1>1, <1>4 DEF DeliverOrder, At
  <2>2. ord'[o].status = "DELIVERED" /\ ord'[o].source = ord[o].source /\ OtherOrders(o)
    BY <1>3, <2>1 DEF OtherOrders, Typed, TypeOK, OrderRow
  <2>3. ord[o].status = "READY"
    <3>1. ord[o].status = req[s].seen /\ ord[o].status \in OrderStatus
      BY <1>1, <1>3 DEF LockKept, OrderRow, Placed
    <3>2. "DELIVERED" \in ValidTransitions[req[s].seen]
      BY <2>1 DEF ReqKnows
    <3>3. QED
      BY <3>1, <3>2 DEF ValidTransitions, OrderStatus, Cancellable
  <2>4. /\ Held(s) = Active(o) /\ \A r \in Active(o) : req[s].held[r] = res[r].qty
        /\ Anchors /\ \A p, v : HeldFor(p, v)' = IF p = o THEN 0 ELSE HeldFor(p, v)
    BY <1>1, <1>2, <2>1, SettledHeld
  <2>5. ASSUME NEW i \in Inventories
        PROVE  inv'[i].stock = inv[i].stock - Total({r \in Active(o) : res[r].inv = i}, Quantities)
    <3>1. PICK A, held : A = {r \in Active(o) : res[r].inv = i} /\ held = req[s].held
      OBVIOUS
    <3>2. StillOn(s)[i] = Total(A, held)
      BY <2>4, <3>1 DEF StillOn
    <3>3. \A r \in A : held[r] = Quantities[r]
      BY <2>4, <3>1 DEF Active, Quantities
    <3>4. Total(A, held) = Total(A, Quantities)
      BY <3>3, TotalSame
    <3>5. StillOn(s)[i] \in Nat
      BY <1>2, HeldType DEF Locked
    <3>6. inv'[i].stock = inv[i].stock + Minus(StillOn(s))[i]
      BY <2>1, BookedRows
    <3>7. Minus(StillOn(s))[i] = -StillOn(s)[i]
      BY DEF Minus
    <3>8. QED
      BY <3>1, <3>2, <3>4, <3>5, <3>6, <3>7, InventoryInts
  <2>6. Settling(o)
    BY <1>2, <1>3, <2>2, <2>4 DEF Settling
  <2>7. Delivering(o)
    BY <2>1, <2>2, <2>3, <2>5, <2>6 DEF Delivering
  <2>8. QED
    BY <1>1, <1>4, <2>7
<1>5. CASE CompleteReturn(s) \/ (CancelOrder(s) /\ ~req[s].picked)
  <2>1. /\ ReleaseHeld(s)
        /\ ord' = [ord EXCEPT ![o] = [WithSessionCancelled(ord[o]) EXCEPT !.status = "CANCELLED"]]
    BY <1>1, <1>5 DEF CompleteReturn, CancelOrder
  <2>2. res' = Settled(s, "RELEASED") /\ inv' = Booked(Nothing, Minus(StillOn(s)))
    BY <2>1 DEF ReleaseHeld
  <2>3. ord'[o].status = "CANCELLED" /\ ord'[o].source = ord[o].source /\ OtherOrders(o)
    BY <1>3, <2>1 DEF OtherOrders, WithSessionCancelled, Typed, TypeOK, OrderRow
  <2>4. Anchors /\ \A p, v : HeldFor(p, v)' = IF p = o THEN 0 ELSE HeldFor(p, v)
    BY <1>1, <1>2, <2>2, SettledHeld
  <2>5. ASSUME NEW i \in Inventories PROVE inv'[i].stock = inv[i].stock
    <3>1. inv'[i].stock = inv[i].stock + 0
      BY <2>2, BookedRows, NothingType
    <3>2. QED
      BY <3>1, InventoryInts
  <2>6. StockRests
    BY <2>5 DEF StockRests
  <2>7. Cancelling(o)
    BY <1>2, <1>3, <2>3, <2>4, <2>6 DEF Cancelling, Settling
  <2>8. QED
    BY <1>1, <2>7
<1>6. QED
  BY <1>4, <1>5 DEF Settles

-----------------------------------------------------------------------------
(* Moving a transfer.                                                        *)

\* The items of an order's transfer are of lines of the order.
ItemsOfLines ==
    \A t \in XferIds : ForOrder(t) =>
        \A k \in Items(t) : /\ xfer[t].items[k].line \in LinesOf(xfer[t].ord)
                            /\ LineVariant[xfer[t].items[k].line] = xfer[t].items[k].variant

\* The items of a transfer with units of a variant for an order.
ItemsFor(t, o, v) == {k \in Items(t) : xfer[t].ord = o /\ xfer[t].items[k].variant = v}

LEMMA ItemSums ==
    ASSUME Typed, NEW t \in XferIds, NEW f, \A k \in Items(t) : f[k] \in Nat
    PROVE  /\ Summed(Items(t), f)
           /\ \A o, v : Summed(ItemsFor(t, o, v), f) /\ Total(ItemsFor(t, o, v), f) \in Nat
<1>1. Items(t) \subseteq ItemKeys
  BY DEF Items
<1>2. Summed(Items(t), f)
  BY <1>1, ItemsAreFinite DEF Summed
<1>3. ASSUME NEW o, NEW v PROVE Summed(ItemsFor(t, o, v), f) /\ Total(ItemsFor(t, o, v), f) \in Nat
  <2>1. ItemsFor(t, o, v) \subseteq Items(t)
    BY DEF ItemsFor
  <2>2. QED
    BY <1>2, <2>1, TotalPart, TotalNat
<1>4. QED
  BY <1>2, <1>3

\* The reservations of units of a transfer that are reserved again at a store.
Reanchored(t, place) ==
    \A r \in ResIds : res'[r].status = "ACTIVE" =>
        \/ res'[r] = res[r]
        \/ /\ ForOrder(t) /\ res'[r].ord = xfer[t].ord
           /\ \E k \in Items(t) : res'[r].inv = place[k] /\ res'[r].line = xfer[t].items[k].line

LEMMA AnchoredDoes ==
    ASSUME Typed, Typed', ReservationsNumbered, NEW t \in XferIds, NEW place, NEW f,
           \A k \in Items(t) : f[k] \in Nat /\ place[k][2] = xfer[t].items[k].variant,
           NEW new \in NewReservations(Reserving(t, f)),
           res' = Inserted(Anchored(t, place, f, new))
    PROVE  /\ \A o \in Orders : \A v : HeldFor(o, v)' = HeldFor(o, v) + Total(ItemsFor(t, o, v), f)
           /\ Reanchored(t, place)
<1>1. PICK S, rows, o, anchor : /\ S = Reserving(t, f) /\ rows = Anchored(t, place, f, new)
                                /\ o = xfer[t].ord
                                /\ anchor = [k \in S |-> xfer[t].items[k].line]
  OBVIOUS
<1>2. S \subseteq Items(t) /\ S \subseteq Nat /\ S \subseteq ItemKeys
  BY <1>1, ErpAssumption DEF Reserving, Items, ItemKeys
<1>3. Summed(S, f) /\ Summed(Items(t), f)
  BY <1>2, ItemSums, TotalPart
<1>4. ASSUME NEW r \in DOMAIN new
      PROVE  /\ rows[r].status = "ACTIVE" /\ rows[r].ord = o /\ rows[r].line = anchor[new[r]]
             /\ rows[r].inv = place[new[r]] /\ rows[r].qty = f[new[r]]
  <2>1. rows[r] = Reservation(xfer[t].ord, xfer[t].items[new[r]].line, place[new[r]], f[new[r]])
    BY <1>1 DEF Anchored
  <2>2. new[r] \in S
    BY <1>1, NewReservationsType
  <2>3. QED
    BY <1>1, <2>1, <2>2 DEF Reservation
<1>5. MadeOf(rows, new, S, place, f) /\ res' = Inserted(rows)
  <2>1. DOMAIN rows = DOMAIN new
    BY <1>1 DEF Anchored
  <2>2. QED
    BY <1>1, <1>2, <1>3, <1>4, <2>1 DEF MadeOf
<1>6. Gains(o, S, place, f, anchor)
  <2>1. \A r \in DOMAIN new : rows[r].ord = o
    BY <1>4
  <2>2. \A r \in DOMAIN new : rows[r].line = anchor[new[r]]
    BY <1>4
  <2>3. QED
    BY <1>5, <2>1, <2>2, Gained
<1>7. ASSUME NEW p \in Orders, NEW v
      PROVE  HeldFor(p, v)' = HeldFor(p, v) + Total(ItemsFor(t, p, v), f)
  <2>1. HeldFor(p, v)' = HeldFor(p, v) + IF p = o THEN Total({k \in S : place[k][2] = v}, f) ELSE 0
    BY <1>6 DEF Gains
  <2>2. CASE p # o
    <3>1. ItemsFor(t, p, v) = {}
      BY <1>1, <2>2 DEF ItemsFor
    <3>2. Total(ItemsFor(t, p, v), f) = 0
      BY <3>1, TotalEmpty, Zenon
    <3>3. QED
      BY <2>1, <2>2, <3>2
  <2>3. CASE p = o
    <3>1. PICK A, B : A = ItemsFor(t, p, v) /\ B = {k \in S : place[k][2] = v}
      OBVIOUS
    <3>2. B \subseteq A
      BY <1>1, <1>2, <2>3, <3>1 DEF ItemsFor
    <3>3. ForOrder(t)
      BY <1>1, <2>3, ErpAssumption DEF ForOrder
    <3>4. ASSUME NEW k \in A \ B PROVE f[k] <= 0
      <4>1. k \in Items(t) /\ place[k][2] = v /\ f[k] \in Nat
        BY <3>1, <3>4 DEF ItemsFor
      <4>2. k \notin S
        BY <3>1, <3>4, <4>1
      <4>3. ~(f[k] > 0)
        BY <1>1, <3>3, <4>1, <4>2 DEF Reserving
      <4>4. QED
        BY <4>1, <4>3
    <3>5. Summed(A, f)
      BY <3>1, ItemSums
    <3>6. Total(A, f) = Total(B, f)
      BY <3>2, <3>4, <3>5, TotalPositive
    <3>7. QED
      BY <2>1, <2>3, <3>1, <3>6
  <2>4. QED
    BY <2>2, <2>3
<1>8. Reanchored(t, place)
  <2>1. ASSUME NEW r \in ResIds, res'[r].status = "ACTIVE"
        PROVE  \/ res'[r] = res[r]
               \/ /\ ForOrder(t) /\ res'[r].ord = xfer[t].ord
                  /\ \E k \in Items(t) : res'[r].inv = place[k] /\ res'[r].line = xfer[t].items[k].line
    <3>1. CASE res'[r] = res[r]
      BY <3>1
    <3>2. CASE res'[r].ord = o /\ \E k \in S : res'[r].inv = place[k] /\ res'[r].line = anchor[k]
      <4>1. PICK k \in S : res'[r].inv = place[k] /\ res'[r].line = anchor[k]
        BY <3>2
      <4>2. ForOrder(t) /\ k \in Items(t) /\ anchor[k] = xfer[t].items[k].line
        BY <1>1 DEF Reserving
      <4>3. QED
        BY <1>1, <3>2, <4>1, <4>2
    <3>3. QED
      BY <1>6, <2>1, <3>1, <3>2 DEF Gains
  <2>2. QED
    BY <2>1 DEF Reanchored
<1>9. QED
  BY <1>7, <1>8

\* Such reservations are of lines, when the items are.
LEMMA ReanchoredLines ==
    ASSUME ItemsOfLines, NEW t \in XferIds, NEW place, Reanchored(t, place),
           \A k \in Items(t) : place[k][2] = xfer[t].items[k].variant,
           \A l \in Lines : line'[l].qty = line[l].qty
    PROVE  Anchors
<1>1. ASSUME NEW r \in ResIds, res'[r].status = "ACTIVE"
      PROVE  SameHolder(r) \/ OfLine(r)'
  <2>1. CASE res'[r] = res[r]
    BY <1>1, <2>1 DEF SameHolder
  <2>2. CASE /\ ForOrder(t) /\ res'[r].ord = xfer[t].ord
             /\ \E k \in Items(t) : res'[r].inv = place[k] /\ res'[r].line = xfer[t].items[k].line
    <3>1. PICK k \in Items(t) : res'[r].inv = place[k] /\ res'[r].line = xfer[t].items[k].line
      BY <2>2
    <3>2. PICK l : l = xfer[t].items[k].line
      OBVIOUS
    <3>3. l \in LinesOf(xfer[t].ord) /\ LineVariant[l] = place[k][2]
      BY <2>2, <3>2 DEF ItemsOfLines
    <3>4. l \in Lines /\ LineOrder[l] = res'[r].ord /\ line'[l].qty > 0
      BY <2>2, <3>3 DEF LinesOf
    <3>5. QED
      BY <3>1, <3>2, <3>3, <3>4 DEF OfLine, LinesOf
  <2>3. QED
    BY <1>1, <2>1, <2>2 DEF Reanchored
<1>2. QED
  BY <1>1 DEF Anchors

-----------------------------------------------------------------------------
(* All the stock there is.                                                   *)

StockOf == [i \in Inventories |-> inv[i].stock]
AllStock == Total(Inventories, StockOf)

LEMMA InventoriesAreFinite == IsFiniteSet(Inventories)
  BY FS_Product, ErpAssumption DEF Inventories

LEMMA AllStockIsNat ==
    ASSUME Typed PROVE Summed(Inventories, StockOf) /\ AllStock \in Nat /\ \A i \in Inventories : StockOf[i] \in Nat
<1>1. \A i \in Inventories : StockOf[i] \in Nat
  BY InventoryInts DEF StockOf
<1>2. Summed(Inventories, StockOf)
  BY <1>1, InventoriesAreFinite DEF Summed
<1>3. QED
  BY <1>1, <1>2, TotalNat DEF AllStock

\* Units that enter the inventories, or leave them.
Enter(S, place, f) ==
    \A i \in Inventories : inv'[i].stock = inv[i].stock + Total({k \in S : place[k] = i}, f)
Leave(S, place, f) ==
    \A i \in Inventories : inv'[i].stock = inv[i].stock - Total({k \in S : place[k] = i}, f)

LEMMA StockMoves ==
    ASSUME Typed, Typed', NEW S, NEW f, Summed(S, f), NEW place, \A k \in S : place[k] \in Inventories
    PROVE  /\ Enter(S, place, f) => AllStock' = AllStock + Total(S, f)
           /\ Leave(S, place, f) => AllStock = AllStock' + Total(S, f)
<1>1. PICK part, a, b : /\ part = ByClass(S, f, Inventories, place) /\ a = StockOf /\ b = StockOf'
  OBVIOUS
<1>2. /\ Summed(Inventories, part) /\ Total(Inventories, part) = Total(S, f)
      /\ \A i \in Inventories : part[i] \in Nat
  BY <1>1, InventoriesAreFinite, TotalByClass
<1>3. \A i \in Inventories : part[i] = Total({k \in S : place[k] = i}, f)
  BY <1>1 DEF ByClass, Class
<1>4. /\ \A i \in Inventories : a[i] \in Nat /\ a[i] = inv[i].stock
      /\ AllStock = Total(Inventories, a)
  BY <1>1, AllStockIsNat DEF AllStock, StockOf
<1>5. /\ \A i \in Inventories : b[i] \in Nat /\ b[i] = inv'[i].stock
      /\ AllStock' = Total(Inventories, b)
  <2>1. \A i \in Inventories : b[i] = inv'[i].stock
    BY <1>1 DEF StockOf
  <2>2. \A i \in Inventories : inv'[i].stock \in Nat
    BY DEF Typed, TypeOK, InventoryRow
  <2>3. QED
    BY <1>1, <2>1, <2>2 DEF AllStock
<1>6. ASSUME Enter(S, place, f) PROVE AllStock' = AllStock + Total(S, f)
  <2>1. \A i \in Inventories : b[i] = a[i] + part[i]
    BY <1>3, <1>4, <1>5, <1>6 DEF Enter
  <2>2. Total(Inventories, b) = Total(Inventories, a) + Total(Inventories, part)
    BY <1>2, <1>4, <2>1, InventoriesAreFinite, TotalPlus
  <2>3. QED
    BY <1>2, <1>4, <1>5, <2>2
<1>7. ASSUME Leave(S, place, f) PROVE AllStock = AllStock' + Total(S, f)
  <2>1. \A i \in Inventories : b[i] = a[i] - part[i]
    BY <1>3, <1>4, <1>5, <1>7 DEF Leave
  <2>2. \A i \in Inventories : a[i] = b[i] + part[i]
    BY <1>2, <1>4, <1>5, <2>1
  <2>3. Total(Inventories, a) = Total(Inventories, b) + Total(Inventories, part)
    BY <1>2, <1>5, <2>2, InventoriesAreFinite, TotalPlus
  <2>4. QED
    BY <1>2, <1>4, <1>5, <2>3
<1>8. QED
  BY <1>6, <1>7

LEMMA StockSame ==
    ASSUME StockRests PROVE AllStock' = AllStock
<1>1. StockOf' = StockOf
  BY DEF StockRests, StockOf
<1>2. QED
  BY <1>1 DEF AllStock

-----------------------------------------------------------------------------
(* What the transfers of an order bring and what they leave.                  *)

\* A transfer that is not over moves: what was asked of it stays.
Follows(t) ==
    /\ Others({t}) /\ xfer[t].status \in {"PENDING", "IN_TRANSIT", "PARTIALLY_RECEIVED"}
    /\ xfer'[t].ord = xfer[t].ord
    /\ \A k \in ItemKeys : xfer'[t].items[k].qty = xfer[t].items[k].qty
    /\ \A k \in Items(t) : /\ xfer'[t].items[k].line = xfer[t].items[k].line
                           /\ xfer'[t].items[k].variant = xfer[t].items[k].variant

LEMMA WayItemsBefore ==
    ASSUME NEW t \in XferIds, xfer[t].status # "CANCELLED", NEW o, NEW v
    PROVE  WayItems(xfer[t], o, v) = ItemsFor(t, o, v)
  BY DEF WayItems, ItemsFor, Items

LEMMA WayItemsAfter ==
    ASSUME NEW t \in XferIds, Follows(t), xfer'[t].status # "CANCELLED", NEW o, NEW v
    PROVE  WayItems(xfer'[t], o, v) = ItemsFor(t, o, v)
  BY DEF WayItems, ItemsFor, Items, Follows

LEMMA CancelledBringsNothing ==
    ASSUME NEW row, row.status = "CANCELLED", NEW o, NEW v PROVE RowWay(row, o, v) = 0
<1>1. WayItems(row, o, v) = {}
  BY DEF WayItems
<1>2. QED
  BY <1>1, TotalEmpty DEF RowWay

\* The units on the road, by what has left and what has arrived of the items.
LEMMA RoadBefore ==
    ASSUME NEW t \in XferIds, xfer[t].status # "CANCELLED", NEW f,
           \A k \in Items(t) : xfer[t].items[k].disp - xfer[t].items[k].rec = f[k]
    PROVE  OnTheRoad(t) = Total(Items(t), f)
<1>1. PICK g : g = [k \in Items(t) |-> xfer[t].items[k].disp - xfer[t].items[k].rec]
  OBVIOUS
<1>2. OnTheRoad(t) = Total(Items(t), g)
  BY <1>1 DEF OnTheRoad
<1>3. \A k \in Items(t) : g[k] = f[k]
  BY <1>1
<1>4. QED
  BY <1>2, <1>3, TotalSame

LEMMA ItemsAfter ==
    ASSUME NEW t \in XferIds, Follows(t) PROVE Items(t)' = Items(t)
  BY DEF Follows, Items

LEMMA RoadAfter ==
    ASSUME NEW t \in XferIds, Follows(t), xfer'[t].status # "CANCELLED", NEW f,
           \A k \in Items(t) : xfer'[t].items[k].disp - xfer'[t].items[k].rec = f[k]
    PROVE  OnTheRoad(t)' = Total(Items(t), f)
<1>1. PICK g : g = [k \in Items(t) |-> xfer'[t].items[k].disp - xfer'[t].items[k].rec]
  OBVIOUS
<1>2. OnTheRoad(t)' = Total(Items(t), g)
  BY <1>1, ItemsAfter DEF OnTheRoad
<1>3. \A k \in Items(t) : g[k] = f[k]
  BY <1>1
<1>4. QED
  BY <1>2, <1>3, TotalSame

\* An order's transfer carries what is held for it from store to store.
Carries(t) ==
    /\ Follows(t) /\ xfer'[t].status \in {"IN_TRANSIT", "CANCELLED"}
    /\ UNCHANGED <<ord, line>> /\ Anchors
    /\ \A o \in Orders : \A v :
          HeldFor(o, v)' + OnTheWayFor(o, v)' = HeldFor(o, v) + OnTheWayFor(o, v)
    /\ AllStock' + OnTheRoad(t)' = AllStock + OnTheRoad(t)

LEMMA DispatchDoes ==
    ASSUME TransfersKept, TransfersKept', WayFacts, WayFacts', OrderItems,
           NEW s \in Slots, NEW t \in XferIds, DispatchStockTransfer(s, t)
    PROVE  Carries(t)
<1> DEFINE items == [k \in ItemKeys |-> [xfer[t].items[k] EXCEPT !.disp = xfer[t].items[k].qty]]
           moved == [xfer[t] EXCEPT !.status = "IN_TRANSIT"]
           row == [moved EXCEPT !.items = items]
<1>0. Typed /\ Typed' /\ TransferBalanced
  BY DEF TransfersKept
<1>1. xfer[t] \in TransferRow /\ xfer[t].status = "PENDING" /\ UNCHANGED <<ord, line>>
  BY <1>0, TransferType DEF DispatchStockTransfer, Dispatchable
<1>2. xfer' = [xfer EXCEPT ![t] = row]
  BY <1>0 DEF DispatchStockTransfer, Typed, TypeOK
<1>3. \A k \in ItemKeys : /\ items[k].qty = xfer[t].items[k].qty
                          /\ items[k].disp = xfer[t].items[k].qty
                          /\ items[k].rec = xfer[t].items[k].rec
                          /\ items[k].disc = xfer[t].items[k].disc
                          /\ items[k].line = xfer[t].items[k].line
                          /\ items[k].variant = xfer[t].items[k].variant
  <2>1. \A k \in ItemKeys : xfer[t].items[k] \in ItemRow
    BY <1>0, <1>1, TransferType
  <2>2. QED
    BY <2>1 DEF ItemRow
<1>4. row.status = "IN_TRANSIT" /\ row.items = items /\ row.ord = xfer[t].ord
  <2> HIDE DEF items
  <2>1. QED
    BY <1>1 DEF TransferRow
<1> HIDE DEF row, items
<1>5. xfer'[t] = row /\ Others({t})
  BY <1>1, <1>2, <1>4, OneRow
<1>6. \A k \in Items(t) : k \in ItemKeys
  BY DEF Items
<1>7. Follows(t) /\ xfer'[t].status = "IN_TRANSIT"
  BY <1>1, <1>3, <1>4, <1>5, <1>6 DEF Follows
<1>8. \A k \in ItemKeys : /\ xfer[t].items[k].disp = 0 /\ xfer[t].items[k].rec = 0
                          /\ xfer[t].items[k].disc = 0 /\ xfer[t].items[k].qty \in Nat
  BY <1>0, <1>1, TransferType DEF TransferBalanced
<1>9. PICK f : f = Asked(t)
  OBVIOUS
<1>10. \A k \in Items(t) : f[k] = xfer[t].items[k].qty /\ f[k] \in Nat
  BY <1>6, <1>8, <1>9 DEF Asked
<1>11. ASSUME NEW k \in Items(t)
       PROVE  /\ LeftOf(xfer'[t])[k] = f[k]
              /\ xfer'[t].items[k].disp - xfer'[t].items[k].rec = f[k]
              /\ xfer[t].items[k].disp - xfer[t].items[k].rec = 0
  <2>1. LeftOf(xfer'[t])[k] = Left(xfer'[t].items[k])
    BY <1>6 DEF LeftOf
  <2>2. xfer'[t].items[k].disp = f[k] /\ xfer'[t].items[k].rec = 0 /\ xfer'[t].items[k].disc = 0
    BY <1>3, <1>4, <1>5, <1>6, <1>8, <1>10
  <2>3. QED
    BY <1>6, <1>8, <1>10, <2>1, <2>2 DEF Left
<1>12. ASSUME NEW o \in Orders, NEW v
       PROVE  /\ OnTheWayFor(o, v)' = OnTheWayFor(o, v) + Total(ItemsFor(t, o, v), f)
              /\ OnTheWayFor(o, v) \in Nat
  <2>1. PICK A, g : A = ItemsFor(t, o, v) /\ g = LeftOf(xfer'[t])
    OBVIOUS
  <2>2. RowWay(xfer'[t], o, v) = Total(A, g)
    BY <1>7, <2>1, WayItemsAfter DEF RowWay
  <2>3. \A k \in A : g[k] = f[k]
    BY <1>11, <2>1 DEF ItemsFor
  <2>4. Total(A, g) = Total(A, f)
    BY <2>3, TotalSame
  <2>5. RowWay(xfer[t], o, v) = 0 /\ OnTheWayFor(o, v) \in Nat /\ OnTheWayFor(o, v)' \in Nat
    BY <1>1 DEF WayFacts, Resting
  <2>6. OnTheWayFor(o, v)' + RowWay(xfer[t], o, v) = OnTheWayFor(o, v) + RowWay(xfer'[t], o, v)
    BY <1>5, WayMoves
  <2>7. Total(A, f) \in Nat
    BY <1>0, <1>10, <2>1, ItemSums
  <2>8. QED
    BY <2>1, <2>2, <2>4, <2>5, <2>6, <2>7
<1>13. /\ Anchors
       /\ \A o \in Orders : \A v : HeldFor(o, v) = Total(ItemsFor(t, o, v), f) + HeldFor(o, v)'
  <2>1. res' = [r \in ResIds |->
                 IF ForOrder(t) /\ r \in Items(t) THEN [res[r] EXCEPT !.status = "COMPLETED"] ELSE res[r]]
    BY DEF DispatchStockTransfer
  <2>2. CASE ~ForOrder(t)
    <3>1. res' = [r \in ResIds |-> res[r]]
      BY <2>1, <2>2
    <3>2. UNCHANGED res
      BY <1>0, <3>1 DEF Typed, TypeOK
    <3>3. ASSUME NEW o \in Orders, NEW v
          PROVE  HeldFor(o, v) = Total(ItemsFor(t, o, v), f) + HeldFor(o, v)'
      <4>1. ItemsFor(t, o, v) = {}
        BY <2>2, ErpAssumption DEF ItemsFor, ForOrder
      <4>2. Total(ItemsFor(t, o, v), f) = 0
        BY <4>1, TotalEmpty, Zenon
      <4>3. HeldFor(o, v)' = HeldFor(o, v) /\ HeldFor(o, v) \in Nat
        BY <1>0, <3>2, HeldStays, HeldIsNat
      <4>4. QED
        BY <4>2, <4>3
    <3>4. QED
      BY <3>2, <3>3, RestingAnchors
  <2>3. CASE ForOrder(t)
    <3>1. PICK G : G = Items(t)
      OBVIOUS
    <3>2. G \subseteq ResIds
      BY <2>3, <3>1 DEF OrderItems
    <3>3. ASSUME NEW r \in G
          PROVE  /\ res[r].status = "ACTIVE" /\ res[r].qty \in Nat /\ Quantities[r] = f[r]
                 /\ f[r] = res[r].qty /\ res[r].ord = xfer[t].ord
                 /\ res[r].inv[2] = xfer[t].items[r].variant
                 /\ res'[r].status = "COMPLETED" /\ res'[r].inv = res[r].inv
                 /\ res'[r].ord = res[r].ord /\ res'[r].qty = res[r].qty /\ res'[r].line = res[r].line
      <4>1. ItemReady(t, r) /\ r \in ResIds
        BY <3>1, <3>2 DEF DispatchStockTransfer
      <4>2. Quantities[r] = res[r].qty /\ res[r].qty \in Nat /\ res[r] \in ReservationRow
        BY <1>0, <4>1, Quantity
      <4>3. /\ res[r].status = "ACTIVE" /\ res[r].ord = xfer[t].ord
            /\ res[r].inv = Origin(t)[r] /\ res[r].qty = xfer[t].items[r].qty
        BY <2>3, <3>1, <4>1 DEF ItemReady
      <4>4. Origin(t)[r][2] = xfer[t].items[r].variant
        BY <3>1 DEF Origin
      <4>5. res'[r] = [res[r] EXCEPT !.status = "COMPLETED"]
        BY <2>1, <2>3, <3>1, <4>1
      <4>6. /\ res'[r].status = "COMPLETED" /\ res'[r].inv = res[r].inv
            /\ res'[r].ord = res[r].ord /\ res'[r].qty = res[r].qty /\ res'[r].line = res[r].line
        BY <4>2, <4>5 DEF ReservationRow
      <4>7. f[r] = res[r].qty
        BY <1>10, <3>1, <4>3
      <4>8. QED
        BY <4>2, <4>3, <4>4, <4>6, <4>7
    <3>4. \A r \in ResIds \ G : res'[r] = res[r]
      BY <2>1, <3>1
    <3>5. Shrunk(G, Quantities)
      <4>1. \A r \in G : Quantities[r] \in 0..res[r].qty
        BY <3>3
      <4>2. QED
        BY <3>2, <3>3, <3>4, <4>1 DEF Shrunk
    <3>6. Anchors
      <4>1. \A r \in ResIds : res'[r].line = res[r].line
        BY <3>3, <3>4
      <4>2. Loses(G, Quantities)
        BY <3>5, <4>1 DEF Loses
      <4>3. QED
        BY <4>2, LosingAnchors
    <3>7. ASSUME NEW o \in Orders, NEW v
          PROVE  HeldFor(o, v) = Total(ItemsFor(t, o, v), f) + HeldFor(o, v)'
      <4>1. HeldFor(o, v) = Total(HeldRows(o, v) \cap G, Quantities) + HeldFor(o, v)'
        BY <1>0, <3>5, HeldShrinks
      <4>2. PICK A : A = ItemsFor(t, o, v)
        OBVIOUS
      <4>3. HeldRows(o, v) \cap G = A
        BY <3>1, <3>2, <3>3, <4>2 DEF HeldRows, Active, ItemsFor
      <4>4. A \subseteq G
        BY <4>3
      <4>5. Total(A, Quantities) = Total(A, f)
        BY <3>3, <4>4, TotalSame
      <4>6. QED
        BY <4>1, <4>2, <4>3, <4>5
    <3>8. QED
      BY <3>6, <3>7
  <2>4. QED
    BY <2>2, <2>3
<1>14. ASSUME NEW o \in Orders, NEW v
       PROVE  HeldFor(o, v)' + OnTheWayFor(o, v)' = HeldFor(o, v) + OnTheWayFor(o, v)
  <2>1. PICK n : n = Total(ItemsFor(t, o, v), f)
    OBVIOUS
  <2>2. n \in Nat
    BY <1>0, <1>10, <2>1, ItemSums
  <2>3. HeldFor(o, v) = n + HeldFor(o, v)' /\ OnTheWayFor(o, v)' = OnTheWayFor(o, v) + n
    BY <1>12, <1>13, <2>1
  <2>4. HeldFor(o, v)' \in Nat
    BY <1>0, HeldIsNatNext
  <2>5. OnTheWayFor(o, v) \in Nat
    BY <1>12
  <2>6. QED
    BY <2>2, <2>3, <2>4, <2>5
<1>15. AllStock' + OnTheRoad(t)' = AllStock + OnTheRoad(t)
  <2>1. PICK place : place = Origin(t)
    OBVIOUS
  <2>2. Summed(Items(t), f) /\ \A k \in Items(t) : place[k] \in Inventories
    BY <1>0, <1>10, <2>1, ItemSums, TransferType
  <2>3. ASSUME NEW i \in Inventories
        PROVE  inv'[i].stock = inv[i].stock - Total({k \in Items(t) : place[k] = i}, f)
    <3>1. PICK out : out = PerInventory(t, Origin(t), Asked(t))
      OBVIOUS
    <3>2. inv' = Booked(Minus(out), IF ForOrder(t) THEN Minus(out) ELSE Nothing)
      BY <3>1 DEF DispatchStockTransfer
    <3>3. inv'[i].stock = inv[i].stock + Minus(out)[i]
      BY <3>2, BookedRows
    <3>4. Minus(out)[i] = -out[i]
      BY DEF Minus
    <3>5. out[i] = Total({k \in Items(t) : place[k] = i}, f)
      BY <1>9, <2>1, <3>1 DEF PerInventory
    <3>6. out[i] \in Nat
      <4>1. out \in [Inventories -> Nat]
        BY <1>9, <1>10, <3>1, PerInventoryType
      <4>2. QED
        BY <4>1
    <3>7. QED
      BY <1>0, <3>3, <3>4, <3>5, <3>6, InventoryInts
  <2>4. AllStock = AllStock' + Total(Items(t), f)
    <3>1. Leave(Items(t), place, f)
      BY <2>3 DEF Leave
    <3>2. QED
      BY <1>0, <2>2, <3>1, StockMoves
  <2>5. OnTheRoad(t)' = Total(Items(t), f)
    BY <1>7, <1>11, RoadAfter
  <2>6. OnTheRoad(t) = 0
    <3>1. PICK g : g = [k \in Items(t) |-> 0]
      OBVIOUS
    <3>2. \A k \in Items(t) : xfer[t].items[k].disp - xfer[t].items[k].rec = g[k] /\ g[k] = 0
      BY <1>11, <3>1
    <3>3. OnTheRoad(t) = Total(Items(t), g)
      BY <1>1, <3>2, RoadBefore
    <3>4. Summed(Items(t), g) /\ \A k \in Items(t) : g[k] <= 0
      BY <1>0, <3>2, ItemSums
    <3>5. QED
      BY <3>3, <3>4, TotalZero
  <2>7. AllStock \in Nat
    BY <1>0, AllStockIsNat
  <2>8. QED
    BY <2>4, <2>5, <2>6, <2>7
<1>16. QED
  BY <1>1, <1>7, <1>13, <1>14, <1>15 DEF Carries

LEMMA CancelTransferDoes ==
    ASSUME TransfersKept, TransfersKept', WayFacts, WayFacts', ReservationsNumbered, ItemsOfLines,
           NEW s \in Slots, NEW t \in XferIds, CancelStockTransfer(s, t)
    PROVE  Carries(t)
<1> DEFINE row == [xfer[t] EXCEPT !.status = "CANCELLED"]
<1>0. Typed /\ Typed' /\ TransferBalanced
  BY DEF TransfersKept
<1>1. /\ xfer[t] \in TransferRow /\ xfer[t].status \in {"PENDING", "IN_TRANSIT"}
      /\ UNCHANGED <<ord, line>>
  BY <1>0, TransferType DEF CancelStockTransfer, Recallable
<1>2. xfer' = [xfer EXCEPT ![t] = row]
  BY DEF CancelStockTransfer
<1>3. row.status = "CANCELLED" /\ row.items = xfer[t].items /\ row.ord = xfer[t].ord
  BY <1>1 DEF TransferRow
<1> HIDE DEF row
<1>4. xfer'[t] = row /\ Others({t})
  BY <1>1, <1>2, <1>3, OneRow
<1>5. Follows(t) /\ xfer'[t].status = "CANCELLED"
  BY <1>1, <1>3, <1>4 DEF Follows
<1>6. PICK f : f = Asked(t)
  OBVIOUS
<1>7. ASSUME NEW k \in Items(t)
      PROVE  /\ k \in ItemKeys /\ f[k] = xfer[t].items[k].qty /\ f[k] \in Nat
             /\ xfer[t].items[k].rec = 0 /\ xfer[t].items[k].disc = 0
             /\ xfer[t].items[k].disp = IF xfer[t].status = "PENDING" THEN 0 ELSE f[k]
  <2>1. k \in ItemKeys
    BY DEF Items
  <2>2. f[k] = xfer[t].items[k].qty
    BY <1>6 DEF Asked
  <2>3. QED
    BY <1>0, <1>1, <2>1, <2>2, TransferType, SMTT(30) DEF TransferBalanced
<1>8. \A k \in Items(t) : f[k] \in Nat
  BY <1>7
<1>9. ASSUME NEW o \in Orders, NEW v
      PROVE  /\ OnTheWayFor(o, v) = OnTheWayFor(o, v)' + RowWay(xfer[t], o, v)
             /\ OnTheWayFor(o, v)' \in Nat /\ RowWay(xfer[t], o, v) \in Nat
  <2>1. RowWay(xfer'[t], o, v) = 0
    BY <1>5, CancelledBringsNothing
  <2>2. OnTheWayFor(o, v)' + RowWay(xfer[t], o, v) = OnTheWayFor(o, v) + RowWay(xfer'[t], o, v)
    BY <1>4, WayMoves
  <2>3. OnTheWayFor(o, v) \in Nat /\ OnTheWayFor(o, v)' \in Nat /\ RowWay(xfer[t], o, v) \in Nat
    BY DEF WayFacts
  <2>4. QED
    BY <2>1, <2>2, <2>3
<1>10. OnTheRoad(t)' = 0
  BY <1>5 DEF OnTheRoad
<1>11. CASE xfer[t].status = "PENDING"
  <2>1. UNCHANGED <<inv, res>>
    BY <1>11 DEF CancelStockTransfer, Recallable
  <2>2. ASSUME NEW o \in Orders, NEW v
        PROVE  HeldFor(o, v)' + OnTheWayFor(o, v)' = HeldFor(o, v) + OnTheWayFor(o, v)
    <3>1. RowWay(xfer[t], o, v) = 0
      BY <1>11 DEF WayFacts, Resting
    <3>2. HeldFor(o, v)' = HeldFor(o, v) /\ HeldFor(o, v) \in Nat
      BY <1>0, <2>1, HeldStays, HeldIsNat
    <3>3. QED
      BY <1>9, <3>1, <3>2
  <2>3. OnTheRoad(t) = 0
    <3>1. PICK g : g = [k \in Items(t) |-> 0]
      OBVIOUS
    <3>2. \A k \in Items(t) : xfer[t].items[k].disp - xfer[t].items[k].rec = g[k] /\ g[k] = 0
      BY <1>7, <1>11, <3>1
    <3>3. OnTheRoad(t) = Total(Items(t), g)
      BY <1>1, <3>2, RoadBefore
    <3>4. Summed(Items(t), g) /\ \A k \in Items(t) : g[k] <= 0
      BY <1>0, <3>2, ItemSums
    <3>5. QED
      BY <3>3, <3>4, TotalZero
  <2>4. AllStock' + OnTheRoad(t)' = AllStock + OnTheRoad(t)
    <3>1. StockRests
      BY <2>1 DEF StockRests
    <3>2. QED
      BY <1>0, <1>10, <2>3, <3>1, StockSame, AllStockIsNat
  <2>5. Anchors
    BY <2>1, RestingAnchors
  <2>6. QED
    BY <1>1, <1>5, <2>2, <2>4, <2>5 DEF Carries
<1>12. CASE xfer[t].status = "IN_TRANSIT"
  <2>1. /\ inv' = Booked(PerInventory(t, Origin(t), Asked(t)),
                         IF ForOrder(t) THEN PerInventory(t, Origin(t), Asked(t)) ELSE Nothing)
        /\ \E new \in NewReservations(Reserving(t, Asked(t))) :
             res' = Inserted(Anchored(t, Origin(t), Asked(t), new))
    BY <1>12 DEF CancelStockTransfer
  <2>2. PICK place : place = Origin(t)
    OBVIOUS
  <2>3. \A k \in Items(t) : place[k][2] = xfer[t].items[k].variant /\ place[k] \in Inventories
    <3>1. \A k \in Items(t) : Origin(t)[k] \in Inventories
      BY <1>0, TransferType
    <3>2. QED
      BY <2>2, <3>1 DEF Origin
  <2>4. PICK new \in NewReservations(Reserving(t, f)) : res' = Inserted(Anchored(t, place, f, new))
    BY <1>6, <2>1, <2>2
  <2>5. \A k \in Items(t) : f[k] \in Nat /\ place[k][2] = xfer[t].items[k].variant
    BY <1>8, <2>3
  <2>6. /\ \A o \in Orders : \A v : HeldFor(o, v)' = HeldFor(o, v) + Total(ItemsFor(t, o, v), f)
        /\ Reanchored(t, place)
    BY <1>0, <2>4, <2>5, AnchoredDoes
  <2>7. Anchors
    <3>1. \A k \in Items(t) : place[k][2] = xfer[t].items[k].variant
      BY <2>3
    <3>2. \A l \in Lines : line'[l].qty = line[l].qty
      BY <1>1
    <3>3. QED
      BY <2>6, <3>1, <3>2, ReanchoredLines
  <2>8. ASSUME NEW o \in Orders, NEW v
        PROVE  HeldFor(o, v)' + OnTheWayFor(o, v)' = HeldFor(o, v) + OnTheWayFor(o, v)
    <3>1. PICK A, g : A = ItemsFor(t, o, v) /\ g = LeftOf(xfer[t])
      OBVIOUS
    <3>2. RowWay(xfer[t], o, v) = Total(A, g)
      BY <1>12, <3>1, WayItemsBefore DEF RowWay
    <3>3. ASSUME NEW k \in A PROVE g[k] = f[k]
      <4>1. k \in Items(t)
        BY <3>1, <3>3 DEF ItemsFor
      <4>2. g[k] = Left(xfer[t].items[k])
        BY <1>7, <3>1, <4>1 DEF LeftOf
      <4>3. QED
        BY <1>7, <1>12, <4>1, <4>2 DEF Left
    <3>4. Total(A, g) = Total(A, f)
      BY <3>3, TotalSame
    <3>5. HeldFor(o, v)' = HeldFor(o, v) + RowWay(xfer[t], o, v)
      BY <2>6, <3>1, <3>2, <3>4
    <3>6. HeldFor(o, v) \in Nat
      BY <1>0, HeldIsNat
    <3>7. QED
      BY <1>9, <3>5, <3>6
  <2>9. AllStock' + OnTheRoad(t)' = AllStock + OnTheRoad(t)
    <3>1. Summed(Items(t), f)
      BY <1>0, <1>8, ItemSums
    <3>2. ASSUME NEW i \in Inventories
          PROVE  inv'[i].stock = inv[i].stock + Total({k \in Items(t) : place[k] = i}, f)
      <4>1. PICK back : back = PerInventory(t, Origin(t), Asked(t))
        OBVIOUS
      <4>2. inv' = Booked(back, IF ForOrder(t) THEN back ELSE Nothing)
        BY <2>1, <4>1
      <4>3. inv'[i].stock = inv[i].stock + back[i]
        BY <4>2, BookedRows
      <4>4. back[i] = Total({k \in Items(t) : place[k] = i}, f)
        BY <1>6, <2>2, <4>1 DEF PerInventory
      <4>5. QED
        BY <4>3, <4>4
    <3>3. AllStock' = AllStock + Total(Items(t), f)
      <4>1. Enter(Items(t), place, f)
        BY <3>2 DEF Enter
      <4>2. \A k \in Items(t) : place[k] \in Inventories
        BY <2>3
      <4>3. QED
        BY <1>0, <3>1, <4>1, <4>2, StockMoves
    <3>4. \A k \in Items(t) : xfer[t].items[k].disp - xfer[t].items[k].rec = f[k]
      BY <1>7, <1>12
    <3>5. OnTheRoad(t) = Total(Items(t), f)
      BY <1>12, <3>4, RoadBefore
    <3>6. AllStock \in Nat /\ Total(Items(t), f) \in Nat
      BY <1>0, <3>1, AllStockIsNat, TotalNat
    <3>7. QED
      BY <1>10, <3>3, <3>5, <3>6
  <2>10. QED
    BY <1>1, <1>5, <2>7, <2>8, <2>9 DEF Carries
<1>13. QED
  BY <1>1, <1>11, <1>12

\* Units arrive, and some are found missing: their lines lose them.
Arrives(t, disc) ==
    /\ Follows(t) /\ xfer[t].status \in {"IN_TRANSIT", "PARTIALLY_RECEIVED"}
    /\ xfer'[t].status \in {"PARTIALLY_RECEIVED", "RECEIVED"}
    /\ \A k \in Items(t) : disc[k] \in Nat
    /\ line' = WithShortages(t, disc) /\ ReturnsSound(line') /\ Anchors
    /\ \A o \in Orders :
          /\ ord'[o].source = ord[o].source
          /\ ord'[o].status = ord[o].status \/ ord'[o].status = "PREPARING"
    /\ \A o \in Orders : \A v :
          HeldFor(o, v)' + OnTheWayFor(o, v)' + Total(ItemsFor(t, o, v), disc)
             = HeldFor(o, v) + OnTheWayFor(o, v)
    /\ AllStock' + OnTheRoad(t)' = AllStock + OnTheRoad(t)

LEMMA ShortagesKeepQuantities ==
    ASSUME Typed, NEW t, NEW disc, line' = WithShortages(t, disc), NEW l \in Lines
    PROVE  /\ line'[l].qty = line[l].qty /\ line'[l].picked = line[l].picked
           /\ line'[l].returned = line[l].returned
           /\ line'[l].reserved = line[l].reserved
                - Total({k \in Items(t) : ForOrder(t) /\ xfer[t].items[k].line = l}, disc)
<1>1. PICK lost : lost = Total({k \in Items(t) : ForOrder(t) /\ xfer[t].items[k].line = l}, disc)
  OBVIOUS
<1>2. line'[l] = [line[l] EXCEPT !.shortage = line[l].shortage + lost,
                                 !.reserved = line[l].reserved - lost]
  BY <1>1 DEF WithShortages
<1>3. QED
  BY <1>1, <1>2, LineType DEF LineRow

LEMMA ReceiveDoes ==
    ASSUME TransfersKept, TransfersKept', WayFacts, WayFacts', ReservationsNumbered, ItemsOfLines,
           NEW s \in Slots, NEW t \in XferIds, ReceiveStockTransfer(s, t)
    PROVE  \E disc : Arrives(t, disc)
<1>0. Typed /\ Typed' /\ TransferBalanced /\ TransferBalanced'
  BY DEF TransfersKept
<1>1. PICK rec \in [Items(t) -> 0..MaxQty], disc \in [Items(t) -> 0..MaxQty] :
         LET o == xfer[t].ord
             items == [k \in ItemKeys |->
                         IF k \in Items(t)
                         THEN [xfer[t].items[k] EXCEPT !.rec = xfer[t].items[k].rec + rec[k],
                                                       !.disc = xfer[t].items[k].disc + disc[k]]
                         ELSE NoItem]
             complete == \A k \in Items(t) : Left(items[k]) = 0
             arrived == PerInventory(t, Destination(t), rec)
         IN  /\ inv' = Booked(arrived, IF ForOrder(t) THEN arrived ELSE Nothing)
             /\ \E new \in NewReservations(Reserving(t, rec)) :
                  res' = Inserted(Anchored(t, Destination(t), rec, new))
             /\ line' = WithShortages(t, disc)
             /\ ReturnsSound(line')
             /\ xfer' = [xfer EXCEPT
                           ![t].status = IF complete THEN "RECEIVED" ELSE "PARTIALLY_RECEIVED",
                           ![t].items = items]
             /\ ord' = IF /\ ForOrder(t) /\ complete /\ Outstanding(o, t) = {}
                          /\ ord[o].status = "WAITING_TRANSFER"
                       THEN [ord EXCEPT ![o].status = "PREPARING"]
                       ELSE ord
  BY DEF ReceiveStockTransfer
<1>2. PICK items, status :
         /\ items = [k \in ItemKeys |->
                         IF k \in Items(t)
                         THEN [xfer[t].items[k] EXCEPT !.rec = xfer[t].items[k].rec + rec[k],
                                                       !.disc = xfer[t].items[k].disc + disc[k]]
                         ELSE NoItem]
         /\ status \in {"PARTIALLY_RECEIVED", "RECEIVED"}
         /\ xfer' = [xfer EXCEPT ![t].status = status, ![t].items = items]
  BY <1>1
<1>3. /\ xfer[t] \in TransferRow /\ xfer[t].status \in {"IN_TRANSIT", "PARTIALLY_RECEIVED"}
  BY <1>0, TransferType DEF ReceiveStockTransfer
<1>4. xfer' = [xfer EXCEPT ![t] = [xfer[t] EXCEPT !.status = status, !.items = items]]
  BY <1>0, <1>2 DEF Typed, TypeOK
<1>5. PICK row : row = [xfer[t] EXCEPT !.status = status, !.items = items]
  OBVIOUS
<1>6. row.status = status /\ row.items = items /\ row.ord = xfer[t].ord
  BY <1>3, <1>5 DEF TransferRow
<1>7. xfer'[t] = row /\ Others({t})
  <2>1. row.status # "ABSENT"
    BY <1>2, <1>6
  <2>2. xfer' = [xfer EXCEPT ![t] = row]
    BY <1>4, <1>5
  <2>3. QED
    BY <1>3, <2>1, <2>2, OneRow
<1>8. \A k \in Items(t) : rec[k] \in Nat /\ disc[k] \in Nat
  BY ErpAssumption
<1>9. ASSUME NEW k \in Items(t)
      PROVE  /\ k \in ItemKeys
             /\ xfer'[t].items[k].qty = xfer[t].items[k].qty
             /\ xfer'[t].items[k].disp = xfer[t].items[k].disp
             /\ xfer'[t].items[k].line = xfer[t].items[k].line
             /\ xfer'[t].items[k].variant = xfer[t].items[k].variant
             /\ xfer'[t].items[k].rec = xfer[t].items[k].rec + rec[k]
             /\ xfer'[t].items[k].disc = xfer[t].items[k].disc + disc[k]
  <2>1. k \in ItemKeys
    BY DEF Items
  <2>2. xfer'[t].items[k] = [xfer[t].items[k] EXCEPT !.rec = xfer[t].items[k].rec + rec[k],
                                                     !.disc = xfer[t].items[k].disc + disc[k]]
    BY <1>2, <1>6, <1>7, <2>1
  <2>3. xfer[t].items[k] \in ItemRow
    BY <1>0, <2>1, TransferType
  <2>4. QED
    BY <2>1, <2>2, <2>3 DEF ItemRow
<1>10. ASSUME NEW k \in ItemKeys, k \notin Items(t)
       PROVE  xfer'[t].items[k].qty = xfer[t].items[k].qty
  <2>1. xfer'[t].items[k] = NoItem
    BY <1>2, <1>6, <1>7, <1>10
  <2>2. xfer'[t].items[k].qty = 0
    BY <2>1 DEF NoItem, Item
  <2>3. xfer[t].items[k].qty \in Nat /\ ~(xfer[t].items[k].qty > 0)
    BY <1>0, <1>10, TransferType DEF Items
  <2>4. QED
    BY <2>2, <2>3
<1>11. Follows(t) /\ xfer'[t].status = status
  <2>1. \A k \in ItemKeys : xfer'[t].items[k].qty = xfer[t].items[k].qty
    BY <1>9, <1>10
  <2>2. \A k \in Items(t) : /\ xfer'[t].items[k].line = xfer[t].items[k].line
                            /\ xfer'[t].items[k].variant = xfer[t].items[k].variant
    BY <1>9
  <2>3. QED
    BY <1>3, <1>6, <1>7, <2>1, <2>2 DEF Follows
<1>12. ASSUME NEW k \in Items(t)
       PROVE  /\ LeftOf(xfer'[t])[k] \in Nat
              /\ LeftOf(xfer[t])[k] = LeftOf(xfer'[t])[k] + (rec[k] + disc[k])
              /\ xfer'[t].items[k].disp - xfer'[t].items[k].rec \in Nat
              /\ xfer[t].items[k].disp - xfer[t].items[k].rec
                    = xfer'[t].items[k].disp - xfer'[t].items[k].rec + rec[k]
  <2>1. PICK a, b : a = xfer[t].items[k] /\ b = xfer'[t].items[k]
    OBVIOUS
  <2>2. k \in ItemKeys /\ rec[k] \in Nat /\ disc[k] \in Nat
    BY <1>8, <1>9
  <2>3. a.disp \in Nat /\ a.rec \in Nat /\ a.disc \in Nat
    BY <1>0, <2>1, <2>2, TransferType
  <2>4. b.disp = a.disp /\ b.rec = a.rec + rec[k] /\ b.disc = a.disc + disc[k]
    BY <1>9, <2>1
  <2>5. b.rec + b.disc <= b.disp
    BY <1>0, <2>1, <2>2 DEF TransferBalanced
  <2>6. LeftOf(xfer[t])[k] = a.disp - a.rec - a.disc /\ LeftOf(xfer'[t])[k] = b.disp - b.rec - b.disc
    BY <2>1, <2>2 DEF LeftOf, Left
  <2>7. QED
    BY <2>1, <2>2, <2>3, <2>4, <2>5, <2>6
<1>13. PICK place : place = Destination(t)
  OBVIOUS
<1>14. \A k \in Items(t) : place[k][2] = xfer[t].items[k].variant /\ place[k] \in Inventories
  <2>1. \A k \in Items(t) : Destination(t)[k] \in Inventories
    BY <1>0, TransferType
  <2>2. QED
    BY <1>13, <2>1 DEF Destination
<1>15. /\ \A o \in Orders : \A v : HeldFor(o, v)' = HeldFor(o, v) + Total(ItemsFor(t, o, v), rec)
       /\ Reanchored(t, place)
  <2>1. PICK new \in NewReservations(Reserving(t, rec)) :
           res' = Inserted(Anchored(t, place, rec, new))
    BY <1>1, <1>13
  <2>2. \A k \in Items(t) : rec[k] \in Nat /\ place[k][2] = xfer[t].items[k].variant
    BY <1>8, <1>14
  <2>3. QED
    BY <1>0, <2>1, <2>2, AnchoredDoes
<1>16. line' = WithShortages(t, disc) /\ ReturnsSound(line')
  BY <1>1
<1>17. Anchors
  <2>1. \A l \in Lines : line'[l].qty = line[l].qty
    BY <1>0, <1>16, ShortagesKeepQuantities
  <2>2. \A k \in Items(t) : place[k][2] = xfer[t].items[k].variant
    BY <1>14
  <2>3. QED
    BY <1>15, <2>1, <2>2, ReanchoredLines
<1>18. ASSUME NEW o \in Orders, NEW v
       PROVE  HeldFor(o, v)' + OnTheWayFor(o, v)' + Total(ItemsFor(t, o, v), disc)
                 = HeldFor(o, v) + OnTheWayFor(o, v)
  <2>1. PICK A, g, h, both : /\ A = ItemsFor(t, o, v) /\ g = LeftOf(xfer[t]) /\ h = LeftOf(xfer'[t])
                             /\ both = [k \in Items(t) |-> rec[k] + disc[k]]
    OBVIOUS
  <2>2. A \subseteq Items(t) /\ Summed(A, rec) /\ Summed(A, disc) /\ IsFiniteSet(A)
    <3>1. A \subseteq Items(t)
      BY <2>1 DEF ItemsFor
    <3>2. Summed(A, rec) /\ Summed(A, disc)
      BY <1>0, <1>8, <2>1, ItemSums
    <3>3. QED
      BY <3>1, <3>2 DEF Summed
  <2>3. RowWay(xfer[t], o, v) = Total(A, g)
    BY <1>3, <2>1, WayItemsBefore DEF RowWay
  <2>4. RowWay(xfer'[t], o, v) = Total(A, h)
    <3>1. xfer'[t].status # "CANCELLED"
      BY <1>2, <1>11
    <3>2. QED
      BY <1>11, <2>1, <3>1, WayItemsAfter DEF RowWay
  <2>5. \A k \in A : /\ h[k] \in Nat /\ both[k] \in Nat /\ rec[k] \in Nat /\ disc[k] \in Nat
                     /\ g[k] = h[k] + both[k] /\ both[k] = rec[k] + disc[k]
    BY <1>8, <1>12, <2>1, <2>2
  <2>6. Total(A, g) = Total(A, h) + Total(A, both)
    BY <2>2, <2>5, TotalPlus
  <2>7. Total(A, both) = Total(A, rec) + Total(A, disc)
    BY <2>2, <2>5, TotalPlus
  <2>8. Summed(A, h) /\ Summed(A, rec) /\ Summed(A, disc)
    BY <2>2, <2>5 DEF Summed
  <2>9. Total(A, h) \in Nat /\ Total(A, rec) \in Nat /\ Total(A, disc) \in Nat
    BY <2>8, TotalNat
  <2>10. OnTheWayFor(o, v)' + RowWay(xfer[t], o, v) = OnTheWayFor(o, v) + RowWay(xfer'[t], o, v)
    BY <1>7, WayMoves
  <2>11. OnTheWayFor(o, v) \in Nat /\ OnTheWayFor(o, v)' \in Nat
    BY DEF WayFacts
  <2>12. HeldFor(o, v)' = HeldFor(o, v) + Total(A, rec) /\ HeldFor(o, v) \in Nat
    BY <1>0, <1>15, <2>1, HeldIsNat
  <2>13. QED
    BY <2>1, <2>3, <2>4, <2>6, <2>7, <2>9, <2>10, <2>11, <2>12
<1>19. AllStock' + OnTheRoad(t)' = AllStock + OnTheRoad(t)
  <2>1. Summed(Items(t), rec) /\ IsFiniteSet(Items(t))
    <3>1. Summed(Items(t), rec)
      BY <1>0, <1>8, ItemSums
    <3>2. QED
      BY <3>1 DEF Summed
  <2>2. Enter(Items(t), place, rec)
    <3>1. ASSUME NEW i \in Inventories
          PROVE  inv'[i].stock = inv[i].stock + Total({k \in Items(t) : place[k] = i}, rec)
      <4>1. PICK arrived : arrived = PerInventory(t, Destination(t), rec)
        OBVIOUS
      <4>2. inv' = Booked(arrived, IF ForOrder(t) THEN arrived ELSE Nothing)
        BY <1>1, <4>1
      <4>3. inv'[i].stock = inv[i].stock + arrived[i]
        BY <4>2, BookedRows
      <4>4. arrived[i] = Total({k \in Items(t) : place[k] = i}, rec)
        BY <1>13, <4>1 DEF PerInventory
      <4>5. QED
        BY <4>3, <4>4
    <3>2. QED
      BY <3>1 DEF Enter
  <2>3. \A k \in Items(t) : place[k] \in Inventories
    BY <1>14
  <2>4. AllStock' = AllStock + Total(Items(t), rec)
    BY <1>0, <2>1, <2>2, <2>3, StockMoves
  <2>5. PICK g, h : /\ g = [k \in Items(t) |-> xfer[t].items[k].disp - xfer[t].items[k].rec]
                    /\ h = [k \in Items(t) |-> xfer'[t].items[k].disp - xfer'[t].items[k].rec]
    OBVIOUS
  <2>6. \A k \in Items(t) : /\ g[k] = xfer[t].items[k].disp - xfer[t].items[k].rec
                            /\ h[k] = xfer'[t].items[k].disp - xfer'[t].items[k].rec
                            /\ h[k] \in Nat /\ rec[k] \in Nat /\ g[k] = h[k] + rec[k]
    BY <1>8, <1>12, <2>5
  <2>7. OnTheRoad(t) = Total(Items(t), g)
    <3>1. xfer[t].status # "CANCELLED"
      BY <1>3
    <3>2. \A k \in Items(t) : xfer[t].items[k].disp - xfer[t].items[k].rec = g[k]
      BY <2>6
    <3>3. QED
      BY <3>1, <3>2, RoadBefore
  <2>8. OnTheRoad(t)' = Total(Items(t), h)
    <3>1. xfer'[t].status # "CANCELLED"
      BY <1>2, <1>11
    <3>2. \A k \in Items(t) : xfer'[t].items[k].disp - xfer'[t].items[k].rec = h[k]
      BY <2>6
    <3>3. QED
      BY <1>11, <3>1, <3>2, RoadAfter
  <2>9. Total(Items(t), g) = Total(Items(t), h) + Total(Items(t), rec)
    BY <2>1, <2>6, TotalPlus
  <2>10. Summed(Items(t), h)
    BY <2>1, <2>6 DEF Summed
  <2>11. AllStock \in Nat /\ Total(Items(t), rec) \in Nat /\ Total(Items(t), h) \in Nat
    BY <1>0, <2>1, <2>10, AllStockIsNat, TotalNat
  <2>12. QED
    BY <2>4, <2>7, <2>8, <2>9, <2>11
<1>20. ASSUME NEW o \in Orders
       PROVE  /\ ord'[o].source = ord[o].source
              /\ ord'[o].status = ord[o].status \/ ord'[o].status = "PREPARING"
  <2>1. ord' = ord \/ ord' = [ord EXCEPT ![xfer[t].ord].status = "PREPARING"]
    BY <1>1
  <2>2. ord' = [ord EXCEPT ![xfer[t].ord].status = "PREPARING"] =>
           ord'[o] = ord[o] \/ ord'[o] = [ord[o] EXCEPT !.status = "PREPARING"]
    BY <1>0 DEF Typed, TypeOK
  <2>3. ord[o] \in OrderRow
    BY <1>0 DEF Typed, TypeOK
  <2>4. ord'[o] = ord[o] \/ ord'[o] = [ord[o] EXCEPT !.status = "PREPARING"]
    BY <2>1, <2>2
  <2>5. QED
    BY <2>3, <2>4 DEF OrderRow
<1>21. \A k \in Items(t) : disc[k] \in Nat
  BY <1>8
<1>22. Arrives(t, disc)
  BY <1>2, <1>3, <1>11, <1>16, <1>17, <1>18, <1>19, <1>20, <1>21 DEF Arrives
<1>23. QED
  BY <1>22

-----------------------------------------------------------------------------
(* New transfers.                                                            *)

\* Transfers that an order, or nobody, asks for: those of an order bring what is
\* reserved for it elsewhere.
AsksFor(T, o, source) ==
    /\ Asking(T)
    /\ \A t \in T :
          /\ xfer'[t].ord = o
          /\ o # Null => \A k \in ItemKeys : xfer'[t].items[k].qty > 0 =>
                /\ k \in ResIds /\ res'[k].status = "ACTIVE" /\ res'[k].ord = o
                /\ res'[k].inv[1] # source
                /\ xfer'[t].items[k].line = res'[k].line
                /\ xfer'[t].items[k].variant = res'[k].inv[2]

LEMMA NobodyAsks ==
    ASSUME UNCHANGED xfer, NEW o, NEW source PROVE AsksFor({}, o, source)
BY DEF AsksFor, Asking, Others

LEMMA RemoteTransfersDo ==
    ASSUME TransfersKept, NEW o, NEW source, EnsureRemoteTransfers(res', o, source)
    PROVE  \E T : AsksFor(T, o, source)
<1>0. PICK table : table = res'
  OBVIOUS
<1> DEFINE from == RemoteStores(table, o, source)
           held(store) == RemoteReservations(table, o, store)
           items(store) == [r \in ItemKeys |->
                              IF r \in held(store)
                              THEN Item(table[r].line, table[r].inv[2], table[r].qty)
                              ELSE NoItem]
           row(store) == [status |-> "PENDING", from |-> store, to |-> source, ord |-> o,
                          items |-> items(store)]
           m == Cardinality(from)
<1>1. PICK new \in [UsedXfer + 1 .. UsedXfer + m -> from] :
         /\ DOMAIN new \subseteq XferIds
         /\ xfer' = [t \in XferIds |-> IF t \in DOMAIN new THEN row(new[t]) ELSE xfer[t]]
  <2>1. EnsureRemoteTransfers(table, o, source)
    BY <1>0
  <2>2. QED
    BY <2>1 DEF EnsureRemoteTransfers
<1>2. m \in Nat
  <2>1. IsFiniteSet(from)
    BY ErpAssumption, FS_Subset DEF RemoteStores
  <2> HIDE DEF from
  <2>2. QED
    BY <2>1, FS_CardinalityType
<1>3. \A store : /\ row(store).status = "PENDING" /\ row(store).items = items(store)
                 /\ row(store).ord = o
                 /\ \A k \in ItemKeys : /\ items(store)[k].disp = 0
                                        /\ items(store)[k].rec = 0 /\ items(store)[k].disc = 0
  BY DEF Item, NoItem
<1>31. ASSUME NEW store \in from, NEW k \in ItemKeys, items(store)[k].qty > 0
       PROVE  /\ k \in ResIds /\ table[k].status = "ACTIVE" /\ table[k].ord = o
              /\ table[k].inv[1] # source
              /\ items(store)[k].line = table[k].line /\ items(store)[k].variant = table[k].inv[2]
  <2>1. k \in held(store)
    BY <1>31 DEF NoItem, Item
  <2>2. items(store)[k] = Item(table[k].line, table[k].inv[2], table[k].qty)
    BY <2>1
  <2>3. QED
    BY <2>1, <2>2 DEF Item, RemoteReservations, RemoteStores
<1> DEFINE T == UsedXfer + 1 .. UsedXfer + m
<1>4. DOMAIN new = T /\ T \subseteq XferIds /\ \A t \in T : new[t] \in from
  BY <1>1
<1> HIDE DEF row, items, m, T, from
<1>5. \A t \in T : xfer'[t] = row(new[t])
  BY <1>1, <1>4
<1>6. Others(T)
  BY <1>1, <1>4 DEF Others
<1>7. \A t \in T : xfer'[t].status = "PENDING"
  BY <1>3, <1>5
<1>8. \A t \in T : xfer[t].status = "ABSENT"
  BY <1>2, <1>4, <1>6, <1>7, NextNumbers DEF Others, T, TransfersKept
<1>9. Asking(T)
  BY <1>3, <1>4, <1>5, <1>6, <1>7, <1>8 DEF Asking
<1>10. ASSUME NEW t \in T, NEW k \in ItemKeys, xfer'[t].items[k].qty > 0
       PROVE  /\ k \in ResIds /\ table[k].status = "ACTIVE" /\ table[k].ord = o
              /\ table[k].inv[1] # source
              /\ xfer'[t].items[k].line = table[k].line
              /\ xfer'[t].items[k].variant = table[k].inv[2]
  <2>1. xfer'[t].items = items(new[t]) /\ new[t] \in from
    BY <1>3, <1>4, <1>5
  <2>2. QED
    BY <1>10, <1>31, <2>1
<1>11. \A t \in T : xfer'[t].ord = o
  BY <1>3, <1>5
<1>12. AsksFor(T, o, source)
  BY <1>0, <1>9, <1>10, <1>11 DEF AsksFor
<1>13. QED
  BY <1>12

LEMMA CreateTransferDoes ==
    ASSUME TransfersKept, NEW s \in Slots, CreateStockTransfer(s), NEW source
    PROVE  \E T : AsksFor(T, Null, source)
<1> DEFINE u == UsedXfer + 1
<1>1. PICK from \in Stores, to \in Stores, n \in 1..MaxItems :
        /\ from # to
        /\ \E v \in [1..n -> Variants], q \in [1..n -> 1..MaxQty] :
             xfer' = [xfer EXCEPT ![UsedXfer + 1] =
                        [status |-> "PENDING", from |-> from, to |-> to, ord |-> Null,
                         items |-> [k \in ItemKeys |-> IF k \in 1..n THEN Item(Null, v[k], q[k])
                                                      ELSE NoItem]]]
  BY ZenonT(60) DEF CreateStockTransfer
<1>2. PICK v \in [1..n -> Variants], q \in [1..n -> 1..MaxQty] :
          xfer' = [xfer EXCEPT ![u] =
                     [status |-> "PENDING", from |-> from, to |-> to, ord |-> Null,
                      items |-> [k \in ItemKeys |-> IF k \in 1..n THEN Item(Null, v[k], q[k])
                                                   ELSE NoItem]]]
  BY <1>1
<1> DEFINE items == [k \in ItemKeys |-> IF k \in 1..n THEN Item(Null, v[k], q[k]) ELSE NoItem]
           row == [status |-> "PENDING", from |-> from, to |-> to, ord |-> Null, items |-> items]
<1>3. xfer' = [xfer EXCEPT ![u] = row]
  BY <1>2
<1>4. \A k \in ItemKeys : items[k].disp = 0 /\ items[k].rec = 0 /\ items[k].disc = 0
  BY DEF Item, NoItem
<1>5. row.status = "PENDING" /\ row.items = items /\ row.ord = Null
  OBVIOUS
<1> HIDE DEF row, items
<1>6. UsedXfer \in Nat /\ u \in XferIds
  <2>1. PICK m \in 0..MaxTransfers : Numbered(m)
    BY DEF TransfersKept, TransfersNumbered
  <2>2. UsedXfer = m /\ m < MaxTransfers
    BY <2>1, UsedTransfers DEF CreateStockTransfer
  <2>3. QED
    BY <2>2, ErpAssumption DEF XferIds
<1>7. xfer'[u] = row /\ Others({u})
  BY <1>3, <1>6 DEF Others, TransfersKept, Typed, TypeOK
<1>8. xfer[u].status = "ABSENT"
  <2>1. UsedXfer + 1 .. UsedXfer + 1 = {u}
    BY <1>6
  <2>2. \A t \in {u} : xfer'[t].status # "ABSENT"
    BY <1>5, <1>7
  <2> HIDE DEF u
  <2>3. QED
    BY <1>6, <1>7, <2>1, <2>2, NextNumbers DEF Others, TransfersKept
<1>9. Asking({u})
  <2> HIDE DEF u
  <2>1. QED
    BY <1>4, <1>5, <1>6, <1>7, <1>8 DEF Asking
<1>10. AsksFor({u}, Null, source)
  <2> HIDE DEF u
  <2>1. QED
    BY <1>5, <1>7, <1>9 DEF AsksFor
<1>11. QED
  BY <1>10

\* They have nothing on the road and bring nothing yet.
LEMMA AskedRest ==
    ASSUME TransfersKept, WayFacts, WayFacts', NEW T, NEW o, NEW source, AsksFor(T, o, source)
    PROVE  /\ \A p, v : OnTheWayFor(p, v)' = OnTheWayFor(p, v)
           /\ \A t \in XferIds : OnTheRoad(t)' = OnTheRoad(t)
           /\ \A t \in XferIds : xfer[t].status # "ABSENT" => xfer'[t] = xfer[t]
<1>1. \A t \in XferIds : xfer'[t] = xfer[t] \/ (t \in T /\ Resting(xfer[t]) /\ Resting(xfer'[t]))
  BY DEF AsksFor, Asking, Others, Resting
<1>2. \A p, v : OnTheWayFor(p, v)' = OnTheWayFor(p, v)
  BY <1>1, WayRests
<1>3. ASSUME NEW t \in XferIds PROVE OnTheRoad(t)' = OnTheRoad(t)
  <2>1. CASE xfer'[t] = xfer[t]
    BY <2>1 DEF OnTheRoad, Items
  <2>2. CASE t \in T
    <3>1. /\ xfer[t].status = "ABSENT" /\ xfer'[t].status = "PENDING"
          /\ \A k \in ItemKeys : xfer'[t].items[k].disp = 0 /\ xfer'[t].items[k].rec = 0
      BY <2>2 DEF AsksFor, Asking
    <3>2. OnTheRoad(t) = 0
      <4>1. Items(t) = {}
        BY <3>1 DEF Items, TransfersKept, TransferBalanced
      <4>2. QED
        BY <3>1, <4>1, TotalEmpty DEF OnTheRoad
    <3>3. OnTheRoad(t)' = 0
      <4>1. PICK A, f : A = Items(t)' /\ f = [k \in A |-> 0]
        OBVIOUS
      <4>2. OnTheRoad(t)' = Total(A, [k \in A |-> xfer'[t].items[k].disp - xfer'[t].items[k].rec])
        BY <3>1, <4>1 DEF OnTheRoad
      <4>3. A \subseteq ItemKeys
        BY <4>1 DEF Items
      <4>4. [k \in A |-> xfer'[t].items[k].disp - xfer'[t].items[k].rec] = f
        BY <3>1, <4>1, <4>3
      <4>5. Summed(A, f) /\ \A k \in A : f[k] <= 0
        <5>1. IsFiniteSet(A)
          BY <4>3, ItemsAreFinite, FS_Subset
        <5>2. QED
          BY <4>1, <5>1 DEF Summed
      <4>6. QED
        BY <4>2, <4>4, <4>5, TotalZero
    <3>4. QED
      BY <3>2, <3>3
  <2>3. QED
    BY <1>1, <2>1, <2>2
<1>4. \A t \in XferIds : xfer[t].status # "ABSENT" => xfer'[t] = xfer[t]
  BY DEF AsksFor, Asking, Others
<1>5. QED
  BY <1>2, <1>3, <1>4

\* A confirmation asks for the transfers of its order.
LEMMA ConfirmDoes ==
    ASSUME TransfersKept, NEW s \in Slots, ConfirmOrder(s)
    PROVE  /\ UNCHANGED <<inv, line, res>>
           /\ req[s].ord \in Orders /\ ord'[req[s].ord].status \in {"WAITING_TRANSFER", "CONFIRMED"}
           /\ ord'[req[s].ord].source = ord[req[s].ord].source
           /\ \E T : AsksFor(T, req[s].ord, ord'[req[s].ord].source)
<1>1. PICK o : o = req[s].ord
  OBVIOUS
<1>2. o \in Orders
  BY <1>1, StatusRequest DEF ConfirmOrder, TransfersKept
<1>3. /\ EnsureRemoteTransfers(res, o, ord[o].source) /\ UNCHANGED <<inv, line, res>>
      /\ \E status \in {"WAITING_TRANSFER", "CONFIRMED"} : ord' = [ord EXCEPT ![o].status = status]
  BY <1>1 DEF ConfirmOrder
<1>4. ord'[o].status \in {"WAITING_TRANSFER", "CONFIRMED"} /\ ord'[o].source = ord[o].source
  BY <1>2, <1>3 DEF TransfersKept, Typed, TypeOK, OrderRow
<1>5. EnsureRemoteTransfers(res', o, ord'[o].source)
  BY <1>3, <1>4
<1>6. \E T : AsksFor(T, o, ord'[o].source)
  BY <1>5, RemoteTransfersDo
<1>7. QED
  BY <1>1, <1>2, <1>3, <1>4, <1>6

-----------------------------------------------------------------------------
(* Every step, by what it does to what is held, what is on the way and what   *)
(* is delivered.                                                             *)

\* Who makes an order DELIVERED.
LEMMA BecomesDelivered ==
    ASSUME Typed, TransfersKept, Next, NEW o \in Orders,
           ord'[o].status = "DELIVERED", ord[o].status # "DELIVERED"
    PROVE  \/ \E s \in Slots, p \in Orders : CreateOrder(s, p) \/ CreateMarketplaceOrder(s, p)
           \/ \E s \in Slots : Settles(s)
<1>1. StatusWritten(o)
  BY StatusWrites
<1>2. ASSUME NEW s \in Slots, Commits(s), req[s].ord = o PROVE Settles(s)
  <2>1. ~ConfirmOrder(s)
    BY <1>2, ConfirmDoes
  <2>2. ~MoveOrder(s)
    <3>1. MoveOrder(s) => \E status \in {"WAITING_STOCK", "WAITING_TRANSFER", "PREPARING"} :
                             ord' = [ord EXCEPT ![o].status = status]
      BY <1>2 DEF MoveOrder
    <3>2. QED
      BY <3>1 DEF Typed, TypeOK, OrderRow
  <2>3. ~(CancelOrder(s) /\ req[s].picked)
    <3>1. CancelOrder(s) /\ req[s].picked =>
             \E row \in OrderRow : ord' = [ord EXCEPT ![o] = [row EXCEPT !.status = "RETURN_PENDING"]]
      <4>1. ord[o] \in OrderRow /\ WithSessionCancelled(ord[o]) \in OrderRow
        BY SessionCancelledType DEF Typed, TypeOK
      <4>2. QED
        BY <1>2, <4>1 DEF CancelOrder
    <3>2. \A row \in OrderRow : [row EXCEPT !.status = "RETURN_PENDING"].status = "RETURN_PENDING"
      BY DEF OrderRow
    <3>3. QED
      BY <3>1, <3>2 DEF Typed, TypeOK
  <2>4. QED
    BY <1>2, <2>1, <2>2, <2>3 DEF Commits, Settles
<1>3. QED
  BY <1>1, <1>2 DEF StatusWritten

\* Who makes an order READY or DELIVERED has nothing on the way to it.
TransfersOrdered == \A t \in XferIds : ForOrder(t) => Placed(xfer[t].ord)
Gathered == \A o \in Orders : ord[o].status \in {"READY", "DELIVERED"} => MovingFor(o) = {}

LEMMA ReadyGathers ==
    ASSUME Typed, TransfersKept, LocksHold, RequestsKnow, AllKnow, TransfersOrdered, Gathered, Next,
           NEW o \in Orders, ord'[o].status \in {"READY", "DELIVERED"}
    PROVE  MovingFor(o) = {}
<1>1. StatusWritten(o)
  BY StatusWrites
<1>2. CASE ord[o].status \in {"READY", "DELIVERED"}
  BY <1>2 DEF Gathered
<1>3. CASE ~Placed(o)
  <2>1. \A t \in XferIds : xfer[t].ord # o
    <3>1. o # Null
      BY ErpAssumption
    <3>2. QED
      BY <1>3, <3>1 DEF TransfersOrdered, ForOrder
  <2>2. QED
    BY <2>1 DEF MovingFor
<1>4. ASSUME NEW s \in Slots, CompletePickingWrite(s), req[s].ord = o PROVE MovingFor(o) = {}
  BY <1>4 DEF AllKnow, KnowsOrder, CompletePickingWrite, At
<1>5. ASSUME NEW s \in Slots, Commits(s), req[s].ord = o, ord[o].status \notin {"READY", "DELIVERED"},
             Placed(o)
      PROVE  FALSE
  <2>1. ~ConfirmOrder(s)
    BY <1>5, ConfirmDoes
  <2>2. ~MoveOrder(s)
    <3>1. MoveOrder(s) => \E status \in {"WAITING_STOCK", "WAITING_TRANSFER", "PREPARING"} :
                             ord' = [ord EXCEPT ![o].status = status]
      BY <1>5 DEF MoveOrder
    <3>2. QED
      BY <3>1 DEF Typed, TypeOK, OrderRow
  <2>3. ~(CancelOrder(s) /\ req[s].picked)
    <3>1. CancelOrder(s) /\ req[s].picked =>
             \E row \in OrderRow : ord' = [ord EXCEPT ![o] = [row EXCEPT !.status = "RETURN_PENDING"]]
      <4>1. ord[o] \in OrderRow /\ WithSessionCancelled(ord[o]) \in OrderRow
        BY SessionCancelledType DEF Typed, TypeOK
      <4>2. QED
        BY <1>5, <4>1 DEF CancelOrder
    <3>2. \A row \in OrderRow : [row EXCEPT !.status = "RETURN_PENDING"].status = "RETURN_PENDING"
      BY DEF OrderRow
    <3>3. QED
      BY <3>1, <3>2 DEF Typed, TypeOK
  <2>4. ~Settles(s)
    <3>1. Locked(s)
      BY <1>5, CommitsLocked
    <3>2. KnowsOrder(req[s]) /\ LockKept(s) /\ ReqKnows(req[s])
      BY <3>1 DEF AllKnow, LocksHold, RequestsKnow
    <3>3. Settles(s) => Delivering(o) \/ Cancelling(o)
      BY <1>5, <3>2, SettlesDoes
    <3>4. QED
      BY <1>5, <3>3 DEF Delivering, Cancelling
  <2>5. QED
    BY <1>5, <2>1, <2>2, <2>3, <2>4 DEF Commits, Settles
<1>6. QED
  BY <1>1, <1>2, <1>3, <1>4, <1>5 DEF StatusWritten

NoneDelivered == \A o \in Orders : ord'[o].status = "DELIVERED" <=> ord[o].status = "DELIVERED"

\* An order, or nobody, asks for transfers and nothing else happens to the stock.
NewlyAsked(T, o) ==
    \/ o = Null /\ AsksFor(T, o, Null)
    \/ /\ o \in Orders /\ AsksFor(T, o, ord'[o].source)
       /\ ord'[o].status \in {"WAITING_TRANSFER", "PENDING", "CONFIRMED"}
Deed ==
    \/ \E o \in Orders : \E L, q, at : Sells(o, L, q, at)
    \/ \E o \in Orders : Delivering(o)
    \/ /\ NoneDelivered
       /\ \/ Calm
          \/ \E o \in Orders : \E L, q, got, at, anchor : Promises(o, L, q, got, at, anchor)
          \/ \E l, n : Reserves(l, n) /\ ord[LineOrder[l]].status # "DELIVERED"
          \/ \E l, n : Releases(l, n) /\ ord[LineOrder[l]].status # "DELIVERED"
          \/ \E o \in Orders : Cancelling(o)
          \/ UNCHANGED <<inv, line, res>> /\ \E T, o : NewlyAsked(T, o)
          \/ \E t \in XferIds : Carries(t) \/ \E disc : Arrives(t, disc)

LEMMA DeedDone ==
    ASSUME Alone, "reservation" \notin Endpoints, Typed', TransfersKept, TransfersKept', BooksHold,
           AllKnow, ItemsOfLines, Next
    PROVE  Deed
<1>0. /\ Typed /\ WayFacts /\ WayFacts' /\ ReservationsNumbered /\ OrderItems
      /\ LocksHold /\ RequestsKnow /\ AllFresh
  <2>1. WayFacts
    BY WaysAdded DEF TransfersKept
  <2>2. TransferBalanced'
    BY DEF TransfersKept
  <2>3. QED
    BY <2>1, <2>2, WaysAddedNext DEF TransfersKept, BooksHold
<1>1. StepKind
  BY <1>0, StepKinds
<1>2. ASSUME NEW s \in Slots, NEW o \in Orders, CreateOrder(s, o) PROVE Deed
  <2>1. PICK L, q, at : Sells(o, L, q, at) \/ \E anchor : Promises(o, L, q, q, at, anchor)
    BY <1>0, <1>2, CreateOrderDoes
  <2>2. ASSUME NEW anchor, Promises(o, L, q, q, at, anchor) PROVE NoneDelivered
    BY <2>2 DEF Promises, Ordered, NoneDelivered, Placed
  <2>3. QED
    BY <2>1, <2>2 DEF Deed
<1>3. ASSUME NEW s \in Slots, NEW o \in Orders, CreateMarketplaceOrder(s, o) PROVE Deed
  <2>1. PICK L, q, got, at, anchor : Promises(o, L, q, got, at, anchor)
    BY <1>0, <1>3, CheckoutDoes
  <2>2. NoneDelivered
    BY <2>1 DEF Promises, Ordered, NoneDelivered, Placed
  <2>3. QED
    BY <2>1, <2>2 DEF Deed
<1>4. ASSUME NEW s \in Slots, Settles(s) PROVE Deed
  <2>1. Locked(s)
    BY <1>4, CommitsLocked DEF Settles, Commits
  <2>2. req[s].ord \in Orders
    BY <1>0, <2>1, StatusRequest DEF Locked
  <2>3. Delivering(req[s].ord) \/ Cancelling(req[s].ord)
    BY <1>0, <1>4, <2>1, SettlesDoes DEF AllKnow, LocksHold, RequestsKnow
  <2>4. ASSUME Cancelling(req[s].ord) PROVE NoneDelivered
    <3>1. ord[req[s].ord].status # "DELIVERED"
      BY <1>0, <2>2, <2>4, ClosedStays DEF Cancelling, Closed
    <3>2. QED
      BY <2>4, <3>1 DEF Cancelling, Settling, OtherOrders, NoneDelivered
  <2>5. QED
    BY <2>2, <2>3, <2>4 DEF Deed
<1>5. ASSUME ~\E s \in Slots, o \in Orders : CreateOrder(s, o) \/ CreateMarketplaceOrder(s, o),
             ~\E s \in Slots : Settles(s)
      PROVE  Deed
  <2>1. NoneDelivered
    <3>1. ASSUME NEW o \in Orders, ord[o].status = "DELIVERED" PROVE ord'[o].status = "DELIVERED"
      BY <1>0, <3>1, ClosedStays DEF Closed
    <3>2. ASSUME NEW o \in Orders, ord'[o].status = "DELIVERED" PROVE ord[o].status = "DELIVERED"
      BY <1>0, <1>5, <3>2, BecomesDelivered
    <3>3. QED
      BY <3>1, <3>2 DEF NoneDelivered
  <2>2. ASSUME NEW s \in Slots, ReserveWrite(s)
        PROVE  \E l, n : Reserves(l, n) /\ ord[LineOrder[l]].status # "DELIVERED"
    <3>1. PICK n : Reserves(req[s].line, n)
      BY <1>0, <2>2, ReserveWriteDoes DEF AllKnow
    <3>2. Open(LineOrder[req[s].line])
      BY <1>0, <2>2 DEF AllFresh, Fresh, ReserveWrite, At
    <3>3. QED
      BY <3>1, <3>2 DEF Open, Closed
  <2>3. ASSUME NEW s \in Slots, ReleaseWrite(s)
        PROVE  \E l, n : Releases(l, n) /\ ord[LineOrder[l]].status # "DELIVERED"
    <3>1. PICK n : Releases(req[s].line, n)
      BY <1>0, <2>3, ReleaseWriteDoes DEF AllKnow, AllFresh
    <3>2. ord[LineOrder[req[s].line]].status # "DELIVERED"
      BY <2>3 DEF AllKnow, KnowsOrder, ReleaseWrite, At
    <3>3. QED
      BY <3>1, <3>2
  <2>4. ASSUME NEW s \in Slots, ConfirmOrder(s)
        PROVE  UNCHANGED <<inv, line, res>> /\ \E T, o : NewlyAsked(T, o)
    BY <2>4, ConfirmDoes DEF NewlyAsked
  <2>5. ASSUME NEW s \in Slots, CreateStockTransfer(s)
        PROVE  UNCHANGED <<inv, line, res>> /\ \E T, o : NewlyAsked(T, o)
    <3>1. UNCHANGED <<inv, line, res>>
      BY <2>5 DEF CreateStockTransfer
    <3>2. PICK T : AsksFor(T, Null, Null)
      BY <2>5, CreateTransferDoes
    <3>3. QED
      BY <3>1, <3>2 DEF NewlyAsked
  <2>6. ASSUME NEW s \in Slots, NEW t \in XferIds,
               \/ DispatchStockTransfer(s, t) \/ ReceiveStockTransfer(s, t)
               \/ CancelStockTransfer(s, t)
        PROVE  Carries(t) \/ \E disc : Arrives(t, disc)
    BY <1>0, <2>6, DispatchDoes, ReceiveDoes, CancelTransferDoes
  <2>7. QED
    BY <1>1, <1>5, <2>1, <2>2, <2>3, <2>4, <2>5, <2>6 DEF StepKind, Deed
<1>6. QED
  BY <1>2, <1>3, <1>4, <1>5
=============================================================================
