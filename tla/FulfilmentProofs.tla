--------------------------- MODULE FulfilmentProofs ---------------------------
(* Machine-checked: what the handlers of Fulfilment promise about the stock   *)
(* and about orders, for any number of stores, variants, orders, lines and    *)
(* requests in flight.  The types and the transfers are in FulfilmentTypes.   *)
EXTENDS FulfilmentTypes, FunctionTheorems
-----------------------------------------------------------------------------
(* Nothing is oversold.                                                      *)

LEMMA SameStock ==
    ASSUME NeverOversold, UNCHANGED inv PROVE NeverOversold'
  BY DEF NeverOversold, Sound

LEMMA SameLines ==
    ASSUME LinesNotOverReserved, UNCHANGED line PROVE LinesNotOverReserved'
  BY DEF LinesNotOverReserved

\* One inventory is updated and stays sound.
LEMMA OneInventorySound ==
    ASSUME Typed, NeverOversold, NEW i \in Inventories, NEW row,
           inv' = [inv EXCEPT ![i] = row], 0 <= row.reserved, row.reserved <= row.stock
    PROVE  NeverOversold'
  BY DEF NeverOversold, Sound, Typed, TypeOK

\* Units that arrive, and those of them that are reserved.
LEMMA ArrivalSound ==
    ASSUME Typed, NeverOversold, NEW f \in [Inventories -> Nat],
           inv' = Booked(f, f) \/ inv' = Booked(f, Nothing)
    PROVE  NeverOversold'
<1>1. ASSUME NEW i \in Inventories
      PROVE  0 <= inv'[i].reserved /\ inv'[i].reserved <= inv'[i].stock
  <2>1. inv[i].stock \in Nat /\ inv[i].reserved \in Nat /\ f[i] \in Nat /\ Nothing[i] = 0
    BY InventoryType, NothingType
  <2>2. 0 <= inv[i].reserved /\ inv[i].reserved <= inv[i].stock
    BY DEF NeverOversold, Sound
  <2>3. /\ inv'[i].stock = inv[i].stock + f[i]
        /\ inv'[i].reserved = inv[i].reserved + f[i] \/ inv'[i].reserved = inv[i].reserved + Nothing[i]
    BY DEF Booked
  <2>4. QED
    BY <2>1, <2>2, <2>3
<1>2. QED
  BY <1>1 DEF NeverOversold, Sound

\* Units that were available are taken or reserved.
LEMMA TakenSound ==
    ASSUME Typed, NeverOversold, NEW f \in [Inventories -> Nat],
           \A i \in Inventories : f[i] > 0 => Available(i) >= f[i],
           inv' = Booked(Minus(f), Nothing) \/ inv' = Booked(Nothing, f)
    PROVE  NeverOversold'
<1>1. ASSUME NEW i \in Inventories
      PROVE  0 <= inv'[i].reserved /\ inv'[i].reserved <= inv'[i].stock
  <2>1. inv[i].stock \in Nat /\ inv[i].reserved \in Nat /\ f[i] \in Nat /\ Nothing[i] = 0
    BY InventoryType, NothingType
  <2>2. 0 <= inv[i].reserved /\ inv[i].reserved <= inv[i].stock
    BY DEF NeverOversold, Sound
  <2>3. \/ /\ inv'[i].stock = inv[i].stock + (-f[i])
           /\ inv'[i].reserved = inv[i].reserved + Nothing[i]
        \/ /\ inv'[i].stock = inv[i].stock + Nothing[i]
           /\ inv'[i].reserved = inv[i].reserved + f[i]
    BY DEF Booked, Minus
  <2>4. f[i] > 0 => inv[i].stock - inv[i].reserved >= f[i]
    BY DEF Available
  <2>5. QED
    BY <2>1, <2>2, <2>3, <2>4
<1>2. QED
  BY <1>1 DEF NeverOversold, Sound

\* The rows of some lines are written, none with more reserved than ordered.
LEMMA LinesWritten ==
    ASSUME LinesNotOverReserved,
           \A l \in Lines : line'[l] = line[l] \/ line'[l].reserved <= line'[l].qty
    PROVE  LinesNotOverReserved'
  BY DEF LinesNotOverReserved

LEMMA WarehouseNotOversold ==
    ASSUME Typed, NothingOversold, WarehouseNext
    PROVE  NothingOversold'
<1>1. PICK s \in Slots :
        \/ \E i \in Inventories : CreateMovement(s, i) \/ CreateReservation(s, i)
        \/ ReconcileReservedStock(s)
        \/ CreateStockTransfer(s)
        \/ \E t \in XferIds : \/ DispatchStockTransfer(s, t)
                              \/ ReceiveStockTransfer(s, t)
                              \/ CancelStockTransfer(s, t)
  BY DEF WarehouseNext
<1> USE DEF NothingOversold
<1>2. ASSUME NEW i \in Inventories, CreateMovement(s, i) PROVE NothingOversold'
  <2>1. PICK delta \in (-MaxQty..MaxQty) \ {0} :
            /\ MovementFits(i, delta)
            /\ inv' = [inv EXCEPT ![i].stock = inv[i].stock + delta]
    BY <1>2 DEF CreateMovement
  <2> DEFINE row == [inv[i] EXCEPT !.stock = inv[i].stock + delta]
  <2>2. inv[i] \in InventoryRow /\ inv[i].reserved \in Nat
    BY InventoryType
  <2>3. row.reserved = inv[i].reserved /\ row.stock = inv[i].stock + delta
    BY <2>2 DEF InventoryRow
  <2>4. inv' = [inv EXCEPT ![i] = row]
    BY <2>1
  <2>5. 0 <= row.reserved /\ row.reserved <= row.stock
    BY <2>1, <2>2, <2>3, ErpAssumption DEF MovementFits
  <2> HIDE DEF row
  <2>6. NeverOversold'
    BY <2>4, <2>5, OneInventorySound
  <2>7. UNCHANGED line
    BY <1>2 DEF CreateMovement
  <2>8. QED
    BY <2>6, <2>7, SameLines
<1>3. ASSUME NEW i \in Inventories, CreateReservation(s, i) PROVE NothingOversold'
  <2>1. PICK q \in 1..MaxQty :
            /\ Fits(i, q)
            /\ inv' = [inv EXCEPT ![i].reserved = inv[i].reserved + q]
    BY <1>3 DEF CreateReservation
  <2> DEFINE row == [inv[i] EXCEPT !.reserved = inv[i].reserved + q]
  <2>2. inv[i] \in InventoryRow /\ inv[i].reserved \in Nat /\ inv[i].stock \in Nat
    BY InventoryType
  <2>3. row.reserved = inv[i].reserved + q /\ row.stock = inv[i].stock
    BY <2>2 DEF InventoryRow
  <2>4. inv' = [inv EXCEPT ![i] = row]
    BY <2>1
  <2>5. 0 <= row.reserved /\ row.reserved <= row.stock
    BY <2>1, <2>2, <2>3, ErpAssumption DEF Fits, Available
  <2> HIDE DEF row
  <2>6. NeverOversold'
    BY <2>4, <2>5, OneInventorySound
  <2>7. UNCHANGED line
    BY <1>3 DEF CreateReservation
  <2>8. QED
    BY <2>6, <2>7, SameLines
<1>4. CASE ReconcileReservedStock(s)
  <2>1. Sound(inv') /\ UNCHANGED line
    BY <1>4 DEF ReconcileReservedStock
  <2>2. QED
    BY <2>1, SameLines DEF NeverOversold, Sound
<1>5. CASE CreateStockTransfer(s)
  BY <1>5, SameLines, SameStock DEF CreateStockTransfer
<1>6. ASSUME NEW t \in XferIds, DispatchStockTransfer(s, t) PROVE NothingOversold'
  <2>1. Sound(inv') /\ UNCHANGED line
    BY <1>6 DEF DispatchStockTransfer
  <2>2. QED
    BY <2>1, SameLines DEF NeverOversold, Sound
<1>7. ASSUME NEW t \in XferIds, ReceiveStockTransfer(s, t) PROVE NothingOversold'
  <2>1. PICK rec \in [Items(t) -> 0..MaxQty], disc \in [Items(t) -> 0..MaxQty] :
            /\ \/ inv' = Booked(PerInventory(t, Destination(t), rec), PerInventory(t, Destination(t), rec))
               \/ inv' = Booked(PerInventory(t, Destination(t), rec), Nothing)
            /\ line' = WithShortages(t, disc)
    BY <1>7 DEF ReceiveStockTransfer
  <2>2. \A k \in Items(t) : rec[k] \in Int /\ disc[k] \in Int
    BY ErpAssumption
  <2>3. PerInventory(t, Destination(t), rec) \in [Inventories -> Nat]
    BY <2>2, PerInventoryType
  <2>4. NeverOversold'
    BY <2>1, <2>3, ArrivalSound
  <2>5. ASSUME NEW l \in Lines
        PROVE  line'[l].reserved <= line'[l].qty
    <3> DEFINE lost == Total({k \in Items(t) : ForOrder(t) /\ xfer[t].items[k].line = l}, disc)
    <3>1. IsFiniteSet({k \in Items(t) : ForOrder(t) /\ xfer[t].items[k].line = l})
      BY ItemsAreFinite DEF Items
    <3>2. lost \in Nat
      BY <2>2, <3>1, TotalIsNat
    <3>3. line'[l] = [line[l] EXCEPT !.shortage = line[l].shortage + lost,
                                     !.reserved = line[l].reserved - lost]
      BY <2>1 DEF WithShortages
    <3>4. line[l] \in LineRow /\ line[l].qty \in Nat /\ line[l].reserved \in Int
      BY LineType
    <3>5. line[l].reserved <= line[l].qty
      BY DEF LinesNotOverReserved
    <3> HIDE DEF lost
    <3>6. line'[l].reserved = line[l].reserved - lost /\ line'[l].qty = line[l].qty
      BY <3>3, <3>4 DEF LineRow
    <3>7. QED
      BY <3>2, <3>4, <3>5, <3>6
  <2>6. QED
    BY <2>4, <2>5, LinesWritten
<1>8. ASSUME NEW t \in XferIds, CancelStockTransfer(s, t) PROVE NothingOversold'
  <2> DEFINE back == PerInventory(t, Origin(t), Asked(t))
  <2>1. back \in [Inventories -> Nat]
    BY TransferType, PerInventoryType
  <2>2. inv' = inv \/ inv' = Booked(back, back) \/ inv' = Booked(back, Nothing)
    BY <1>8 DEF CancelStockTransfer
  <2> HIDE DEF back
  <2>3. NeverOversold'
    BY <2>1, <2>2, ArrivalSound, SameStock
  <2>4. UNCHANGED line
    BY <1>8 DEF CancelStockTransfer
  <2>5. QED
    BY <2>3, <2>4, SameLines
<1>9. QED
  BY <1>1, <1>2, <1>3, <1>4, <1>5, <1>6, <1>7, <1>8

\* The sums of the units of lines, by inventory.
LEMMA LineUnits ==
    ASSUME Typed, NEW L, L \subseteq Lines, NEW q \in [L -> 1..MaxQty]
    PROVE  /\ \A l \in L : q[l] \in Nat /\ q[l] \in Int
           /\ \A at : PerLine(L, at, q) \in [Inventories -> Nat]
<1>1. \A l \in L : q[l] \in Nat /\ q[l] \in Int
  BY ErpAssumption
<1>2. QED
  BY <1>1, PerLineType

LEMMA DeskNotOversold ==
    ASSUME Typed, NothingOversold, NEW s \in Slots, DeskNext(s) \/ CreateOrderReview(s)
    PROVE  NothingOversold'
<1> USE DEF NothingOversold
<1>1. ASSUME NEW o \in Orders, CreateOrder(s, o) PROVE NothingOversold'
  <2>1. PICK L \in (SUBSET {l \in Lines : LineOrder[l] = o}) \ {{}}, channel \in {"POS", "INTERNAL"},
             source \in Stores :
          \E q \in [L -> 1..MaxQty], store \in [L -> Stores], chosen \in Stores \union {Null} :
            PlaceOrder(o, channel, source, L, q, store, chosen)
    BY <1>1 DEF CreateOrder
  <2>2. PICK q \in [L -> 1..MaxQty], store \in [L -> Stores], chosen \in Stores \union {Null} :
            PlaceOrder(o, channel, source, L, q, store, chosen)
    BY <2>1
  <2> DEFINE at == [l \in L |-> <<store[l], LineVariant[l]>>]
             asked == PerLine(L, at, q)
  <2>3. L \subseteq Lines
    OBVIOUS
  <2>4. asked \in [Inventories -> Nat] /\ \A l \in L : q[l] \in Nat
    BY <2>3, LineUnits
  <2>5. /\ \A i \in Inventories : asked[i] > 0 => Available(i) >= asked[i]
        /\ inv' = Booked(Minus(asked), Nothing) \/ inv' = Booked(Nothing, asked)
    BY <2>2 DEF PlaceOrder
  <2> HIDE DEF asked
  <2>6. NeverOversold'
    BY <2>4, <2>5, TakenSound
  <2>7. ASSUME NEW l \in Lines
        PROVE  line'[l] = line[l] \/ line'[l].reserved <= line'[l].qty
    <3>1. line'[l] = line[l] \/ (l \in L /\ line'[l].reserved = q[l] /\ line'[l].qty = q[l])
      BY <2>2 DEF PlaceOrder, NoLine
    <3>2. QED
      BY <2>4, <3>1
  <2>8. QED
    BY <2>6, <2>7, LinesWritten
<1>2. ASSUME NEW o \in Orders, CreateMarketplaceOrder(s, o) PROVE NothingOversold'
  <2>1. PICK L \in (SUBSET {l \in Lines : LineOrder[l] = o}) \ {{}}, source \in Stores,
             auto \in BOOLEAN :
          \E q \in [L -> 1..MaxQty] : PlaceMarketplaceOrder(o, source, L, q, auto)
    BY <1>2 DEF CreateMarketplaceOrder
  <2>2. PICK q \in [L -> 1..MaxQty] : PlaceMarketplaceOrder(o, source, L, q, auto)
    BY <2>1
  <2>3. \A l \in L : q[l] \in Nat
    BY LineUnits
  <2>4. NeverOversold'
    BY <2>2 DEF PlaceMarketplaceOrder, NeverOversold, Sound
  <2>5. ASSUME NEW l \in Lines
        PROVE  line'[l] = line[l] \/ line'[l].reserved <= line'[l].qty
    <3> DEFINE at == [k \in L |-> <<source, LineVariant[k]>>]
               before(k) == Total({m \in L : m < k /\ LineVariant[m] = LineVariant[k]}, q)
               rest(k) == Greatest(0, Available(at[k]) - before(k))
               got == [k \in L |-> IF auto THEN Least(q[k], rest(k)) ELSE 0]
    <3>1. line' = [k \in Lines |-> IF k \in L THEN [NoLine EXCEPT !.qty = q[k], !.reserved = got[k]]
                                   ELSE line[k]]
      BY <2>2 DEF PlaceMarketplaceOrder
    <3>2. l \in L => got[l] = 0 \/ got[l] = Least(q[l], rest(l))
      OBVIOUS
    <3> HIDE DEF got
    <3>3. line'[l] = line[l] \/ (l \in L /\ line'[l].reserved = got[l] /\ line'[l].qty = q[l])
      BY <3>1 DEF NoLine
    <3>4. l \in L => rest(l) \in Int
      <4>1. SUFFICES ASSUME l \in L PROVE rest(l) \in Int
        OBVIOUS
      <4>2. at[l] \in Inventories
        BY <4>1, ErpAssumption DEF Inventories
      <4>3. Available(at[l]) \in Int
        BY <4>2, InventoryType
      <4>4. IsFiniteSet({m \in L : m < l /\ LineVariant[m] = LineVariant[l]})
        BY LinesAreFinite
      <4>5. before(l) \in Nat
        BY <2>3, <4>4, TotalIsNat
      <4> HIDE DEF at, before
      <4>6. QED
        BY <4>3, <4>5 DEF Greatest
    <3> HIDE DEF rest
    <3>5. QED
      BY <2>3, <3>2, <3>3, <3>4 DEF Least
  <2>6. QED
    BY <2>4, <2>5, LinesWritten
<1>3. CASE CreateOrderReview(s)
  BY <1>3, SameLines, SameStock DEF CreateOrderReview
<1>4. QED
  BY <1>1, <1>2, <1>3 DEF DeskNext

LEMMA StatusNotOversold ==
    ASSUME Typed, NothingOversold, NEW s \in Slots, StatusNext(s)
    PROVE  NothingOversold'
<1> USE DEF NothingOversold
<1>1. UNCHANGED line
  BY DEF StatusNext, UpdateStatusRead, UpdateStatusLock, tables, ConfirmOrder, CancelOrder,
     CompleteReturn, DeliverOrder, MoveOrder
<1>2. UNCHANGED inv \/ Sound(inv')
  BY DEF StatusNext, UpdateStatusRead, UpdateStatusLock, tables, ConfirmOrder, CancelOrder,
     CompleteReturn, DeliverOrder, MoveOrder, ReleaseHeld
<1>3. QED
  BY <1>1, <1>2, SameLines DEF NeverOversold, Sound

LEMMA LinesNotOversold ==
    ASSUME Typed, NothingOversold, NEW s \in Slots, LineNext(s)
    PROVE  NothingOversold'
<1> USE DEF NothingOversold
<1>1. CASE \E l \in Lines :
             \/ \E store \in Stores : ReserveRead(s, l, store)
             \/ \E store \in Stores \union {Null} : ReleaseRead(s, l, store)
             \/ ShortageRead(s, l)
  BY <1>1, SameLines, SameStock DEF ReserveRead, ReleaseRead, ShortageRead, tables
<1>2. CASE ReserveWrite(s)
  <2> DEFINE l == req[s].line
             i == <<req[s].store, LineVariant[l]>>
             take == IF req[s].partial THEN Least(req[s].qty, Available(i)) ELSE req[s].qty
  <2>1. l \in Lines /\ req[s].store \in Stores /\ req[s].qty \in Nat
    BY <1>2, RequestType DEF ReserveWrite, At, RequestOK
  <2>2. i \in Inventories
    BY <2>1, LineType
  <2>3. take > 0 /\ Fits(i, take) /\ LineHasRoom(l, take)
    BY <1>2 DEF ReserveWrite
  <2>4. take \in Nat
    <3>1. Available(i) \in Int
      BY <2>2, InventoryType
    <3> HIDE DEF i
    <3>2. QED
      BY <2>1, <2>3, <3>1 DEF Least
  <2>5. /\ inv' = [inv EXCEPT ![i].reserved = inv[i].reserved + take]
        /\ line' = [line EXCEPT ![l].reserved = line[l].reserved + take,
                                ![l].store = IF line[l].store = Null THEN req[s].store
                                             ELSE line[l].store]
    BY <1>2 DEF ReserveWrite
  <2> HIDE DEF i, take
  <2>6. NeverOversold'
    <3> DEFINE row == [inv[i] EXCEPT !.reserved = inv[i].reserved + take]
    <3>1. inv[i] \in InventoryRow /\ inv[i].reserved \in Nat /\ inv[i].stock \in Nat
      BY <2>2, InventoryType
    <3>2. row.reserved = inv[i].reserved + take /\ row.stock = inv[i].stock
      BY <3>1 DEF InventoryRow
    <3>3. 0 <= row.reserved /\ row.reserved <= row.stock
      BY <2>3, <2>4, <3>1, <3>2 DEF Fits, Available
    <3>4. inv' = [inv EXCEPT ![i] = row]
      BY <2>5
    <3> HIDE DEF row
    <3>5. QED
      BY <2>2, <3>3, <3>4, OneInventorySound
  <2>7. ASSUME NEW k \in Lines
        PROVE  line'[k] = line[k] \/ line'[k].reserved <= line'[k].qty
    <3>1. k = l => line'[k].reserved = line[k].reserved + take /\ line'[k].qty = line[k].qty
      BY <2>1, <2>5, LineType DEF Typed, TypeOK, LineRow
    <3>2. k # l => line'[k] = line[k]
      BY <2>5 DEF Typed, TypeOK
    <3>3. QED
      BY <2>3, <3>1, <3>2 DEF LineHasRoom
  <2>8. QED
    BY <2>6, <2>7, LinesWritten
<1>3. CASE ReleaseWrite(s)
  <2> DEFINE l == req[s].line
             take == req[s].take
             released(i) == Total({r \in DOMAIN take : res[r].inv = i}, take)
             left == LeftOfLine(l, take)
  <2>1. /\ l \in Lines /\ DOMAIN take \subseteq ResIds /\ \A r \in DOMAIN take : take[r] \in Int
    BY <1>3, RequestType DEF ReleaseWrite, At, RequestOK, Amounts
  <2>2. /\ inv' = [i \in Inventories |->
                     [inv[i] EXCEPT !.reserved = Greatest(0, inv[i].reserved - released(i))]]
        /\ line' = [line EXCEPT ![l].reserved = left, ![l].picked = PickedClamped(l, left)]
    BY <1>3 DEF ReleaseWrite
  <2> HIDE DEF take
  <2>3. ASSUME NEW i \in Inventories
        PROVE  0 <= inv'[i].reserved /\ inv'[i].reserved <= inv'[i].stock
    <3>1. IsFiniteSet({r \in DOMAIN take : res[r].inv = i})
      BY <2>1, ReservationsAreFinite
    <3>2. released(i) \in Nat
      BY <2>1, <3>1, TotalIsNat
    <3>3. inv'[i] = [inv[i] EXCEPT !.reserved = Greatest(0, inv[i].reserved - released(i))]
      BY <2>2
    <3> HIDE DEF released
    <3>4. inv[i] \in InventoryRow /\ inv[i].reserved \in Nat /\ inv[i].stock \in Nat
      BY InventoryType
    <3>5. inv[i].reserved <= inv[i].stock
      BY DEF NeverOversold, Sound
    <3>6. /\ inv'[i].reserved = Greatest(0, inv[i].reserved - released(i))
          /\ inv'[i].stock = inv[i].stock
      BY <3>3, <3>4 DEF InventoryRow
    <3>7. QED
      BY <3>2, <3>4, <3>5, <3>6 DEF Greatest
  <2>4. ASSUME NEW k \in Lines
        PROVE  line'[k] = line[k] \/ line'[k].reserved <= line'[k].qty
    <3>1. Total(DOMAIN take, take) \in Nat
      BY <2>1, ReservationsAreFinite, TotalIsNat
    <3>2. left <= line[l].qty
      BY <2>1, <3>1, LineType DEF LeftOfLine, Greatest, LinesNotOverReserved
    <3> HIDE DEF left
    <3>3. k = l => line'[k].reserved = left /\ line'[k].qty = line[k].qty
      BY <2>1, <2>2, LineType DEF Typed, TypeOK, LineRow
    <3>4. k # l => line'[k] = line[k]
      BY <2>2 DEF Typed, TypeOK
    <3>5. QED
      BY <3>2, <3>3, <3>4
  <2>5. QED
    BY <2>3, <2>4, LinesWritten DEF NeverOversold, Sound
<1>4. CASE ShortageWrite(s)
  <2>1. UNCHANGED inv
    BY <1>4 DEF ShortageWrite
  <2>2. PICK n : line' = [line EXCEPT ![req[s].line].shortage = n]
    BY <1>4 DEF ShortageWrite
  <2>3. LinesNotOverReserved'
    BY <2>2 DEF LinesNotOverReserved, Typed, TypeOK, LineRow
  <2>4. QED
    BY <2>1, <2>3, SameStock
<1>5. ASSUME NEW o \in Orders, RegisterOrderReturn(s, o) PROVE NothingOversold'
  <2>1. PICK L \in SUBSET LinesOf(o) : \E q \in [L -> 1..MaxQty] : \E at :
            /\ inv' = Booked(PerLine(L, at, q), Nothing) \/ inv' = inv
            /\ line' = [l \in Lines |-> IF l \in L
                                        THEN [line[l] EXCEPT !.returned = line[l].returned + q[l]]
                                        ELSE line[l]]
    BY <1>5 DEF RegisterOrderReturn
  <2>2. PICK q \in [L -> 1..MaxQty] : \E at :
            /\ inv' = Booked(PerLine(L, at, q), Nothing) \/ inv' = inv
            /\ line' = [l \in Lines |-> IF l \in L
                                        THEN [line[l] EXCEPT !.returned = line[l].returned + q[l]]
                                        ELSE line[l]]
    BY <2>1
  <2>3. L \subseteq Lines
    BY DEF LinesOf
  <2>4. \A at : PerLine(L, at, q) \in [Inventories -> Nat]
    BY <2>3, LineUnits
  <2>5. NeverOversold'
    BY <2>2, <2>4, ArrivalSound, SameStock
  <2>6. ASSUME NEW l \in Lines
        PROVE  line'[l].reserved = line[l].reserved /\ line'[l].qty = line[l].qty
    <3>1. line[l] \in LineRow
      BY LineType
    <3>2. QED
      BY <2>2, <3>1 DEF LineRow
  <2>7. QED
    BY <2>5, <2>6 DEF LinesNotOverReserved
<1>6. QED
  BY <1>1, <1>2, <1>3, <1>4, <1>5 DEF LineNext

\* What picking does to a line: the picked units.
LEMMA PickingWritesPicked ==
    ASSUME Typed, NEW s \in Slots, PickingNext(s)
    PROVE  /\ UNCHANGED inv
           /\ \A l \in Lines : line'[l] = line[l] \/ \E n : line'[l] = [line[l] EXCEPT !.picked = n]
<1>1. CASE \E o \in Orders : StartPickingRead(s, o) \/ PickAllRead(s, o) \/ CompletePickingRead(s, o)
  BY <1>1 DEF StartPickingRead, PickAllRead, CompletePickingRead, tables
<1>2. CASE \E l \in Lines : PickLineRead(s, l)
  BY <1>2 DEF PickLineRead, tables
<1>3. CASE StartPickingSession(s)
  BY <1>3 DEF StartPickingSession
<1>4. CASE PickWrite(s)
  BY <1>4 DEF PickWrite
<1>5. CASE StartPickingStatus(s) \/ SyncRead(s) \/ SyncWrite(s)
  BY <1>5 DEF StartPickingStatus, SyncRead, SyncWrite
<1>6. CASE CompletePickingWrite(s) \/ FinishPickingTask(s) \/ CountOpenPickingTasks(s)
  BY <1>6 DEF CompletePickingWrite, FinishPickingTask, CountOpenPickingTasks, tables
<1>7. CASE \E o \in Orders : \/ \E store \in Stores : TaskRead(s, o, store)
                             \/ CompletePacking(s, o)
  BY <1>7 DEF TaskRead, CompletePacking, tables
<1>8. QED
  BY <1>1, <1>2, <1>3, <1>4, <1>5, <1>6, <1>7 DEF PickingNext

LEMMA PickingNotOversold ==
    ASSUME Typed, NothingOversold, NEW s \in Slots, PickingNext(s)
    PROVE  NothingOversold'
<1>1. ASSUME NEW l \in Lines
      PROVE  line'[l].reserved = line[l].reserved /\ line'[l].qty = line[l].qty
  <2>1. line[l] \in LineRow
    BY LineType
  <2>2. QED
    BY <2>1, PickingWritesPicked DEF LineRow
<1>2. QED
  BY <1>1, PickingWritesPicked, SameStock DEF NothingOversold, LinesNotOverReserved

LEMMA InitNotOversold == Init => NothingOversold
  BY ErpAssumption DEF Init, NothingOversold, NeverOversold, Sound, LinesNotOverReserved, NoLine

LEMMA NextNotOversold == Typed /\ NothingOversold /\ [Next]_vars => NothingOversold'
<1> SUFFICES ASSUME Typed, NothingOversold, [Next]_vars PROVE NothingOversold'
  OBVIOUS
<1>1. CASE WarehouseNext
  BY <1>1, WarehouseNotOversold
<1>2. ASSUME NEW s \in Slots, DeskNext(s) \/ CreateOrderReview(s) PROVE NothingOversold'
  BY <1>2, DeskNotOversold
<1>3. ASSUME NEW s \in Slots, StatusNext(s) PROVE NothingOversold'
  BY <1>3, StatusNotOversold
<1>4. ASSUME NEW s \in Slots, LineNext(s) PROVE NothingOversold'
  BY <1>4, LinesNotOversold
<1>5. ASSUME NEW s \in Slots, PickingNext(s) PROVE NothingOversold'
  BY <1>5, PickingNotOversold
<1>6. CASE UNCHANGED vars \/ \E s \in Slots : Abort(s)
  BY <1>6, SameStock, SameLines DEF vars, Abort, tables, NothingOversold
<1>7. QED
  BY <1>1, <1>2, <1>3, <1>4, <1>5, <1>6 DEF Next

\* Whatever is asked at once, the reserved units of an inventory never exceed its
\* stock, nor those of a line what was ordered: the conditional updates suffice,
\* no transaction has to be refused by a CHECK constraint first.
THEOREM NothingIsOversold == Spec => []NothingOversold
<1>1. Init => NothingOversold
  BY InitNotOversold
<1>2. Typed /\ NothingOversold /\ [Next]_vars => NothingOversold'
  BY NextNotOversold
<1>3. QED
  BY <1>1, <1>2, AlwaysTyped, PTL DEF Spec

-----------------------------------------------------------------------------
(* What the lock of an order keeps still.                                    *)

Locked(s) == At(s, "status", "commit")

\* The status of an order, and which of its lines are not picked.
Undisturbed(p) ==
    /\ ord'[p].status = ord[p].status
    /\ \A l \in Lines : LineOrder[l] = p =>
          line'[l].qty = line[l].qty /\ (line[l].picked = 0 => line'[l].picked = 0)

\* What a request that is about to commit a status found under the lock.
LockKept(s) ==
    /\ ord[req[s].ord].status = req[s].seen
    /\ Unlocked(req[s].ord, s)
    /\ ~req[s].picked => ~HasPicked(req[s].ord)
LocksHold == \A s \in Slots : Locked(s) => LockKept(s)

OtherRequests(s) == \A z \in Slots \ {s} : req'[z] = req[z]

\* What a request remembers goes together: a status and one that it may become,
\* an order and its lines.
ReqKnows(r) ==
    /\ r.op = "status" => \/ r.target \in ValidTransitions[r.seen]
                          \/ r.target = "CONFIRMED" /\ r.seen = "CONFIRMED"
    /\ r.op = "pick" => \A l \in DOMAIN r.limit : LineOrder[l] = r.ord
RequestsKnow == \A s \in Slots : ReqKnows(req[s])

\* The step of one request, which does not lock an order.
Quiet(s) == OtherRequests(s) /\ ~Locked(s)' /\ ReqKnows(req[s])'

\* A request disturbs an order that is placed only when nobody else has locked it.
Touches(s) == \A p \in Orders : Undisturbed(p) \/ ~Placed(p) \/ Unlocked(p, s)

LEMMA LocksFrame ==
    ASSUME Typed, LocksHold, NEW s \in Slots, Quiet(s), Touches(s)
    PROVE  LocksHold'
<1> USE DEF Quiet
<1>1. ASSUME NEW z \in Slots, Locked(z)'
      PROVE  LockKept(z)'
  <2>0. PICK o : o = req[z].ord
    OBVIOUS
  <2>1. z # s /\ req'[z] = req[z]
    BY <1>1 DEF OtherRequests
  <2>2. Locked(z) /\ LockKept(z)
    BY <1>1, <2>1 DEF Locked, At, LocksHold
  <2>3. o \in Orders /\ Placed(o)
    BY <2>0, <2>2, StatusRequest DEF Locked
  <2>4. ~Unlocked(o, s)
    BY <2>0, <2>1, <2>2 DEF Unlocked, Locked, At
  <2>5. Undisturbed(o)
    BY <2>3, <2>4 DEF Touches
  <2>6. Unlocked(o, z)'
    BY <1>1, <2>0, <2>1, <2>2 DEF Unlocked, LockKept, OtherRequests, Locked, At
  <2>7. ord'[o].status = req[z].seen
    BY <2>0, <2>2, <2>5 DEF Undisturbed, LockKept
  <2>8. ASSUME ~HasPicked(o)
        PROVE  ~HasPicked(o)'
    <3>1. ASSUME NEW l \in LinesOf(o)'
          PROVE  line'[l].picked = 0
      <4>1. l \in Lines /\ LineOrder[l] = o /\ line'[l].qty > 0
        BY <3>1 DEF LinesOf
      <4>2. line[l].qty > 0
        BY <4>1, <2>5 DEF Undisturbed
      <4>3. line[l].picked \in Nat /\ ~(line[l].picked > 0)
        BY <4>1, <4>2, <2>8, LineType DEF HasPicked, LinesOf
      <4>4. line[l].picked = 0
        BY <4>3
      <4>5. QED
        BY <4>1, <4>4, <2>5 DEF Undisturbed
    <3>2. QED
      BY <3>1 DEF HasPicked
  <2>9. req'[z].ord = o /\ req'[z].seen = req[z].seen /\ req'[z].picked = req[z].picked
    BY <2>0, <2>1
  <2>10. ~req[z].picked => ~HasPicked(o)
    BY <2>0, <2>2 DEF LockKept
  <2>11. QED
    BY <2>6, <2>7, <2>8, <2>9, <2>10 DEF LockKept, HasPicked, Unlocked, LinesOf
<1>2. QED
  BY <1>1 DEF LocksHold

\* Row by row.
LEMMA TouchesByRow ==
    ASSUME Typed, NEW s \in Slots,
           \A p \in Orders : ord'[p].status = ord[p].status \/ ~Placed(p) \/ Unlocked(p, s),
           \A l \in Lines : \/ /\ line'[l].qty = line[l].qty
                               /\ line[l].picked = 0 => line'[l].picked = 0
                            \/ ~Placed(LineOrder[l]) \/ Unlocked(LineOrder[l], s)
    PROVE  Touches(s)
  BY DEF Touches, Undisturbed

LEMMA Continues ==
    ASSUME Typed, NEW s \in Slots, NEW r, Continue(s, r), r.op \notin {"status", "pick"}
    PROVE  Quiet(s)
  BY DEF Quiet, ReqKnows, Continue, OtherRequests, Locked, At, Typed, TypeOK

LEMMA Finishes ==
    ASSUME Typed, NEW s \in Slots, Finish(s) PROVE Quiet(s)
<1>1. Idle.op \notin {"status", "pick"}
  BY DEF Idle
<1>2. QED
  BY <1>1, Continues DEF Finish

\* A request that is one transaction.
LEMMA AtOnce ==
    ASSUME NEW s \in Slots, NEW endpoint, Starts(s, endpoint), UNCHANGED req
    PROVE  Quiet(s)
  BY DEF Quiet, ReqKnows, Starts, OtherRequests, Locked, At, Idle

LEMMA WarehouseMild ==
    ASSUME Typed, NEW s \in Slots,
           \/ \E i \in Inventories : CreateMovement(s, i) \/ CreateReservation(s, i)
           \/ ReconcileReservedStock(s)
           \/ CreateStockTransfer(s)
           \/ \E t \in XferIds : \/ DispatchStockTransfer(s, t)
                                 \/ ReceiveStockTransfer(s, t)
                                 \/ CancelStockTransfer(s, t)
    PROVE  Quiet(s) /\ Touches(s)
<1>1. Quiet(s)
  BY AtOnce DEF CreateMovement, CreateReservation, ReconcileReservedStock, CreateStockTransfer,
     DispatchStockTransfer, ReceiveStockTransfer, CancelStockTransfer
<1>2. CASE UNCHANGED <<ord, line>>
  BY <1>1, <1>2, TouchesByRow
<1>3. ASSUME NEW t \in XferIds, ReceiveStockTransfer(s, t) PROVE Touches(s)
  <2>1. PICK disc \in [Items(t) -> 0..MaxQty] :
          /\ line' = WithShortages(t, disc)
          /\ \/ UNCHANGED ord
             \/ Unlocked(xfer[t].ord, s) /\ ord' = [ord EXCEPT ![xfer[t].ord].status = "PREPARING"]
    BY <1>3 DEF ReceiveStockTransfer
  <2>2. ASSUME NEW l \in Lines
        PROVE  line'[l].qty = line[l].qty /\ line'[l].picked = line[l].picked
    <3>1. line[l] \in LineRow
      BY LineType
    <3>2. QED
      BY <2>1, <3>1 DEF WithShortages, LineRow
  <2>3. ASSUME NEW p \in Orders
        PROVE  ord'[p].status = ord[p].status \/ Unlocked(p, s)
    BY <2>1 DEF Typed, TypeOK
  <2>4. QED
    BY <2>2, <2>3, TouchesByRow
<1>4. QED
  BY <1>1, <1>2, <1>3 DEF CreateMovement, CreateReservation, ReconcileReservedStock,
     CreateStockTransfer, DispatchStockTransfer, CancelStockTransfer

\* A new order changes no other order, and no line of another one.
LEMMA CreateOrderApart ==
    ASSUME Typed, NEW s \in Slots, NEW o \in Orders, CreateOrder(s, o)
    PROVE  /\ \A p \in Orders : p # o => ord'[p] = ord[p]
           /\ \A l \in Lines : LineOrder[l] # o => line'[l] = line[l]
<1>1. PICK channel \in {"POS", "INTERNAL"}, source \in Stores,
           L \in (SUBSET {l \in Lines : LineOrder[l] = o}) \ {{}} :
        \E q \in [L -> 1..MaxQty], store \in [L -> Stores], chosen \in Stores \union {Null} :
            PlaceOrder(o, channel, source, L, q, store, chosen)
  BY DEF CreateOrder
<1>2. PICK q \in [L -> 1..MaxQty], store \in [L -> Stores], chosen \in Stores \union {Null} :
            PlaceOrder(o, channel, source, L, q, store, chosen)
  BY <1>1
<1>3. \A l \in Lines : l \notin L => line'[l] = line[l]
  BY <1>2 DEF PlaceOrder
<1>4. PICK order : ord' = [ord EXCEPT ![o] = order]
  BY <1>2 DEF PlaceOrder
<1>5. QED
  BY <1>3, <1>4 DEF Typed, TypeOK

LEMMA CheckoutApart ==
    ASSUME Typed, NEW s \in Slots, NEW o \in Orders, CreateMarketplaceOrder(s, o)
    PROVE  /\ \A p \in Orders : p # o => ord'[p] = ord[p]
           /\ \A l \in Lines : LineOrder[l] # o => line'[l] = line[l]
<1>1. PICK source \in Stores, L \in (SUBSET {l \in Lines : LineOrder[l] = o}) \ {{}},
           auto \in BOOLEAN :
        \E q \in [L -> 1..MaxQty] : PlaceMarketplaceOrder(o, source, L, q, auto)
  BY DEF CreateMarketplaceOrder
<1>2. PICK q \in [L -> 1..MaxQty] : PlaceMarketplaceOrder(o, source, L, q, auto)
  BY <1>1
<1>3. \A l \in Lines : l \notin L => line'[l] = line[l]
  BY <1>2 DEF PlaceMarketplaceOrder
<1>4. PICK order : ord' = [ord EXCEPT ![o] = order]
  BY <1>2 DEF PlaceMarketplaceOrder
<1>5. QED
  BY <1>3, <1>4 DEF Typed, TypeOK

LEMMA DeskMild ==
    ASSUME Typed, NEW s \in Slots, DeskNext(s) \/ CreateOrderReview(s)
    PROVE  Quiet(s) /\ Touches(s)
<1>1. ASSUME NEW o \in Orders, CreateOrder(s, o)
      PROVE  Quiet(s) /\ Touches(s)
  <2>1. ~Placed(o) /\ Quiet(s)
    BY <1>1, AtOnce DEF CreateOrder
  <2>2. QED
    BY <1>1, <2>1, CreateOrderApart, TouchesByRow
<1>2. ASSUME NEW o \in Orders, CreateMarketplaceOrder(s, o)
      PROVE  Quiet(s) /\ Touches(s)
  <2>1. ~Placed(o) /\ Continue(s, [op |-> "checkout", phase |-> "review", ord |-> o])
    BY <1>2 DEF CreateMarketplaceOrder
  <2>2. Quiet(s)
    BY <2>1, Continues
  <2>3. QED
    BY <1>2, <2>1, <2>2, CheckoutApart, TouchesByRow
<1>3. CASE CreateOrderReview(s)
  BY <1>3, Finishes, TouchesByRow DEF CreateOrderReview
<1>4. QED
  BY <1>1, <1>2, <1>3 DEF DeskNext

LEMMA LinesMild ==
    ASSUME Typed, NEW s \in Slots, LineNext(s)
    PROVE  Quiet(s) /\ Touches(s)
<1>1. ASSUME NEW r, Continue(s, r), r.op \notin {"status", "pick"}, UNCHANGED tables
      PROVE  Quiet(s) /\ Touches(s)
  BY <1>1, Continues, TouchesByRow DEF tables
<1>2. CASE ReserveWrite(s)
  <2>1. PICK n, z, f :
          /\ line' = [line EXCEPT ![req[s].line].reserved = n, ![req[s].line].store = z]
          /\ ord' = [ord EXCEPT ![LineOrder[req[s].line]].fulfil = f] \/ ord' = ord
    BY <1>2 DEF ReserveWrite
  <2>2. \A l \in Lines : line'[l].qty = line[l].qty /\ line'[l].picked = line[l].picked
    BY <2>1, LineType DEF Typed, TypeOK, LineRow
  <2>3. \A p \in Orders : ord'[p].status = ord[p].status
    BY <2>1 DEF Typed, TypeOK, OrderRow
  <2>4. QED
    BY <1>2, <2>2, <2>3, Finishes, TouchesByRow DEF ReserveWrite
<1>3. CASE ReleaseWrite(s)
  <2> DEFINE left == LeftOfLine(req[s].line, req[s].take)
  <2>1. UNCHANGED ord /\ line' = [line EXCEPT ![req[s].line].reserved = left,
                                             ![req[s].line].picked = PickedClamped(req[s].line, left)]
    BY <1>3 DEF ReleaseWrite
  <2>2. left \in Nat
    <3>1. /\ req[s].line \in Lines /\ DOMAIN req[s].take \subseteq ResIds
          /\ \A r \in DOMAIN req[s].take : req[s].take[r] \in Int
      BY <1>3, RequestType DEF ReleaseWrite, At, RequestOK, Amounts
    <3>2. Total(DOMAIN req[s].take, req[s].take) \in Nat
      BY <3>1, ReservationsAreFinite, TotalIsNat
    <3>3. QED
      BY <3>1, <3>2, LineType DEF LeftOfLine, Greatest
  <2> HIDE DEF left
  <2>3. ASSUME NEW l \in Lines
        PROVE  line'[l].qty = line[l].qty /\ (line[l].picked = 0 => line'[l].picked = 0)
    <3>1. line[l] \in LineRow
      BY LineType
    <3>2. l = req[s].line => line'[l].qty = line[l].qty /\ line'[l].picked = PickedClamped(l, left)
      BY <2>1, <3>1 DEF Typed, TypeOK, LineRow
    <3>3. l # req[s].line => line'[l] = line[l]
      BY <2>1 DEF Typed, TypeOK
    <3>4. QED
      BY <2>2, <3>2, <3>3 DEF PickedClamped, Least
  <2>4. QED
    BY <1>3, <2>1, <2>3, Finishes, TouchesByRow DEF ReleaseWrite
<1>4. CASE ShortageWrite(s)
  <2>1. PICK n, status :
          /\ line' = [line EXCEPT ![req[s].line].shortage = n]
          /\ \/ ord' = ord
             \/ /\ Unlocked(LineOrder[req[s].line], s)
                /\ ord' = [ord EXCEPT ![LineOrder[req[s].line]].status = status]
    BY <1>4 DEF ShortageWrite
  <2>2. \A l \in Lines : line'[l].qty = line[l].qty /\ line'[l].picked = line[l].picked
    BY <2>1, LineType DEF Typed, TypeOK, LineRow
  <2>3. \A p \in Orders : ord'[p].status = ord[p].status \/ Unlocked(p, s)
    BY <2>1 DEF Typed, TypeOK, OrderRow
  <2>4. QED
    BY <1>4, <2>2, <2>3, Finishes, TouchesByRow DEF ShortageWrite
<1>5. ASSUME NEW o \in Orders, RegisterOrderReturn(s, o)
      PROVE  Quiet(s) /\ Touches(s)
  <2>1. \E L, n : line' = [l \in Lines |-> IF l \in L THEN [line[l] EXCEPT !.returned = n[l]]
                                            ELSE line[l]]
    <3>1. PICK L \in SUBSET LinesOf(o) : \E q \in [L -> 1..MaxQty] :
            line' = [l \in Lines |-> IF l \in L
                                        THEN [line[l] EXCEPT !.returned = line[l].returned + q[l]]
                                        ELSE line[l]]
      BY <1>5 DEF RegisterOrderReturn
    <3>2. PICK q \in [L -> 1..MaxQty] :
            line' = [l \in Lines |-> IF l \in L
                                        THEN [line[l] EXCEPT !.returned = line[l].returned + q[l]]
                                        ELSE line[l]]
      BY <3>1
    <3>3. PICK m : \A l \in Lines : m[l] = line[l].returned + q[l]
      <4>1. \A l \in Lines : [k \in Lines |-> line[k].returned + q[k]][l] = line[l].returned + q[l]
        OBVIOUS
      <4>2. QED
        BY <4>1
    <3>4. line' = [l \in Lines |-> IF l \in L THEN [line[l] EXCEPT !.returned = m[l]] ELSE line[l]]
      BY <3>2, <3>3
    <3>5. QED
      BY <3>4
  <2>2. \A l \in Lines : line'[l].qty = line[l].qty /\ line'[l].picked = line[l].picked
    BY <2>1, LineType DEF LineRow
  <2>3. QED
    BY <1>5, <2>2, AtOnce, TouchesByRow DEF RegisterOrderReturn
<1>6. ASSUME NEW l \in Lines, NEW store \in Stores, ReserveRead(s, l, store)
      PROVE  Quiet(s) /\ Touches(s)
  <2> DEFINE pending == line[l].qty - line[l].reserved
             r(q, p) == [op |-> "reserve", phase |-> "write", line |-> l, store |-> store, qty |-> q,
                         partial |-> p, fulfil |-> ord[LineOrder[l]].fulfil]
  <2>1. UNCHANGED tables /\ \E q \in 1..pending, p \in BOOLEAN : Continue(s, r(q, p))
    BY <1>6 DEF ReserveRead
  <2>2. \A q, p : r(q, p).op = "reserve"
    OBVIOUS
  <2> HIDE DEF r
  <2>3. QED
    BY <1>1, <2>1, <2>2
<1>7. ASSUME NEW l \in Lines, NEW store \in Stores \union {Null}, ReleaseRead(s, l, store)
      PROVE  Quiet(s) /\ Touches(s)
  <2> DEFINE r(take, left) == [op |-> "release", phase |-> "write", line |-> l,
                               take |-> take, left |-> left]
  <2>1. UNCHANGED tables /\ \E take, left : Continue(s, r(take, left))
    BY <1>7 DEF ReleaseRead
  <2>2. \A take, left : r(take, left).op = "release"
    OBVIOUS
  <2> HIDE DEF r
  <2>3. QED
    BY <1>1, <2>1, <2>2
<1>8. ASSUME NEW l \in Lines, ShortageRead(s, l)
      PROVE  Quiet(s) /\ Touches(s)
  <2> DEFINE r(q, others) == [op |-> "shortage", phase |-> "write", line |-> l, qty |-> q,
                              seen |-> ord[LineOrder[l]].status, others |-> others]
  <2>1. UNCHANGED tables /\ \E q, others : Continue(s, r(q, others))
    BY <1>8 DEF ShortageRead
  <2>2. \A q, others : r(q, others).op = "shortage"
    OBVIOUS
  <2> HIDE DEF r
  <2>3. QED
    BY <1>1, <2>1, <2>2
<1>9. QED
  BY <1>2, <1>3, <1>4, <1>5, <1>6, <1>7, <1>8 DEF LineNext

LEMMA Picks ==
    ASSUME Typed, NEW s \in Slots, NEW o, NEW delta,
           Continue(s, [op |-> "pick", phase |-> "write", ord |-> o, limit |-> Limits(o),
                        delta |-> delta])
    PROVE  Quiet(s)
<1> DEFINE r == [op |-> "pick", phase |-> "write", ord |-> o, limit |-> Limits(o), delta |-> delta]
<1>1. r.op = "pick" /\ r.ord = o /\ DOMAIN r.limit = LinesOf(o)
  BY DEF Limits
<1> HIDE DEF r
<1>2. req' = [req EXCEPT ![s] = r]
  BY DEF Continue, r
<1>3. QED
  BY <1>1, <1>2 DEF Quiet, ReqKnows, OtherRequests, Locked, At, LinesOf, Typed, TypeOK

LEMMA PickingMild ==
    ASSUME Typed, RequestsKnow, NEW s \in Slots, PickingNext(s)
    PROVE  Quiet(s) /\ Touches(s)
<1>1. ASSUME NEW r, Continue(s, r), r.op \notin {"status", "pick"}
      PROVE  Quiet(s)
  BY <1>1, Continues
<1>2. CASE UNCHANGED <<ord, line>>
  <2>1. Touches(s)
    BY <1>2, TouchesByRow
  <2>2. ASSUME NEW o \in Orders, StartPickingRead(s, o) PROVE Quiet(s)
    BY <1>1, <2>2 DEF StartPickingRead
  <2>3. ASSUME NEW o \in Orders, PickAllRead(s, o) PROVE Quiet(s)
    <3>1. \E delta : Continue(s, [op |-> "pick", phase |-> "write", ord |-> o, limit |-> Limits(o),
                                  delta |-> delta])
      BY <2>3 DEF PickAllRead
    <3>2. QED
      BY <3>1, Picks
  <2>4. ASSUME NEW l \in Lines, PickLineRead(s, l) PROVE Quiet(s)
    <3>1. \E delta : Continue(s, [op |-> "pick", phase |-> "write", ord |-> LineOrder[l],
                                  limit |-> Limits(LineOrder[l]), delta |-> delta])
      BY <2>4 DEF PickLineRead
    <3>2. QED
      BY <3>1, Picks
  <2>5. ASSUME NEW o \in Orders, CompletePickingRead(s, o) PROVE Quiet(s)
    BY <1>1, <2>5 DEF CompletePickingRead
  <2>6. ASSUME NEW o \in Orders, NEW store \in Stores, TaskRead(s, o, store)
        PROVE  Quiet(s)
    BY <1>1, <2>6 DEF TaskRead
  <2>7. ASSUME NEW o \in Orders, CompletePacking(s, o) PROVE Quiet(s)
    BY <2>7, AtOnce DEF CompletePacking
  <2>8. CASE SyncWrite(s)
    BY <2>1, <2>8, Finishes DEF SyncWrite
  <2>9. CASE FinishPickingTask(s) \/ CountOpenPickingTasks(s)
    BY <1>1, <2>1, <2>9, Finishes DEF FinishPickingTask, CountOpenPickingTasks
  <2>10. CASE PickWrite(s) \/ SyncRead(s) \/ StartPickingSession(s)
    BY <1>1, <2>1, <2>10 DEF PickWrite, SyncRead, StartPickingSession
  <2>11. CASE StartPickingStatus(s) \/ CompletePickingWrite(s)
    BY <2>1, <2>11, Finishes DEF StartPickingStatus, CompletePickingWrite
  <2>12. QED
    BY <2>1, <2>2, <2>3, <2>4, <2>5, <2>6, <2>7, <2>8, <2>9, <2>10, <2>11 DEF PickingNext
<1>3. CASE StartPickingSession(s)
  <2>1. Quiet(s)
    BY <1>1, <1>3 DEF StartPickingSession
  <2>2. \A p \in Orders : ord'[p].status = ord[p].status
    BY <1>3 DEF StartPickingSession, Typed, TypeOK, OrderRow
  <2>3. ASSUME NEW l \in Lines
        PROVE  line'[l].qty = line[l].qty /\ (line[l].picked = 0 => line'[l].picked = 0)
    <3>1. line[l] \in LineRow /\ MaxPickable(l) \in Nat
      BY LineType, MaxPickableType
    <3>2. \/ line'[l] = line[l]
          \/ line'[l] = [line[l] EXCEPT !.picked = Least(line[l].picked, MaxPickable(l))]
      BY <1>3 DEF StartPickingSession
    <3>3. line'[l] = line[l] \/ (line'[l].qty = line[l].qty
                                /\ line'[l].picked = Least(line[l].picked, MaxPickable(l)))
      BY <3>1, <3>2 DEF LineRow
    <3>4. QED
      BY <3>1, <3>3 DEF Least
  <2>4. QED
    BY <2>1, <2>2, <2>3, TouchesByRow
<1>4. CASE StartPickingStatus(s)
  <2>1. \A p \in Orders : ord'[p].status = ord[p].status \/ Unlocked(p, s)
    BY <1>4 DEF StartPickingStatus, Typed, TypeOK
  <2>2. QED
    BY <1>4, <2>1, Finishes, TouchesByRow DEF StartPickingStatus
<1>5. CASE PickWrite(s)
  <2>1. Quiet(s)
    BY <1>1, <1>5 DEF PickWrite
  <2>2. RequestOK(req[s], ord) /\ req[s].op = "pick"
    BY <1>5, RequestType DEF PickWrite, At
  <2>3. \A l \in Lines : line'[l] = line[l] \/ l \in DOMAIN req[s].limit
    BY <1>5 DEF PickWrite
  <2>4. UNCHANGED ord /\ Unlocked(req[s].ord, s)
    BY <1>5 DEF PickWrite
  <2>5. \A l \in DOMAIN req[s].limit : LineOrder[l] = req[s].ord
    BY <2>2 DEF RequestsKnow, ReqKnows
  <2>6. QED
    BY <2>1, <2>3, <2>4, <2>5, TouchesByRow
<1>6. CASE SyncRead(s)
  <2>1. Quiet(s)
    BY <1>1, <1>6 DEF SyncRead
  <2>2. \A p \in Orders : ord'[p].status = ord[p].status
    BY <1>6 DEF SyncRead, Typed, TypeOK, OrderRow
  <2>3. QED
    BY <1>6, <2>1, <2>2, TouchesByRow DEF SyncRead
<1>7. CASE SyncWrite(s)
  <2>1. \A p \in Orders : ord'[p].status = ord[p].status \/ Unlocked(p, s)
    BY <1>7 DEF SyncWrite, Typed, TypeOK
  <2>2. QED
    BY <1>7, <2>1, Finishes, TouchesByRow DEF SyncWrite
<1>8. CASE CompletePickingWrite(s)
  <2>1. \A p \in Orders : ord'[p].status = ord[p].status \/ Unlocked(p, s)
    BY <1>8 DEF CompletePickingWrite, Typed, TypeOK
  <2>2. QED
    BY <1>8, <2>1, Finishes, TouchesByRow DEF CompletePickingWrite
<1>9. UNCHANGED <<ord, line>> \/ StartPickingSession(s) \/ StartPickingStatus(s) \/ PickWrite(s)
      \/ SyncRead(s) \/ SyncWrite(s) \/ CompletePickingWrite(s)
  BY DEF PickingNext, StartPickingRead, PickAllRead, CompletePickingRead, PickLineRead,
     FinishPickingTask, CountOpenPickingTasks, TaskRead, CompletePacking, tables
<1>10. QED
  BY <1>2, <1>3, <1>4, <1>5, <1>6, <1>7, <1>8, <1>9

LEMMA StatusReadMild ==
    ASSUME Typed, NEW s \in Slots, NEW o \in Orders, NEW target \in OrderStatus,
           UpdateStatusRead(s, o, target)
    PROVE  Quiet(s) /\ Touches(s)
<1> DEFINE r == [op |-> "status", phase |-> "lock", ord |-> o, target |-> target,
                 seen |-> ord[o].status, stores |-> LineStores(o)]
<1>1. r.op = "status" /\ r.phase = "lock" /\ r.target = target /\ r.seen = ord[o].status
  OBVIOUS
<1>2. Continue(s, r) /\ UNCHANGED tables
  BY DEF UpdateStatusRead
<1> HIDE DEF r
<1>3. ReqKnows(r)
  BY <1>1 DEF UpdateStatusRead, ConfirmationRetry, ReqKnows
<1>4. Quiet(s)
  BY <1>1, <1>2, <1>3 DEF Quiet, Continue, OtherRequests, Locked, At, ReqKnows, Typed, TypeOK
<1>5. QED
  BY <1>2, <1>4, TouchesByRow DEF tables

\* A request that commits a status has the order locked.
LEMMA CommitsMild ==
    ASSUME Typed, LocksHold, NEW s \in Slots,
           ConfirmOrder(s) \/ CancelOrder(s) \/ CompleteReturn(s) \/ DeliverOrder(s) \/ MoveOrder(s)
    PROVE  Quiet(s) /\ Touches(s)
<1>1. Locked(s) /\ Finish(s) /\ UNCHANGED line
  BY DEF ConfirmOrder, CancelOrder, CompleteReturn, DeliverOrder, MoveOrder, Locked
<1>2. Unlocked(req[s].ord, s)
  BY <1>1 DEF LocksHold, LockKept
<1>3. \E row : ord' = [ord EXCEPT ![req[s].ord] = row]
  BY DEF ConfirmOrder, CancelOrder, CompleteReturn, DeliverOrder, MoveOrder
<1>4. \A p \in Orders : ord'[p].status = ord[p].status \/ Unlocked(p, s)
  BY <1>2, <1>3 DEF Typed, TypeOK
<1>5. QED
  BY <1>1, <1>4, Finishes, TouchesByRow

\* The lock is taken by one request at a time, which looks again.
LEMMA LockTaken ==
    ASSUME Typed, LocksHold, RequestsKnow, NEW s \in Slots, UpdateStatusLock(s)
    PROVE  LocksHold' /\ RequestsKnow'
<1>0. PICK o : o = req[s].ord
  OBVIOUS
<1> DEFINE r == [op |-> "status", phase |-> "commit", ord |-> req[s].ord,
                 target |-> req[s].target, seen |-> req[s].seen, stores |-> req[s].stores,
                 held |-> [x \in Active(req[s].ord) |-> res[x].qty],
                 picked |-> HasPicked(req[s].ord)]
<1>1. /\ r.op = "status" /\ r.phase = "commit" /\ r.ord = o /\ r.target = req[s].target
      /\ r.seen = req[s].seen /\ r.picked = HasPicked(o)
  BY <1>0
<1>2. Continue(s, r) /\ UNCHANGED tables /\ Unlocked(o, s) /\ ord[o].status = req[s].seen
      /\ req[s].op = "status"
  BY <1>0 DEF UpdateStatusLock, StatusUnchanged, At
<1> HIDE DEF r
<1>3. req'[s] = r /\ OtherRequests(s)
  BY <1>2 DEF Continue, OtherRequests, Typed, TypeOK
<1>4. ReqKnows(r)
  BY <1>1, <1>2 DEF RequestsKnow, ReqKnows
<1>5. RequestsKnow'
  <2>1. ASSUME NEW z \in Slots
        PROVE  req'[z] = r \/ req'[z] = req[z]
    BY <1>3 DEF OtherRequests
  <2>2. QED
    BY <1>4, <2>1 DEF RequestsKnow, ReqKnows
<1>6. ASSUME NEW z \in Slots, Locked(z)'
      PROVE  LockKept(z)'
  <2>1. CASE z = s
    <3>1. ord'[o].status = r.seen /\ r.ord = o /\ req'[z] = r
      BY <1>1, <1>2, <1>3, <2>1 DEF tables
    <3>2. Unlocked(o, z)'
      BY <1>2, <1>3, <2>1 DEF Unlocked, OtherRequests
    <3>3. ~r.picked => ~HasPicked(o)'
      BY <1>1, <1>2 DEF HasPicked, LinesOf, tables
    <3>4. QED
      BY <3>1, <3>2, <3>3 DEF LockKept, HasPicked, Unlocked, LinesOf
  <2>2. CASE z # s
    <3>0. PICK p : p = req[z].ord
      OBVIOUS
    <3>1. req'[z] = req[z] /\ Locked(z) /\ LockKept(z)
      BY <1>3, <1>6, <2>2 DEF OtherRequests, Locked, At, LocksHold
    <3>2. p # o
      BY <1>2, <2>2, <3>0, <3>1 DEF Unlocked, Locked, At
    <3>3. Unlocked(p, z)'
      BY <1>1, <1>3, <3>0, <3>1, <3>2 DEF Unlocked, LockKept, OtherRequests
    <3>4. ord'[p].status = req[z].seen /\ (~req[z].picked => ~HasPicked(p)')
      BY <1>2, <3>0, <3>1 DEF LockKept, HasPicked, LinesOf, tables
    <3>5. QED
      BY <3>0, <3>1, <3>3, <3>4 DEF LockKept, HasPicked, Unlocked, LinesOf
  <2>3. QED
    BY <2>1, <2>2
<1>7. QED
  BY <1>5, <1>6 DEF LocksHold

LEMMA InitKeepsLocks == Init => LocksHold /\ RequestsKnow
  BY DEF Init, LocksHold, RequestsKnow, Locked, At, ReqKnows, Idle

\* Every step of a request, but the one that takes a lock.
LEMMA StepsMild ==
    ASSUME Typed, LocksHold, RequestsKnow, Next
    PROVE  \E s \in Slots : (Quiet(s) /\ Touches(s)) \/ UpdateStatusLock(s)
<1>1. CASE WarehouseNext
  BY <1>1, WarehouseMild DEF WarehouseNext
<1>2. ASSUME NEW s \in Slots, DeskNext(s) \/ CreateOrderReview(s) PROVE Quiet(s) /\ Touches(s)
  BY <1>2, DeskMild
<1>3. ASSUME NEW s \in Slots, StatusNext(s)
      PROVE  (Quiet(s) /\ Touches(s)) \/ UpdateStatusLock(s)
  BY <1>3, StatusReadMild, CommitsMild DEF StatusNext
<1>4. ASSUME NEW s \in Slots, LineNext(s) PROVE Quiet(s) /\ Touches(s)
  BY <1>4, LinesMild
<1>5. ASSUME NEW s \in Slots, PickingNext(s) PROVE Quiet(s) /\ Touches(s)
  BY <1>5, PickingMild
<1>6. ASSUME NEW s \in Slots, Abort(s) PROVE Quiet(s) /\ Touches(s)
  BY <1>6, Finishes, TouchesByRow DEF Abort, tables
<1>7. QED
  BY <1>1, <1>2, <1>3, <1>4, <1>5, <1>6 DEF Next

LEMMA NextKeepsLocks ==
    ASSUME Typed, LocksHold, RequestsKnow, [Next]_vars
    PROVE  LocksHold' /\ RequestsKnow'
<1>1. CASE Next
  <2>1. PICK s \in Slots : (Quiet(s) /\ Touches(s)) \/ UpdateStatusLock(s)
    BY <1>1, StepsMild
  <2>2. CASE UpdateStatusLock(s)
    BY <2>2, LockTaken
  <2>3. CASE Quiet(s) /\ Touches(s)
    <3>1. LocksHold'
      BY <2>3, LocksFrame
    <3>2. ASSUME NEW z \in Slots
          PROVE  ReqKnows(req[z])'
      <4>1. CASE z = s
        BY <2>3, <4>1 DEF Quiet
      <4>2. CASE z # s
        BY <2>3, <4>2 DEF Quiet, OtherRequests, RequestsKnow, ReqKnows
      <4>3. QED
        BY <4>1, <4>2
    <3>3. QED
      BY <3>1, <3>2 DEF RequestsKnow
  <2>4. QED
    BY <2>1, <2>2, <2>3
<1>2. CASE UNCHANGED vars
  BY <1>2 DEF vars, LocksHold, RequestsKnow, Locked, At, LockKept, Unlocked, HasPicked, LinesOf,
     ReqKnows
<1>3. QED
  BY <1>1, <1>2

-----------------------------------------------------------------------------
(* Who may write the status of an order, and who may pick.                   *)

Commits(s) ==
    ConfirmOrder(s) \/ CancelOrder(s) \/ CompleteReturn(s) \/ DeliverOrder(s) \/ MoveOrder(s)

StatusWritten(o) ==
    \/ ord'[o].status \in {ord[o].status, "PREPARING"}
    \/ /\ ord'[o].status = "READY" /\ ord[o].status \in Startable
       /\ \E s \in Slots : CompletePickingWrite(s) /\ req[s].ord = o
    \/ /\ ord'[o].status # "CANCELLED" /\ ~Placed(o)
       /\ \E s \in Slots : CreateOrder(s, o) \/ CreateMarketplaceOrder(s, o)
    \/ \E s \in Slots : At(s, "shortage", "write") /\ ord'[o].status \in {"PENDING", "WAITING_STOCK"}
    \/ \E s \in Slots : Commits(s) /\ req[s].ord = o

LEMMA StatusWrites ==
    ASSUME Typed, Next, NEW o \in Orders
    PROVE  StatusWritten(o)
<1> USE DEF StatusWritten
<1>1. CASE WarehouseNext
  <2>1. \/ UNCHANGED ord
        \/ \E s \in Slots, t \in XferIds : ReceiveStockTransfer(s, t)
    BY <1>1 DEF WarehouseNext, CreateMovement, CreateReservation, ReconcileReservedStock,
       CreateStockTransfer, DispatchStockTransfer, CancelStockTransfer
  <2>2. ASSUME NEW s \in Slots, NEW t \in XferIds, ReceiveStockTransfer(s, t)
        PROVE  ord'[o].status \in {ord[o].status, "PREPARING"}
    <3>1. ord' = ord \/ ord' = [ord EXCEPT ![xfer[t].ord].status = "PREPARING"]
      BY <2>2 DEF ReceiveStockTransfer
    <3>2. QED
      BY <3>1 DEF Typed, TypeOK, OrderRow
  <2>3. QED
    BY <2>1, <2>2
<1>2. ASSUME NEW s \in Slots, DeskNext(s) \/ CreateOrderReview(s) PROVE StatusWritten(o)
  <2>1. ASSUME NEW p \in Orders, CreateOrder(s, p)
        PROVE  ~Placed(p) /\ ord'[p].status # "CANCELLED"
    <3>1. PICK channel \in {"POS", "INTERNAL"}, source \in Stores,
               L \in (SUBSET {l \in Lines : LineOrder[l] = p}) \ {{}} :
            \E q \in [L -> 1..MaxQty], store \in [L -> Stores], chosen \in Stores \union {Null} :
              PlaceOrder(p, channel, source, L, q, store, chosen)
      BY <2>1 DEF CreateOrder
    <3>2. PICK q \in [L -> 1..MaxQty], store \in [L -> Stores], chosen \in Stores \union {Null} :
            PlaceOrder(p, channel, source, L, q, store, chosen)
      BY <3>1
    <3>3. \E status \in {"DELIVERED", "WAITING_TRANSFER", "PENDING"} : \E row :
            ord' = [ord EXCEPT ![p] = [NoOrder EXCEPT !.status = status, !.channel = channel,
                                                      !.source = source, !.fulfil = row]]
      BY <3>2 DEF PlaceOrder
    <3>4. QED
      BY <2>1, <3>3 DEF CreateOrder, Typed, TypeOK, NoOrder
  <2>2. ASSUME NEW p \in Orders, CreateMarketplaceOrder(s, p)
        PROVE  ~Placed(p) /\ ord'[p].status # "CANCELLED"
    <3>1. PICK source \in Stores, L \in (SUBSET {l \in Lines : LineOrder[l] = p}) \ {{}},
               auto \in BOOLEAN :
            \E q \in [L -> 1..MaxQty] : PlaceMarketplaceOrder(p, source, L, q, auto)
      BY <2>2 DEF CreateMarketplaceOrder
    <3>2. ord' = [ord EXCEPT ![p] = [NoOrder EXCEPT !.status = "PENDING", !.channel = "ECOMMERCE",
                                                    !.source = source, !.fulfil = source]]
      BY <3>1 DEF PlaceMarketplaceOrder
    <3>3. QED
      BY <2>2, <3>2 DEF CreateMarketplaceOrder, Typed, TypeOK, NoOrder
  <2>3. CASE CreateOrderReview(s)
    BY <2>3 DEF CreateOrderReview
  <2>4. ASSUME NEW p \in Orders, CreateOrder(s, p) \/ CreateMarketplaceOrder(s, p) PROVE StatusWritten(o)
    <3>1. p # o => ord'[o] = ord[o]
      BY <2>4, CreateOrderApart, CheckoutApart
    <3>2. p = o => /\ ~Placed(o) /\ ord'[o].status # "CANCELLED"
                   /\ CreateOrder(s, o) \/ CreateMarketplaceOrder(s, o)
      BY <2>1, <2>2, <2>4
    <3>3. QED
      BY <3>1, <3>2
  <2>5. QED
    BY <1>2, <2>3, <2>4 DEF DeskNext
<1>3. ASSUME NEW s \in Slots, StatusNext(s) PROVE StatusWritten(o)
  <2>1. UNCHANGED ord \/ Commits(s)
    BY <1>3 DEF StatusNext, UpdateStatusRead, UpdateStatusLock, tables, Commits
  <2>2. \E row : ord' = ord \/ ord' = [ord EXCEPT ![req[s].ord] = row]
    BY <2>1 DEF Commits, ConfirmOrder, CancelOrder, CompleteReturn, DeliverOrder, MoveOrder
  <2>3. o # req[s].ord => ord'[o] = ord[o]
    BY <2>2 DEF Typed, TypeOK
  <2>4. QED
    BY <2>1, <2>3
<1>4. ASSUME NEW s \in Slots, LineNext(s) PROVE StatusWritten(o)
  <2>1. UNCHANGED ord \/ ReserveWrite(s) \/ ShortageWrite(s)
    BY <1>4 DEF LineNext, ReserveRead, ReleaseRead, ShortageRead, ReleaseWrite, RegisterOrderReturn,
       tables
  <2>2. CASE ReserveWrite(s)
    <3>1. \E f : ord' = ord \/ ord' = [ord EXCEPT ![LineOrder[req[s].line]].fulfil = f]
      BY <2>2 DEF ReserveWrite
    <3>2. QED
      BY <3>1 DEF Typed, TypeOK, OrderRow
  <2>3. CASE ShortageWrite(s)
    <3>1. /\ At(s, "shortage", "write")
          /\ \/ ord' = ord
             \/ \E next \in {"PENDING", "WAITING_STOCK"} :
                   ord' = [ord EXCEPT ![LineOrder[req[s].line]].status = next]
      BY <2>3 DEF ShortageWrite
    <3>2. QED
      BY <3>1 DEF Typed, TypeOK, OrderRow
  <2>4. QED
    BY <2>1, <2>2, <2>3
<1>5. ASSUME NEW s \in Slots, PickingNext(s) PROVE StatusWritten(o)
  <2>1. \/ UNCHANGED ord
        \/ StartPickingSession(s) \/ StartPickingStatus(s) \/ SyncRead(s) \/ SyncWrite(s)
        \/ CompletePickingWrite(s)
    BY <1>5 DEF PickingNext, StartPickingRead, PickAllRead, CompletePickingRead, PickLineRead,
       PickWrite, FinishPickingTask, CountOpenPickingTasks, TaskRead, CompletePacking, tables
  <2>2. CASE StartPickingSession(s) \/ SyncRead(s)
    BY <2>2 DEF StartPickingSession, SyncRead, Typed, TypeOK, OrderRow
  <2>3. CASE StartPickingStatus(s) \/ SyncWrite(s)
    BY <2>3 DEF StartPickingStatus, SyncWrite, Typed, TypeOK, OrderRow
  <2>4. CASE CompletePickingWrite(s)
    <3>1. /\ ord[req[s].ord].status \in Startable
          /\ ord' = [ord EXCEPT ![req[s].ord].status = "READY", ![req[s].ord].session = "COMPLETED"]
      BY <2>4 DEF CompletePickingWrite, StillStartable
    <3>2. ord'[o].status = ord[o].status \/ (ord'[o].status = "READY" /\ req[s].ord = o)
      BY <3>1 DEF Typed, TypeOK, OrderRow
    <3>3. QED
      BY <2>4, <3>1, <3>2
  <2>5. QED
    BY <2>1, <2>2, <2>3, <2>4
<1>6. ASSUME NEW s \in Slots, Abort(s) PROVE StatusWritten(o)
  BY <1>6 DEF Abort, tables
<1>7. QED
  BY <1>1, <1>2, <1>3, <1>4, <1>5, <1>6 DEF Next

\* Only a commit cancels an order.
LEMMA OnlyUnpickedCancelled ==
    ASSUME Typed, LocksHold, RequestsKnow, Next, NEW o \in Orders,
           ord'[o].status = "CANCELLED", ord[o].status \notin {"CANCELLED", "RETURN_PENDING"}
    PROVE  \A l \in LinesOf(o) : line[l].picked = 0
<1>1. PICK s \in Slots : Commits(s) /\ req[s].ord = o
  BY StatusWrites DEF StatusWritten
<1>2. LockKept(s)
  BY <1>1 DEF Commits, ConfirmOrder, CancelOrder, CompleteReturn, DeliverOrder, MoveOrder,
     LocksHold, Locked
<1>3. ~CompleteReturn(s)
  BY <1>1, <1>2 DEF CompleteReturn, LockKept
<1>4. ~(ConfirmOrder(s) \/ DeliverOrder(s) \/ MoveOrder(s))
  <2>1. \A status : ord' = [ord EXCEPT ![o].status = status] => ord'[o].status = status
    BY DEF Typed, TypeOK, OrderRow
  <2>2. QED
    BY <1>1, <2>1 DEF ConfirmOrder, DeliverOrder, MoveOrder
<1>5. CancelOrder(s)
  BY <1>1, <1>3, <1>4 DEF Commits
<1>6. ~req[s].picked
  <2>1. \A row : ord' = [ord EXCEPT ![o] = [row EXCEPT !.status = "RETURN_PENDING"]] =>
                    ord'[o].status # "CANCELLED"
    <3>1. ASSUME NEW row, ord' = [ord EXCEPT ![o] = [row EXCEPT !.status = "RETURN_PENDING"]]
          PROVE  ord'[o] = [row EXCEPT !.status = "RETURN_PENDING"]
      BY <3>1 DEF Typed, TypeOK
    <3>2. ord' \in [Orders -> OrderRow]
      BY NextTyped DEF Typed, TypeOK
    <3>3. QED
      BY <3>1, <3>2 DEF OrderRow
  <2>2. QED
    BY <1>1, <1>5, <2>1 DEF CancelOrder
<1>7. ~HasPicked(o)
  BY <1>1, <1>2, <1>6 DEF LockKept
<1>8. QED
  BY <1>7, LineType DEF HasPicked, LinesOf

LEMMA AlwaysLocked == Spec => [](Typed /\ LocksHold /\ RequestsKnow)
<1>1. Init => LocksHold /\ RequestsKnow
  BY InitKeepsLocks
<1>2. Typed /\ LocksHold /\ RequestsKnow /\ [Next]_vars => LocksHold' /\ RequestsKnow'
  BY NextKeepsLocks
<1>3. QED
  BY <1>1, <1>2, AlwaysTyped, PTL DEF Spec

\* A request that cancels an order with picked goods makes it RETURN_PENDING, as
\* the lines are under the lock, not as it first read them.
THEOREM PickedGoodsReturn == Spec => PickedGoodsComeBack
<1>1. Typed /\ LocksHold /\ RequestsKnow /\ [Next]_vars =>
        [\A o \in Orders :
           ord'[o].status = "CANCELLED" /\ ord[o].status \notin {"CANCELLED", "RETURN_PENDING"} =>
               \A l \in LinesOf(o) : line[l].picked = 0]_ord
  BY OnlyUnpickedCancelled DEF vars
<1>2. QED
  BY <1>1, AlwaysLocked, PTL DEF Spec, PickedGoodsComeBack
-----------------------------------------------------------------------------
(* Which calls are in flight, and what an order that is over loses.           *)

\* The calls that write over what they read without a lock.
Unlocking == {"reserve", "release", "shortage"}
CallsMade == \A s \in Slots : req[s].op \in Unlocking => req[s].op \in Endpoints

\* A request that a step starts was called.
LEMMA NewCall ==
    ASSUME Typed, NEW s \in Slots, NEW r, Continue(s, r), r.op \in Unlocking => r.op \in Endpoints, CallsMade
    PROVE  CallsMade'
  BY DEF Continue, CallsMade, Typed, TypeOK

LEMMA EndedCall ==
    ASSUME Typed, NEW s \in Slots, Finish(s), CallsMade PROVE CallsMade'
<1>1. Idle.op \notin Unlocking
  BY DEF Idle, Unlocking
<1>2. QED
  BY <1>1, NewCall DEF Finish

LEMMA SameCalls ==
    ASSUME UNCHANGED req, CallsMade PROVE CallsMade'
  BY DEF CallsMade

LEMMA LineCalls ==
    ASSUME Typed, CallsMade, NEW s \in Slots, LineNext(s) PROVE CallsMade'
<1>1. ASSUME NEW l \in Lines, NEW store \in Stores, ReserveRead(s, l, store) PROVE CallsMade'
  <2>1. Starts(s, "reserve")
    BY <1>1 DEF ReserveRead
  <2>2. PICK q, p :
          Continue(s, [op |-> "reserve", phase |-> "write", line |-> l, store |-> store, qty |-> q,
                       partial |-> p, fulfil |-> ord[LineOrder[l]].fulfil])
    BY <1>1 DEF ReserveRead
  <2>3. QED
    BY <2>1, <2>2, NewCall DEF Starts
<1>2. ASSUME NEW l \in Lines, NEW store \in Stores \union {Null}, ReleaseRead(s, l, store)
      PROVE  CallsMade'
  <2>1. Starts(s, "release")
    BY <1>2 DEF ReleaseRead
  <2>2. PICK take, left :
          Continue(s, [op |-> "release", phase |-> "write", line |-> l, take |-> take, left |-> left])
    BY <1>2 DEF ReleaseRead
  <2>3. QED
    BY <2>1, <2>2, NewCall DEF Starts
<1>3. ASSUME NEW l \in Lines, ShortageRead(s, l) PROVE CallsMade'
  <2>1. Starts(s, "shortage")
    BY <1>3 DEF ShortageRead
  <2>2. PICK q, seen, others :
          Continue(s, [op |-> "shortage", phase |-> "write", line |-> l, qty |-> q, seen |-> seen,
                       others |-> others])
    BY <1>3 DEF ShortageRead
  <2>3. QED
    BY <2>1, <2>2, NewCall DEF Starts
<1>4. CASE ReserveWrite(s) \/ ReleaseWrite(s) \/ ShortageWrite(s)
  BY <1>4, EndedCall DEF ReserveWrite, ReleaseWrite, ShortageWrite
<1>5. ASSUME NEW o \in Orders, RegisterOrderReturn(s, o) PROVE CallsMade'
  BY <1>5, SameCalls DEF RegisterOrderReturn
<1>6. QED
  BY <1>1, <1>2, <1>3, <1>4, <1>5 DEF LineNext

LEMMA PickingCalls ==
    ASSUME Typed, CallsMade, NEW s \in Slots, PickingNext(s) PROVE CallsMade'
<1>1. ASSUME NEW r, Continue(s, r), r.op \notin Unlocking PROVE CallsMade'
  BY <1>1, NewCall
<1>2. ASSUME NEW o, NEW limit, NEW delta,
             Continue(s, [op |-> "pick", phase |-> "write", ord |-> o, limit |-> limit,
                          delta |-> delta])
      PROVE  CallsMade'
  BY <1>1, <1>2 DEF Unlocking
<1>3. ASSUME NEW o \in Orders, StartPickingRead(s, o) PROVE CallsMade'
  BY <1>1, <1>3 DEF StartPickingRead, Unlocking
<1>4. ASSUME NEW o \in Orders, PickAllRead(s, o) PROVE CallsMade'
  BY <1>2, <1>4 DEF PickAllRead
<1>5. ASSUME NEW o \in Orders, CompletePickingRead(s, o) PROVE CallsMade'
  BY <1>1, <1>5 DEF CompletePickingRead, Unlocking
<1>6. ASSUME NEW l \in Lines, PickLineRead(s, l) PROVE CallsMade'
  BY <1>2, <1>6 DEF PickLineRead
<1>7. ASSUME NEW o \in Orders, NEW store \in Stores, TaskRead(s, o, store) PROVE CallsMade'
  BY <1>1, <1>7 DEF TaskRead, Unlocking
<1>8. ASSUME NEW o \in Orders, CompletePacking(s, o) PROVE CallsMade'
  BY <1>8, SameCalls DEF CompletePacking
<1>9. CASE StartPickingSession(s) \/ PickWrite(s) \/ SyncRead(s) \/ FinishPickingTask(s)
           \/ CountOpenPickingTasks(s)
  BY <1>1, <1>9, EndedCall DEF StartPickingSession, PickWrite, SyncRead, FinishPickingTask,
     CountOpenPickingTasks, Unlocking
<1>10. CASE StartPickingStatus(s) \/ SyncWrite(s) \/ CompletePickingWrite(s)
  BY <1>10, EndedCall DEF StartPickingStatus, SyncWrite, CompletePickingWrite
<1>11. QED
  BY <1>3, <1>4, <1>5, <1>6, <1>7, <1>8, <1>9, <1>10 DEF PickingNext

\* The requests of the warehouse are one transaction each.
LEMMA WarehouseAtOnce ==
    ASSUME WarehouseNext PROVE UNCHANGED req
<1>1. ASSUME NEW s, NEW i, CreateMovement(s, i) PROVE UNCHANGED req
  BY <1>1 DEF CreateMovement
<1>2. ASSUME NEW s, NEW i, CreateReservation(s, i) PROVE UNCHANGED req
  BY <1>2 DEF CreateReservation
<1>3. ASSUME NEW s, ReconcileReservedStock(s) PROVE UNCHANGED req
  BY <1>3 DEF ReconcileReservedStock
<1>4. ASSUME NEW s, CreateStockTransfer(s) PROVE UNCHANGED req
  BY <1>4 DEF CreateStockTransfer
<1>5. ASSUME NEW s, NEW t, DispatchStockTransfer(s, t) PROVE UNCHANGED req
  BY <1>5 DEF DispatchStockTransfer
<1>6. ASSUME NEW s, NEW t, ReceiveStockTransfer(s, t) PROVE UNCHANGED req
  BY <1>6 DEF ReceiveStockTransfer
<1>7. ASSUME NEW s, NEW t, CancelStockTransfer(s, t) PROVE UNCHANGED req
  BY <1>7 DEF CancelStockTransfer
<1>8. QED
  BY <1>1, <1>2, <1>3, <1>4, <1>5, <1>6, <1>7 DEF WarehouseNext

LEMMA NextCalls ==
    ASSUME Typed, CallsMade, [Next]_vars PROVE CallsMade'
<1>1. CASE WarehouseNext
  BY <1>1, WarehouseAtOnce, SameCalls
<1>2. ASSUME NEW s \in Slots, DeskNext(s) \/ CreateOrderReview(s) PROVE CallsMade'
  <2>1. ASSUME NEW o \in Orders, CreateMarketplaceOrder(s, o) PROVE CallsMade'
    BY <2>1, NewCall DEF CreateMarketplaceOrder, Unlocking
  <2>2. ASSUME NEW o \in Orders, CreateOrder(s, o) PROVE CallsMade'
    BY <2>2, SameCalls DEF CreateOrder
  <2>3. CASE CreateOrderReview(s)
    BY <2>3, EndedCall DEF CreateOrderReview
  <2>4. QED
    BY <1>2, <2>1, <2>2, <2>3 DEF DeskNext
<1>3. ASSUME NEW s \in Slots, StatusNext(s) PROVE CallsMade'
  <2>1. ASSUME NEW o \in Orders, NEW target \in OrderStatus, UpdateStatusRead(s, o, target)
        PROVE  CallsMade'
    BY <2>1, NewCall DEF UpdateStatusRead, Unlocking
  <2>2. CASE UpdateStatusLock(s)
    BY <2>2, NewCall DEF UpdateStatusLock, Unlocking
  <2>3. CASE Commits(s)
    BY <2>3, EndedCall DEF Commits, ConfirmOrder, CancelOrder, CompleteReturn, DeliverOrder, MoveOrder
  <2>4. QED
    BY <1>3, <2>1, <2>2, <2>3 DEF StatusNext, Commits
<1>4. ASSUME NEW s \in Slots, Abort(s) PROVE CallsMade'
  BY <1>4, EndedCall DEF Abort
<1>5. CASE UNCHANGED vars
  BY <1>5, SameCalls DEF vars
<1>6. QED
  BY <1>1, <1>2, <1>3, <1>4, <1>5, LineCalls, PickingCalls DEF Next

LEMMA AlwaysCalled == Spec => [](Typed /\ LocksHold /\ RequestsKnow /\ CallsMade)
<1>1. Init => CallsMade
  BY DEF Init, CallsMade, Idle, Unlocking
<1>2. Typed /\ CallsMade /\ [Next]_vars => CallsMade'
  BY NextCalls
<1>3. QED
  BY <1>1, <1>2, AlwaysLocked, PTL DEF Spec

\* The status of an order that is over.
LEMMA ClosedMoves ==
    ASSUME Typed, LocksHold, RequestsKnow, CallsMade, "shortage" \notin Endpoints, Next,
           NEW o \in Orders, ord[o].status \in Closed
    PROVE  ord'[o].status \in {ord[o].status, "PREPARING"}
<1>1. StatusWritten(o)
  BY StatusWrites
<1>2. ASSUME NEW s \in Slots, Commits(s), req[s].ord = o PROVE FALSE
  <2>1. LockKept(s) /\ req[s].op = "status"
    BY <1>2 DEF Commits, ConfirmOrder, CancelOrder, CompleteReturn, DeliverOrder, MoveOrder,
       LocksHold, Locked, At
  <2>2. req[s].seen \in Closed
    BY <1>2, <2>1 DEF LockKept
  <2>3. req[s].target \in ValidTransitions[req[s].seen] \/ req[s].seen = "CONFIRMED"
    BY <2>1 DEF RequestsKnow, ReqKnows
  <2>4. QED
    BY <2>2, <2>3 DEF ValidTransitions, Closed
<1>3. \A s \in Slots : ~At(s, "shortage", "write")
  BY DEF CallsMade, At, Unlocking
<1>4. ord[o].status # "ABSENT" /\ ord[o].status \notin Startable
  BY DEF Closed, Startable
<1>5. QED
  BY <1>1, <1>2, <1>3, <1>4 DEF StatusWritten, Placed

\* What is picked of an order that is over, or is being returned.
LEMMA ClosedKeepsPicked ==
    ASSUME Typed, RequestsKnow, Next, NEW l \in Lines,
           ord[LineOrder[l]].status \in Closed \union {"RETURN_PENDING"}
    PROVE  line'[l].picked <= line[l].picked
<1>0. line[l] \in LineRow /\ line[l].picked \in Nat /\ line[l].reserved \in Int
  BY LineType
<1>a. line'[l] = line[l] => line'[l].picked <= line[l].picked
  BY <1>0
<1>b. line'[l].picked = line[l].picked => line'[l].picked <= line[l].picked
  BY <1>0
<1>1. CASE WarehouseNext
  <2>1. UNCHANGED line \/ \E s \in Slots, t \in XferIds : ReceiveStockTransfer(s, t)
    BY <1>1 DEF WarehouseNext, CreateMovement, CreateReservation, ReconcileReservedStock,
       CreateStockTransfer, DispatchStockTransfer, CancelStockTransfer
  <2>2. ASSUME NEW s \in Slots, NEW t \in XferIds, ReceiveStockTransfer(s, t)
        PROVE  line'[l].picked = line[l].picked
    <3>1. PICK disc \in [Items(t) -> 0..MaxQty] : line' = WithShortages(t, disc)
      BY <2>2 DEF ReceiveStockTransfer
    <3>2. QED
      BY <1>0, <3>1 DEF WithShortages, LineRow
  <2>3. QED
    BY <1>a, <1>b, <2>1, <2>2
<1>2. ASSUME NEW s \in Slots, DeskNext(s) \/ CreateOrderReview(s)
      PROVE  line'[l].picked <= line[l].picked
  <2>1. Placed(LineOrder[l])
    BY DEF Placed, Closed
  <2>2. ASSUME NEW o \in Orders, CreateOrder(s, o) \/ CreateMarketplaceOrder(s, o)
        PROVE  line'[l] = line[l]
    BY <2>1, <2>2, CreateOrderApart, CheckoutApart DEF CreateOrder, CreateMarketplaceOrder
  <2>3. QED
    BY <1>2, <1>a, <2>2 DEF DeskNext, CreateOrderReview
<1>3. ASSUME NEW s \in Slots, StatusNext(s) PROVE line'[l] = line[l]
  BY <1>3 DEF StatusNext, UpdateStatusRead, UpdateStatusLock, tables, ConfirmOrder, CancelOrder,
     CompleteReturn, DeliverOrder, MoveOrder
<1>4. ASSUME NEW s \in Slots, LineNext(s) PROVE line'[l].picked <= line[l].picked
  <2>1. \/ UNCHANGED line \/ ReserveWrite(s) \/ ReleaseWrite(s) \/ ShortageWrite(s)
        \/ \E o \in Orders : RegisterOrderReturn(s, o)
    BY <1>4 DEF LineNext, ReserveRead, ReleaseRead, ShortageRead, tables
  <2>2. CASE ReserveWrite(s)
    <3>1. PICK n, z : line' = [line EXCEPT ![req[s].line].reserved = n, ![req[s].line].store = z]
      BY <2>2 DEF ReserveWrite
    <3>2. QED
      BY <1>0, <1>b, <3>1 DEF Typed, TypeOK, LineRow
  <2>3. CASE ReleaseWrite(s)
    <3>1. PICK n : /\ n = LeftOfLine(req[s].line, req[s].take)
                   /\ line' = [line EXCEPT ![req[s].line].reserved = n,
                                           ![req[s].line].picked = PickedClamped(req[s].line, n)]
      BY <2>3 DEF ReleaseWrite
    <3>2. n \in Int
      <4>1. /\ req[s].line \in Lines /\ DOMAIN req[s].take \subseteq ResIds
            /\ \A r \in DOMAIN req[s].take : req[s].take[r] \in Int
        BY <2>3, RequestType DEF ReleaseWrite, At, RequestOK, Amounts
      <4>2. Total(DOMAIN req[s].take, req[s].take) \in Nat
        BY <4>1, ReservationsAreFinite, TotalIsNat
      <4>3. QED
        BY <3>1, <4>1, <4>2, LineType DEF LeftOfLine, Greatest
    <3>3. \/ line'[l] = line[l]
          \/ line'[l].picked = PickedClamped(l, n)
      <4>1. line \in [Lines -> LineRow]
        BY DEF Typed, TypeOK
      <4>2. CASE l = req[s].line
        BY <1>0, <3>1, <4>1, <4>2 DEF LineRow
      <4>3. CASE l # req[s].line
        BY <3>1, <4>1, <4>3
      <4>4. QED
        BY <4>2, <4>3
    <3>4. PickedClamped(l, n) <= line[l].picked
      BY <1>0, <3>2 DEF PickedClamped, Least
    <3>5. QED
      BY <1>a, <3>3, <3>4
  <2>4. CASE ShortageWrite(s)
    <3>1. PICK n : line' = [line EXCEPT ![req[s].line].shortage = n]
      BY <2>4 DEF ShortageWrite
    <3>2. QED
      BY <1>0, <1>b, <3>1 DEF Typed, TypeOK, LineRow
  <2>5. ASSUME NEW o \in Orders, RegisterOrderReturn(s, o) PROVE line'[l].picked = line[l].picked
    <3>1. PICK L \in (SUBSET LinesOf(o)) \ {{}} : \E q \in [L -> 1..MaxQty] :
             line' = [m \in Lines |-> IF m \in L
                                      THEN [line[m] EXCEPT !.returned = line[m].returned + q[m]]
                                      ELSE line[m]]
      BY <2>5 DEF RegisterOrderReturn
    <3>2. QED
      BY <1>0, <3>1 DEF LineRow
  <2>6. QED
    BY <1>a, <1>b, <2>1, <2>2, <2>3, <2>4, <2>5
<1>5. ASSUME NEW s \in Slots, PickingNext(s) PROVE line'[l].picked <= line[l].picked
  <2>1. UNCHANGED line \/ StartPickingSession(s) \/ PickWrite(s)
    BY <1>5 DEF PickingNext, StartPickingRead, PickAllRead, CompletePickingRead, PickLineRead,
       FinishPickingTask, CountOpenPickingTasks, TaskRead, CompletePacking, StartPickingStatus,
       SyncRead, SyncWrite, CompletePickingWrite, tables
  <2>2. CASE StartPickingSession(s)
    <3>1. \/ line'[l] = line[l]
          \/ line'[l] = [line[l] EXCEPT !.picked = Least(line[l].picked, MaxPickable(l))]
      BY <2>2 DEF StartPickingSession
    <3>2. MaxPickable(l) \in Nat
      BY MaxPickableType
    <3>3. Least(line[l].picked, MaxPickable(l)) <= line[l].picked
      BY <1>0, <3>2 DEF Least
    <3>4. QED
      BY <1>0, <1>a, <3>1, <3>3 DEF LineRow
  <2>3. CASE PickWrite(s)
    <3>1. /\ req[s].op = "pick" /\ ord[req[s].ord].status \in Pickable
          /\ l \notin DOMAIN req[s].limit => line'[l] = line[l]
      BY <2>3 DEF PickWrite, PickableUnderLock, At
    <3>2. l \in DOMAIN req[s].limit => LineOrder[l] = req[s].ord
      BY <3>1 DEF RequestsKnow, ReqKnows
    <3>3. l \notin DOMAIN req[s].limit
      BY <3>1, <3>2 DEF Pickable, Startable, Closed
    <3>4. QED
      BY <1>a, <3>1, <3>3
  <2>4. QED
    BY <1>a, <2>1, <2>2, <2>3
<1>6. ASSUME NEW s \in Slots, Abort(s) PROVE line'[l] = line[l]
  BY <1>6 DEF Abort, tables
<1>7. QED
  BY <1>1, <1>2, <1>3, <1>4, <1>5, <1>6, <1>a DEF Next

\* An order that is over is not completed, confirmed, delivered or cancelled again
\* and nothing more is picked of it, whoever had looked at it before; a shortage is
\* the one handler that writes the status it read back without looking again.
THEOREM ClosedLeftAlone ==
    ASSUME "shortage" \notin Endpoints
    PROVE  Spec => ClosedIsLeftAlone
<1>1. Typed /\ LocksHold /\ RequestsKnow /\ CallsMade /\ [Next]_vars =>
        [\A o \in Orders : ord[o].status \in Closed =>
             ord'[o].status \in {ord[o].status, "PREPARING"}]_ord
  BY ClosedMoves DEF vars
<1>2. Typed /\ LocksHold /\ RequestsKnow /\ CallsMade /\ [Next]_vars =>
        [\A l \in Lines : ord[LineOrder[l]].status \in Closed \union {"RETURN_PENDING"} =>
             line'[l].picked <= line[l].picked]_<<line, ord>>
  BY ClosedKeepsPicked DEF vars
<1>3. QED
  BY <1>1, <1>2, AlwaysCalled, PTL DEF Spec, ClosedIsLeftAlone, ClosedIsNotCompleted,
     NothingPickedAfterClose

-----------------------------------------------------------------------------
(* One request at a time: what a request has read is still so.               *)

Alone == \A s \in Slots, z \in Slots : s = z

\* What a release is about to take of reservations, and to leave of them.
TakesWhatIsThere(r) ==
    \A k \in DOMAIN r.take :
        /\ k \in ResIds /\ res[k].status = "ACTIVE"
        /\ r.take[k] \in 0..res[k].qty /\ r.left[k] = res[k].qty - r.take[k]

FreshOps == {"start", "sync", "shortage", "reserve", "release"}
Fresh(r) ==
    /\ r.op = "start" => ord[r.ord].status \in Startable
    /\ r.op = "sync" /\ r.phase = "write" => r.seen = ord[r.ord].status
    /\ r.op = "shortage" => r.seen = ord[LineOrder[r.line]].status
    /\ r.op = "reserve" => Open(LineOrder[r.line])
    /\ r.op = "release" => TakesWhatIsThere(r)
AllFresh == \A s \in Slots : Fresh(req[s])

LEMMA FreshWhenAlone ==
    ASSUME Alone, Typed, NEW s \in Slots, NEW r, Continue(s, r), Fresh(r)' PROVE AllFresh'
<1>1. req' = [req EXCEPT ![s] = r] /\ DOMAIN req = Slots
  BY DEF Continue, Typed, TypeOK
<1>2. ASSUME NEW z \in Slots PROVE Fresh(req[z])'
  <2>1. req'[z] = r
    BY <1>1 DEF Alone
  <2>2. QED
    BY <2>1 DEF Fresh, TakesWhatIsThere
<1>3. QED
  BY <1>2 DEF AllFresh

LEMMA FreshOther ==
    ASSUME Alone, Typed, NEW s \in Slots, NEW r, Continue(s, r), r.op \notin FreshOps PROVE AllFresh'
<1>1. Fresh(r)'
  BY DEF Fresh, FreshOps
<1>2. QED
  BY <1>1, FreshWhenAlone

LEMMA FreshEnd ==
    ASSUME Alone, Typed, NEW s \in Slots, Finish(s) PROVE AllFresh'
<1>1. Idle.op \notin FreshOps
  BY DEF Idle, FreshOps
<1>2. QED
  BY <1>1, FreshOther DEF Finish

LEMMA FreshAtOnce ==
    ASSUME Alone, NEW s \in Slots, NEW e, Starts(s, e), UNCHANGED req PROVE AllFresh'
<1>1. ASSUME NEW z \in Slots PROVE Fresh(req[z])'
  <2>1. req'[z] = Idle
    BY DEF Starts, Alone
  <2>2. req'[z].op \notin FreshOps
    BY <2>1 DEF Idle, FreshOps
  <2>3. QED
    BY <2>2 DEF Fresh, FreshOps
<1>2. QED
  BY <1>1 DEF AllFresh

LEMMA FreshSame ==
    ASSUME AllFresh, UNCHANGED vars PROVE AllFresh'
  BY DEF vars, AllFresh, Fresh, TakesWhatIsThere, Open

LEMMA WarehouseFresh ==
    ASSUME Alone, WarehouseNext PROVE AllFresh'
<1>1. PICK s \in Slots :
        \/ \E i \in Inventories : CreateMovement(s, i) \/ CreateReservation(s, i)
        \/ ReconcileReservedStock(s)
        \/ CreateStockTransfer(s)
        \/ \E t \in XferIds : \/ DispatchStockTransfer(s, t)
                              \/ ReceiveStockTransfer(s, t)
                              \/ CancelStockTransfer(s, t)
  BY DEF WarehouseNext
<1>2. UNCHANGED req /\ \E e : Starts(s, e)
  BY <1>1 DEF CreateMovement, CreateReservation, ReconcileReservedStock,
     CreateStockTransfer, DispatchStockTransfer, ReceiveStockTransfer, CancelStockTransfer
<1>3. QED
  BY <1>2, FreshAtOnce

\* The units that a release takes.
LEMMA ReleaseFresh ==
    ASSUME Alone, Typed, NEW s \in Slots, NEW l \in Lines, NEW store, ReleaseRead(s, l, store)
    PROVE  AllFresh'
<1> DEFINE R == Releasable(l, store)
           before(r) == Total({p \in R : Sooner(l, p, r)}, Quantities)
           take(n) == [r \in R |-> Least(res[r].qty, Greatest(0, n - before(r)))]
           kept(n) == {p \in R : take(n)[p] > 0}
           r(n) == [op |-> "release", phase |-> "write", line |-> l,
                    take |-> [x \in kept(n) |-> take(n)[x]],
                    left |-> [x \in kept(n) |-> res[x].qty - take(n)[x]]]
<1>1. PICK n \in 1..line[l].reserved : Continue(s, r(n))
  BY DEF ReleaseRead
<1>2. ASSUME NEW k \in R
      PROVE  /\ k \in ResIds /\ res[k].status = "ACTIVE" /\ take(n)[k] \in 0..res[k].qty
             /\ res[k].qty \in Nat
  <2>1. k \in ResIds /\ res[k].status = "ACTIVE" /\ res[k].qty \in Nat
    BY DEF Releasable, Active, Typed, TypeOK, ReservationRow
  <2>2. before(k) \in Nat
    <3>1. {p \in R : Sooner(l, p, k)} \subseteq ResIds
      BY DEF Releasable, Active
    <3>2. \A p \in ResIds : Quantities[p] \in Int
      BY DEF Quantities, Typed, TypeOK, ReservationRow
    <3> HIDE DEF R
    <3>3. QED
      BY <3>1, <3>2, ReservationsAreFinite, TotalIsNat
  <2>3. n \in Int
    BY LineType
  <2> HIDE DEF before
  <2>4. take(n)[k] = Least(res[k].qty, Greatest(0, n - before(k)))
    OBVIOUS
  <2>5. QED
    BY <2>1, <2>2, <2>3, <2>4 DEF Least, Greatest
<1>3. UNCHANGED tables
  BY DEF ReleaseRead
<1> HIDE DEF R, take
<1>4. /\ r(n).op = "release" /\ DOMAIN r(n).take = kept(n) /\ kept(n) \subseteq R
      /\ \A k \in kept(n) : r(n).take[k] = take(n)[k] /\ r(n).left[k] = res[k].qty - take(n)[k]
  OBVIOUS
<1>8. PICK q : q = r(n)
  OBVIOUS
<1>5. /\ q.op = "release" /\ Continue(s, q)
      /\ \A k \in DOMAIN q.take : /\ k \in ResIds /\ res[k].status = "ACTIVE"
                                  /\ q.take[k] \in 0..res[k].qty
                                  /\ q.left[k] = res[k].qty - q.take[k]
  BY <1>1, <1>2, <1>4, <1>8
<1>6. Fresh(q)'
  BY <1>3, <1>5 DEF Fresh, TakesWhatIsThere, tables
<1>7. QED
  BY <1>5, <1>6, FreshWhenAlone

LEMMA LinesFresh ==
    ASSUME Alone, Typed, NEW s \in Slots, LineNext(s) PROVE AllFresh'
<1>1. ASSUME NEW l \in Lines, NEW store \in Stores, ReserveRead(s, l, store) PROVE AllFresh'
  <2>1. Open(LineOrder[l]) /\ UNCHANGED tables
    BY <1>1 DEF ReserveRead
  <2>2. PICK q, p, f :
          Continue(s, [op |-> "reserve", phase |-> "write", line |-> l, store |-> store, qty |-> q,
                       partial |-> p, fulfil |-> f])
    BY <1>1 DEF ReserveRead
  <2>0. PICK r : r = [op |-> "reserve", phase |-> "write", line |-> l, store |-> store, qty |-> q,
                   partial |-> p, fulfil |-> f]
    OBVIOUS
  <2>3. r.op = "reserve" /\ r.line = l
    BY <2>0
  <2>4. Continue(s, r)
    BY <2>0, <2>2
  <2>5. Fresh(r)'
    BY <2>1, <2>3 DEF Fresh, Open, tables
  <2>6. QED
    BY <2>4, <2>5, FreshWhenAlone
<1>2. ASSUME NEW l \in Lines, NEW store \in Stores \union {Null}, ReleaseRead(s, l, store)
      PROVE  AllFresh'
  BY <1>2, ReleaseFresh
<1>3. ASSUME NEW l \in Lines, ShortageRead(s, l) PROVE AllFresh'
  <2>1. UNCHANGED tables
    BY <1>3 DEF ShortageRead
  <2>2. PICK q, others :
          Continue(s, [op |-> "shortage", phase |-> "write", line |-> l, qty |-> q,
                       seen |-> ord[LineOrder[l]].status, others |-> others])
    BY <1>3 DEF ShortageRead
  <2>0. PICK r : r = [op |-> "shortage", phase |-> "write", line |-> l, qty |-> q,
                   seen |-> ord[LineOrder[l]].status, others |-> others]
    OBVIOUS
  <2>3. r.op = "shortage" /\ r.line = l /\ r.seen = ord[LineOrder[l]].status
    BY <2>0
  <2>4. Continue(s, r)
    BY <2>0, <2>2
  <2>5. Fresh(r)'
    BY <2>1, <2>3 DEF Fresh, tables
  <2>6. QED
    BY <2>4, <2>5, FreshWhenAlone
<1>4. CASE ReserveWrite(s) \/ ReleaseWrite(s) \/ ShortageWrite(s)
  BY <1>4, FreshEnd DEF ReserveWrite, ReleaseWrite, ShortageWrite
<1>5. ASSUME NEW o \in Orders, RegisterOrderReturn(s, o) PROVE AllFresh'
  BY <1>5, FreshAtOnce DEF RegisterOrderReturn
<1>6. QED
  BY <1>1, <1>2, <1>3, <1>4, <1>5 DEF LineNext

LEMMA PickingFresh ==
    ASSUME Alone, Typed, AllFresh, NEW s \in Slots, PickingNext(s) PROVE AllFresh'
<1>1. ASSUME NEW r, Continue(s, r), r.op \notin FreshOps PROVE AllFresh'
  BY <1>1, FreshOther
<1>2. ASSUME NEW o, NEW limit, NEW delta,
             Continue(s, [op |-> "pick", phase |-> "write", ord |-> o, limit |-> limit,
                          delta |-> delta])
      PROVE  AllFresh'
  BY <1>1, <1>2 DEF FreshOps
<1>3. ASSUME NEW o \in Orders, StartPickingRead(s, o) PROVE AllFresh'
  <2>0. PICK r : r = [op |-> "start", phase |-> "session", ord |-> o]
    OBVIOUS
  <2>1. Continue(s, r) /\ UNCHANGED tables /\ ord[o].status \in Startable
    BY <2>0, <1>3 DEF StartPickingRead
  <2>2. r.op = "start" /\ r.ord = o
    BY <2>0
  <2>3. Fresh(r)'
    BY <2>1, <2>2 DEF Fresh, tables
  <2>4. QED
    BY <2>1, <2>3, FreshWhenAlone
<1>4. ASSUME NEW o \in Orders, PickAllRead(s, o) PROVE AllFresh'
  BY <1>2, <1>4 DEF PickAllRead
<1>5. ASSUME NEW o \in Orders, CompletePickingRead(s, o) PROVE AllFresh'
  BY <1>1, <1>5 DEF CompletePickingRead, FreshOps
<1>6. ASSUME NEW l \in Lines, PickLineRead(s, l) PROVE AllFresh'
  BY <1>2, <1>6 DEF PickLineRead
<1>7. ASSUME NEW o \in Orders, NEW store \in Stores, TaskRead(s, o, store) PROVE AllFresh'
  BY <1>1, <1>7 DEF TaskRead, FreshOps
<1>8. ASSUME NEW o \in Orders, CompletePacking(s, o) PROVE AllFresh'
  BY <1>8, FreshAtOnce DEF CompletePacking
<1>9. CASE FinishPickingTask(s) \/ CountOpenPickingTasks(s)
  BY <1>1, <1>9, FreshEnd DEF FinishPickingTask, CountOpenPickingTasks, FreshOps
<1>10. CASE StartPickingStatus(s) \/ SyncWrite(s) \/ CompletePickingWrite(s)
  BY <1>10, FreshEnd DEF StartPickingStatus, SyncWrite, CompletePickingWrite
<1>11. CASE StartPickingSession(s)
  <2>0. PICK r : r = [op |-> "start", phase |-> "status", ord |-> req[s].ord]
    OBVIOUS
  <2>1. Continue(s, r)
    BY <2>0, <1>11 DEF StartPickingSession
  <2>2. r.op = "start" /\ r.ord = req[s].ord
    BY <2>0
  <2>3. req[s].ord \in Orders /\ ord[req[s].ord].status \in Startable
    BY <1>11, RequestType DEF AllFresh, Fresh, StartPickingSession, At, RequestOK
  <2>4. ord'[req[s].ord].status = ord[req[s].ord].status
    BY <1>11, <2>3 DEF StartPickingSession, Typed, TypeOK, OrderRow
  <2>5. Fresh(r)'
    BY <2>2, <2>3, <2>4 DEF Fresh
  <2>6. QED
    BY <2>1, <2>5, FreshWhenAlone
<1>12. CASE PickWrite(s)
  <2>0. PICK r : r = [op |-> "sync", phase |-> "read", ord |-> req[s].ord]
    OBVIOUS
  <2>1. Continue(s, r)
    BY <2>0, <1>12 DEF PickWrite
  <2>2. r.op = "sync" /\ r.phase = "read"
    BY <2>0
  <2>3. Fresh(r)'
    BY <2>2 DEF Fresh
  <2>4. QED
    BY <2>1, <2>3, FreshWhenAlone
<1>13. CASE SyncRead(s)
  <2>0. PICK r : r = [op |-> "sync", phase |-> "write", ord |-> req[s].ord,
                   seen |-> ord[req[s].ord].status]
    OBVIOUS
  <2>1. Continue(s, r)
    BY <2>0, <1>13 DEF SyncRead
  <2>2. r.op = "sync" /\ r.ord = req[s].ord /\ r.seen = ord[req[s].ord].status
    BY <2>0
  <2>3. req[s].ord \in Orders
    BY <1>13, RequestType DEF SyncRead, At, RequestOK
  <2>4. ord'[req[s].ord].status = ord[req[s].ord].status
    BY <1>13, <2>3 DEF SyncRead, Typed, TypeOK, OrderRow
  <2>5. Fresh(r)'
    BY <2>2, <2>4 DEF Fresh
  <2>6. QED
    BY <2>1, <2>5, FreshWhenAlone
<1>14. QED
  BY <1>3, <1>4, <1>5, <1>6, <1>7, <1>8, <1>9, <1>10, <1>11, <1>12, <1>13 DEF PickingNext

LEMMA NextFresh ==
    ASSUME Alone, Typed, AllFresh, [Next]_vars PROVE AllFresh'
<1>2. ASSUME NEW s \in Slots, DeskNext(s) \/ CreateOrderReview(s) PROVE AllFresh'
  <2>1. ASSUME NEW o \in Orders, CreateMarketplaceOrder(s, o) PROVE AllFresh'
    BY <2>1, FreshOther DEF CreateMarketplaceOrder, FreshOps
  <2>2. ASSUME NEW o \in Orders, CreateOrder(s, o) PROVE AllFresh'
    BY <2>2, FreshAtOnce DEF CreateOrder
  <2>3. CASE CreateOrderReview(s)
    BY <2>3, FreshEnd DEF CreateOrderReview
  <2>4. QED
    BY <1>2, <2>1, <2>2, <2>3 DEF DeskNext
<1>3. ASSUME NEW s \in Slots, StatusNext(s) PROVE AllFresh'
  <2>1. ASSUME NEW o \in Orders, NEW target \in OrderStatus, UpdateStatusRead(s, o, target)
        PROVE  AllFresh'
    BY <2>1, FreshOther DEF UpdateStatusRead, FreshOps
  <2>2. CASE UpdateStatusLock(s)
    BY <2>2, FreshOther DEF UpdateStatusLock, FreshOps
  <2>3. CASE Commits(s)
    BY <2>3, FreshEnd DEF Commits, ConfirmOrder, CancelOrder, CompleteReturn, DeliverOrder, MoveOrder
  <2>4. QED
    BY <1>3, <2>1, <2>2, <2>3 DEF StatusNext, Commits
<1>4. ASSUME NEW s \in Slots, Abort(s) PROVE AllFresh'
  BY <1>4, FreshEnd DEF Abort
<1>5. QED
  BY <1>2, <1>3, <1>4, WarehouseFresh, LinesFresh, PickingFresh, FreshSame DEF Next

LEMMA AlwaysFresh ==
    ASSUME Alone PROVE Spec => []AllFresh
<1>1. Init => AllFresh
  BY DEF Init, AllFresh, Fresh, Idle
<1>2. Typed /\ AllFresh /\ [Next]_vars => AllFresh'
  BY NextFresh
<1>3. QED
  BY <1>1, <1>2, AlwaysTyped, PTL DEF Spec

\* Whoever writes the status of an order that is over sees it over.
LEMMA ClosedStays ==
    ASSUME Alone, Typed, LocksHold, RequestsKnow, AllFresh, Next,
           NEW o \in Orders, ord[o].status \in Closed
    PROVE  ord'[o].status = ord[o].status
<1>0. ord[o] \in OrderRow /\ ord[o].status \notin Startable \union {"ABSENT", "WAITING_TRANSFER"}
  BY DEF Typed, TypeOK, Closed, Startable
<1>1. ASSUME NEW s \in Slots, Commits(s) PROVE req[s].ord # o /\ ord'[o] = ord[o]
  <2>1. LockKept(s) /\ req[s].op = "status"
    BY <1>1 DEF Commits, ConfirmOrder, CancelOrder, CompleteReturn, DeliverOrder, MoveOrder,
       LocksHold, Locked, At
  <2>2. req[s].target \in ValidTransitions[req[s].seen] \/ req[s].seen = "CONFIRMED"
    BY <2>1 DEF RequestsKnow, ReqKnows
  <2>3. req[s].ord # o
    BY <2>1, <2>2 DEF LockKept, ValidTransitions, Closed
  <2>4. \E row : ord' = [ord EXCEPT ![req[s].ord] = row]
    BY <1>1 DEF Commits, ConfirmOrder, CancelOrder, CompleteReturn, DeliverOrder, MoveOrder
  <2>5. QED
    BY <2>3, <2>4 DEF Typed, TypeOK
<1>2. CASE WarehouseNext
  <2>1. \/ UNCHANGED ord
        \/ \E s \in Slots, t \in XferIds : ReceiveStockTransfer(s, t)
    BY <1>2 DEF WarehouseNext, CreateMovement, CreateReservation, ReconcileReservedStock,
       CreateStockTransfer, DispatchStockTransfer, CancelStockTransfer
  <2>2. ASSUME NEW s \in Slots, NEW t \in XferIds, ReceiveStockTransfer(s, t)
        PROVE  ord'[o] = ord[o]
    <3>1. \/ ord' = ord
          \/ /\ ord' = [ord EXCEPT ![xfer[t].ord].status = "PREPARING"]
             /\ ord[xfer[t].ord].status = "WAITING_TRANSFER"
      BY <2>2 DEF ReceiveStockTransfer
    <3>2. QED
      BY <1>0, <3>1 DEF Typed, TypeOK
  <2>3. QED
    BY <2>1, <2>2
<1>3. ASSUME NEW s \in Slots, DeskNext(s) \/ CreateOrderReview(s) PROVE ord'[o] = ord[o]
  <2>1. Placed(o)
    BY <1>0 DEF Placed
  <2>2. ASSUME NEW p \in Orders, CreateOrder(s, p) \/ CreateMarketplaceOrder(s, p)
        PROVE  ord'[o] = ord[o]
    BY <2>1, <2>2, CreateOrderApart, CheckoutApart DEF CreateOrder, CreateMarketplaceOrder
  <2>3. QED
    BY <1>3, <2>2 DEF DeskNext, CreateOrderReview
<1>4. ASSUME NEW s \in Slots, StatusNext(s) PROVE ord'[o] = ord[o]
  <2>1. UNCHANGED ord \/ Commits(s)
    BY <1>4 DEF StatusNext, UpdateStatusRead, UpdateStatusLock, tables, Commits
  <2>2. QED
    BY <1>1, <2>1
<1>5. ASSUME NEW s \in Slots, LineNext(s) PROVE ord'[o].status = ord[o].status
  <2>1. UNCHANGED ord \/ ReserveWrite(s) \/ ShortageWrite(s)
    BY <1>5 DEF LineNext, ReserveRead, ReleaseRead, ShortageRead, ReleaseWrite, RegisterOrderReturn,
       tables
  <2>2. CASE ReserveWrite(s)
    <3>1. \E f : ord' = ord \/ ord' = [ord EXCEPT ![LineOrder[req[s].line]].fulfil = f]
      BY <2>2 DEF ReserveWrite
    <3>2. QED
      BY <3>1 DEF Typed, TypeOK, OrderRow
  <2>3. CASE ShortageWrite(s)
    <3>1. /\ req[s].op = "shortage"
          /\ \/ ord' = ord
             \/ /\ req[s].seen \in {"PENDING", "CONFIRMED", "WAITING_STOCK"}
                /\ \E next : ord' = [ord EXCEPT ![LineOrder[req[s].line]].status = next]
      BY <2>3 DEF ShortageWrite, At
    <3>2. req[s].seen = ord[LineOrder[req[s].line]].status
      BY <3>1 DEF AllFresh, Fresh
    <3>3. QED
      BY <3>1, <3>2 DEF Typed, TypeOK, Closed
  <2>4. QED
    BY <2>1, <2>2, <2>3
<1>6. ASSUME NEW s \in Slots, PickingNext(s) PROVE ord'[o].status = ord[o].status
  <2>1. \/ UNCHANGED ord
        \/ StartPickingSession(s) \/ StartPickingStatus(s) \/ SyncRead(s) \/ SyncWrite(s)
        \/ CompletePickingWrite(s)
    BY <1>6 DEF PickingNext, StartPickingRead, PickAllRead, CompletePickingRead, PickLineRead,
       PickWrite, FinishPickingTask, CountOpenPickingTasks, TaskRead, CompletePacking, tables
  <2>2. CASE StartPickingSession(s) \/ SyncRead(s)
    BY <2>2 DEF StartPickingSession, SyncRead, Typed, TypeOK, OrderRow
  <2>3. CASE StartPickingStatus(s)
    <3>1. /\ req[s].op = "start"
          /\ ord' = [ord EXCEPT ![req[s].ord].status = "PREPARING"]
      BY <2>3 DEF StartPickingStatus, At
    <3>2. ord[req[s].ord].status \in Startable
      BY <3>1 DEF AllFresh, Fresh
    <3>3. QED
      BY <1>0, <3>1, <3>2 DEF Typed, TypeOK
  <2>4. CASE SyncWrite(s)
    <3>1. /\ req[s].op = "sync" /\ req[s].phase = "write"
          /\ \/ ord' = ord
             \/ /\ req[s].seen \notin Closed
                /\ ord' = [ord EXCEPT ![req[s].ord].status = "PREPARING"]
      BY <2>4 DEF SyncWrite, At
    <3>2. req[s].seen = ord[req[s].ord].status
      BY <3>1 DEF AllFresh, Fresh
    <3>3. QED
      BY <3>1, <3>2 DEF Typed, TypeOK
  <2>5. CASE CompletePickingWrite(s)
    <3>1. /\ ord[req[s].ord].status \in Startable
          /\ ord' = [ord EXCEPT ![req[s].ord].status = "READY", ![req[s].ord].session = "COMPLETED"]
      BY <2>5 DEF CompletePickingWrite, StillStartable
    <3>2. QED
      BY <1>0, <3>1 DEF Typed, TypeOK
  <2>6. QED
    BY <2>1, <2>2, <2>3, <2>4, <2>5
<1>7. ASSUME NEW s \in Slots, Abort(s) PROVE ord'[o] = ord[o]
  BY <1>7 DEF Abort, tables
<1>8. QED
  BY <1>2, <1>3, <1>4, <1>5, <1>6, <1>7 DEF Next

\* With one request at a time an order that is over stays over: of the handlers that
\* write a status without looking at the row again, none has read one that is over.
THEOREM ClosedForGood ==
    ASSUME Alone
    PROVE  Spec => ClosedIsFinal
<1>1. Typed /\ LocksHold /\ RequestsKnow /\ AllFresh /\ [Next]_vars =>
        [\A o \in Orders : ord[o].status \in Closed => ord'[o].status = ord[o].status]_ord
  BY ClosedStays DEF vars
<1>2. QED
  BY <1>1, AlwaysLocked, AlwaysFresh, PTL DEF Spec, ClosedIsFinal

-----------------------------------------------------------------------------
(* Sums: what the library's theorems about finite sets say of Total.         *)

Columns(S, f) == UNION {{x} \X (1..f[x]) : x \in S}
Summed(S, f) == IsFiniteSet(S) /\ \A x \in S : f[x] \in Int

LEMMA InColumns ==
    ASSUME NEW S, NEW f
    PROVE  \A p : p \in Columns(S, f) <=> \E x \in S : \E k \in 1..f[x] : p = <<x, k>>
  BY DEF Columns

LEMMA ColumnsAreFinite ==
    ASSUME NEW S, NEW f, Summed(S, f)
    PROVE  IsFiniteSet(Columns(S, f)) /\ Total(S, f) = Cardinality(Columns(S, f))
<1> DEFINE column(x) == {x} \X (1..f[x])
           columns == {column(x) : x \in S}
           g == [x \in S |-> column(x)]
<1>1. g \in Surjection(S, columns)
  BY DEF Surjection
<1>2. IsFiniteSet(columns)
  BY <1>1, FS_Surjection, Zenon DEF Summed
<1>3. \A c \in columns : IsFiniteSet(c)
  <2>1. ASSUME NEW x \in S PROVE IsFiniteSet(column(x))
    <3>1. IsFiniteSet({x})
      BY FS_Singleton
    <3>2. IsFiniteSet(1..f[x])
      BY FS_Interval DEF Summed
    <3>3. QED
      BY <3>1, <3>2, FS_Product
  <2>2. QED
    BY <2>1
<1>4. IsFiniteSet(UNION columns)
  BY <1>2, <1>3, FS_UNION
<1>5. QED
  BY <1>4 DEF Columns, Total

LEMMA TotalNat ==
    ASSUME NEW S, NEW f, Summed(S, f) PROVE Total(S, f) \in Nat
  BY TotalIsNat DEF Summed

\* A sum depends on what is summed.
LEMMA TotalSame ==
    ASSUME NEW S, NEW f, NEW g, \A x \in S : f[x] = g[x] PROVE Total(S, f) = Total(S, g)
<1>1. {{x} \X (1..f[x]) : x \in S} = {{x} \X (1..g[x]) : x \in S}
  OBVIOUS
<1>2. QED
  BY <1>1 DEF Total

\* Nothing, one summand, two sets.
LEMMA TotalEmpty == ASSUME NEW f PROVE Total({}, f) = 0
<1>1. Columns({}, f) = {}
  BY DEF Columns
<1>2. QED
  BY <1>1, FS_EmptySet DEF Columns, Total

LEMMA TotalOne ==
    ASSUME NEW x, NEW f, f[x] \in Nat PROVE Total({x}, f) = f[x]
<1> DEFINE b == [k \in 1..f[x] |-> <<x, k>>]
<1>1. b \in Bijection(1..f[x], Columns({x}, f))
  BY InColumns DEF Bijection, Injection, Surjection, IsInjective
<1>2. IsFiniteSet(1..f[x]) /\ Cardinality(1..f[x]) = f[x]
  <2>1. PICK n \in Nat : n = f[x]
    OBVIOUS
  <2>2. 1 \in Int /\ n \in Int
    OBVIOUS
  <2>3. IsFiniteSet(1..n) /\ Cardinality(1..n) = IF 1 > n THEN 0 ELSE n - 1 + 1
    BY <2>2, FS_Interval, Zenon
  <2>4. (IF 1 > n THEN 0 ELSE n - 1 + 1) = n
    OBVIOUS
  <2>5. QED
    BY <2>1, <2>3, <2>4
<1>3. Cardinality(Columns({x}, f)) = f[x]
  BY <1>1, <1>2, FS_Bijection DEF ExistsBijection
<1>4. QED
  BY <1>3 DEF Total, Columns

LEMMA TotalJoin ==
    ASSUME NEW S, NEW T, NEW f, Summed(S, f), Summed(T, f), S \cap T = {}
    PROVE  Total(S \union T, f) = Total(S, f) + Total(T, f)
<1>1. Summed(S \union T, f)
  BY FS_Union DEF Summed
<1>2. Columns(S \union T, f) = Columns(S, f) \union Columns(T, f)
  BY DEF Columns
<1>3. Columns(S, f) \cap Columns(T, f) = {}
  BY InColumns
<1>4. /\ IsFiniteSet(Columns(S, f)) /\ Total(S, f) = Cardinality(Columns(S, f))
      /\ IsFiniteSet(Columns(T, f)) /\ Total(T, f) = Cardinality(Columns(T, f))
  BY ColumnsAreFinite
<1>5. Cardinality(Columns(S, f) \union Columns(T, f))
           = Cardinality(Columns(S, f)) + Cardinality(Columns(T, f)) - Cardinality({})
  <2>1. Cardinality(Columns(S, f) \union Columns(T, f))
           = Cardinality(Columns(S, f)) + Cardinality(Columns(T, f))
             - Cardinality(Columns(S, f) \cap Columns(T, f))
    BY <1>4, FS_Union
  <2>2. QED
    BY <1>3, <2>1, Zenon
<1>6. Cardinality({}) = 0
  BY FS_EmptySet
<1>7. Total(S, f) \in Nat /\ Total(T, f) \in Nat
  BY TotalNat
<1>8. Total(S \union T, f) = Cardinality(Columns(S, f) \union Columns(T, f))
  BY <1>1, <1>2, ColumnsAreFinite
<1>9. QED
  BY <1>4, <1>5, <1>6, <1>7, <1>8

\* A part of the summands, and what is left.
LEMMA TotalPart ==
    ASSUME NEW S, NEW f, Summed(S, f), NEW T, T \subseteq S
    PROVE  /\ Summed(T, f) /\ Summed(S \ T, f)
           /\ Total(S, f) = Total(T, f) + Total(S \ T, f)
<1>1. Summed(T, f) /\ Summed(S \ T, f)
  BY FS_Subset DEF Summed
<1>2. S = T \union (S \ T) /\ T \cap (S \ T) = {}
  OBVIOUS
<1>3. Total(T \union (S \ T), f) = Total(T, f) + Total(S \ T, f)
  BY <1>1, <1>2, TotalJoin
<1>4. QED
  BY <1>1, <1>2, <1>3

\* Summands that are not positive count for nothing.
LEMMA TotalPositive ==
    ASSUME NEW S, NEW f, Summed(S, f), NEW T, T \subseteq S, \A x \in S \ T : f[x] <= 0
    PROVE  Total(S, f) = Total(T, f)
<1>1. Columns(S, f) = Columns(T, f)
  <2>1. \A x \in S \ T : 1..f[x] = {}
    BY DEF Summed
  <2>2. QED
    BY <2>1 DEF Columns
<1>2. QED
  BY <1>1 DEF Total, Columns

\* The summands may be named otherwise.
LEMMA TotalRenamed ==
    ASSUME NEW S, NEW f, Summed(S, f), NEW D, NEW g, NEW b \in Bijection(D, S),
           \A d \in D : g[d] = f[b[d]]
    PROVE  Total(D, g) = Total(S, f)
<1>1. /\ b \in [D -> S]
      /\ \A d \in D, e \in D : b[d] = b[e] => d = e
      /\ \A x \in S : \E d \in D : b[d] = x
  BY Fun_BijectionProperties
<1> DEFINE h == [p \in Columns(D, g) |-> <<b[p[1]], p[2]>>]
<1>2. h \in [Columns(D, g) -> Columns(S, f)]
  BY <1>1, InColumns
<1>3. ASSUME NEW p \in Columns(D, g), NEW q \in Columns(D, g), h[p] = h[q] PROVE p = q
  <2>1a. PICK d \in D : \E k \in 1..g[d] : p = <<d, k>>
    BY InColumns
  <2>1. PICK k \in 1..g[d] : p = <<d, k>>
    BY <2>1a
  <2>2a. PICK e \in D : \E m \in 1..g[e] : q = <<e, m>>
    BY InColumns
  <2>2. PICK m \in 1..g[e] : q = <<e, m>>
    BY <2>2a
  <2>3. <<b[d], k>> = <<b[e], m>>
    BY <1>3, <2>1, <2>2
  <2>4. QED
    BY <1>1, <2>1, <2>2, <2>3
<1>4. ASSUME NEW p \in Columns(S, f) PROVE \E q \in Columns(D, g) : h[q] = p
  <2>1a. PICK x \in S : \E k \in 1..f[x] : p = <<x, k>>
    BY InColumns
  <2>1. PICK k \in 1..f[x] : p = <<x, k>>
    BY <2>1a
  <2>2. PICK d \in D : b[d] = x
    BY <1>1
  <2>3. <<d, k>> \in Columns(D, g)
    BY <2>1, <2>2, InColumns
  <2>4. QED
    BY <2>1, <2>2, <2>3
<1> HIDE DEF h
<1>5. h \in Bijection(Columns(D, g), Columns(S, f))
  BY <1>2, <1>3, <1>4 DEF Bijection, Injection, Surjection, IsInjective
<1>6. ExistsBijection(Columns(S, f), Columns(D, g))
  BY <1>5, Fun_ExistsBijSymmetric DEF ExistsBijection
<1>7. QED
  BY <1>6, ColumnsAreFinite, FS_Bijection DEF Total, Columns

\* Every summand is the sum of two.
LEMMA TotalPlus ==
    ASSUME NEW S, NEW f, NEW g, NEW h, IsFiniteSet(S),
           \A x \in S : g[x] \in Nat /\ h[x] \in Nat /\ f[x] = g[x] + h[x]
    PROVE  Total(S, f) = Total(S, g) + Total(S, h)
<1> DEFINE Rest == {p \in Columns(S, f) : p[2] > g[p[1]]}
           b == [p \in Rest |-> <<p[1], p[2] - g[p[1]]>>]
<1>0. Summed(S, f) /\ Summed(S, g) /\ Summed(S, h)
  BY DEF Summed
<1>1. Columns(S, f) = Columns(S, g) \union Rest /\ Columns(S, g) \cap Rest = {}
  <2>1. ASSUME NEW p \in Columns(S, g) PROVE p \in Columns(S, f) /\ p \notin Rest
    <3>1a. PICK x \in S : \E k \in 1..g[x] : p = <<x, k>>
      BY InColumns
    <3>1. PICK k \in 1..g[x] : p = <<x, k>>
      BY <3>1a
    <3>2. k \in 1..f[x] /\ ~(k > g[x])
      BY <3>1
    <3>3. p[1] = x /\ p[2] = k
      BY <3>1
    <3>4. p \in Columns(S, f)
      BY <3>1, <3>2, InColumns
    <3>5. QED
      BY <3>2, <3>3, <3>4
  <2>2. ASSUME NEW p \in Columns(S, f) PROVE p \in Rest \/ p \in Columns(S, g)
    <3>1a. PICK x \in S : \E k \in 1..f[x] : p = <<x, k>>
      BY InColumns
    <3>1. PICK k \in 1..f[x] : p = <<x, k>>
      BY <3>1a
    <3>2. k > g[x] \/ k \in 1..g[x]
      BY <3>1
    <3>3. p[1] = x /\ p[2] = k
      BY <3>1
    <3>4. k \in 1..g[x] => p \in Columns(S, g)
      BY <3>1, InColumns
    <3>5. QED
      BY <3>2, <3>3, <3>4
  <2>3. QED
    BY <2>1, <2>2
<1>2. \A p \in Rest : \E x \in S : \E k \in 1..h[x] : p = <<x, k + g[x]>> /\ b[p] = <<x, k>>
  <2>1. SUFFICES ASSUME NEW p \in Rest
                 PROVE  \E x \in S : \E k \in 1..h[x] : p = <<x, k + g[x]>> /\ b[p] = <<x, k>>
    OBVIOUS
  <2>2a. PICK x \in S : \E k \in 1..f[x] : p = <<x, k>>
    BY InColumns
  <2>2. PICK k \in 1..f[x] : p = <<x, k>>
    BY <2>2a
  <2>3. p[1] = x /\ p[2] = k
    BY <2>2
  <2>4. k > g[x]
    BY <2>3
  <2>5. k - g[x] \in 1..h[x] /\ k = (k - g[x]) + g[x]
    BY <2>2, <2>4
  <2>6. b[p] = <<x, k - g[x]>>
    BY <2>3
  <2>7. QED
    BY <2>2, <2>5, <2>6
<1>3. \A x \in S : \A k \in 1..h[x] : <<x, k + g[x]>> \in Rest /\ b[<<x, k + g[x]>>] = <<x, k>>
  <2>1. SUFFICES ASSUME NEW x \in S, NEW k \in 1..h[x]
                 PROVE  <<x, k + g[x]>> \in Rest /\ b[<<x, k + g[x]>>] = <<x, k>>
    OBVIOUS
  <2>2. k + g[x] \in 1..f[x] /\ k + g[x] > g[x] /\ (k + g[x]) - g[x] = k
    OBVIOUS
  <2>3. <<x, k + g[x]>> \in Columns(S, f)
    BY <2>2, InColumns
  <2>4. <<x, k + g[x]>>[1] = x /\ <<x, k + g[x]>>[2] = k + g[x]
    OBVIOUS
  <2>5. <<x, k + g[x]>> \in Rest
    BY <2>2, <2>3, <2>4
  <2>6. QED
    BY <2>2, <2>4, <2>5
<1> HIDE DEF b, Rest
<1>4. b \in Bijection(Rest, Columns(S, h))
  <2>1. DOMAIN b = Rest /\ b = [p \in Rest |-> b[p]]
    BY DEF b
  <2>2. \A p \in Rest : b[p] \in Columns(S, h)
    BY <1>2, InColumns
  <2>3. \A p \in Rest, q \in Rest : b[p] = b[q] => p = q
    <3>1. SUFFICES ASSUME NEW p \in Rest, NEW q \in Rest, b[p] = b[q] PROVE p = q
      OBVIOUS
    <3>2a. PICK x \in S : \E k \in 1..h[x] : p = <<x, k + g[x]>> /\ b[p] = <<x, k>>
      BY <1>2
    <3>2. PICK k \in 1..h[x] : p = <<x, k + g[x]>> /\ b[p] = <<x, k>>
      BY <3>2a
    <3>3a. PICK y \in S : \E m \in 1..h[y] : q = <<y, m + g[y]>> /\ b[q] = <<y, m>>
      BY <1>2
    <3>3. PICK m \in 1..h[y] : q = <<y, m + g[y]>> /\ b[q] = <<y, m>>
      BY <3>3a
    <3>4. x = y /\ k = m
      BY <3>1, <3>2, <3>3
    <3>5. QED
      BY <3>2, <3>3, <3>4
  <2>4. ASSUME NEW c \in Columns(S, h) PROVE \E p \in Rest : b[p] = c
    <3>1. PICK x \in S : \E k \in 1..h[x] : c = <<x, k>>
      BY InColumns
    <3>2. QED
      BY <1>3, <3>1
  <2>5. b \in [Rest -> Columns(S, h)]
    BY <2>1, <2>2
  <2>6. b \in Injection(Rest, Columns(S, h))
    BY <2>3, <2>5 DEF Injection, IsInjective
  <2>7. b \in Surjection(Rest, Columns(S, h))
    BY <2>4, <2>5 DEF Surjection
  <2>8. QED
    BY <2>6, <2>7 DEF Bijection
<1>5. IsFiniteSet(Columns(S, f)) /\ IsFiniteSet(Columns(S, g)) /\ IsFiniteSet(Columns(S, h))
  BY <1>0, ColumnsAreFinite
<1>6. IsFiniteSet(Rest)
  BY <1>1, <1>5, FS_Subset
<1>7. Cardinality(Columns(S, h)) = Cardinality(Rest)
  BY <1>4, <1>6, FS_Bijection DEF ExistsBijection
<1>8. Cardinality(Columns(S, f)) = Cardinality(Columns(S, g)) + Cardinality(Rest) - Cardinality({})
  BY <1>1, <1>5, <1>6, FS_Union
<1>9. Cardinality({}) = 0 /\ Cardinality(Rest) \in Nat /\ Cardinality(Columns(S, g)) \in Nat
  BY <1>5, <1>6, FS_EmptySet, FS_CardinalityType
<1>10. QED
  BY <1>0, <1>7, <1>8, <1>9, ColumnsAreFinite

-----------------------------------------------------------------------------
(* The ids of new reservations.                                              *)

RowsNumbered(n) == \A r \in ResIds : res[r].status # "ABSENT" <=> r <= n
ReservationsNumbered == \E n \in 0..MaxReservations : RowsNumbered(n)

LEMMA UsedReservations ==
    ASSUME NEW n \in 0..MaxReservations, RowsNumbered(n)
    PROVE  UsedRes = n
<1>1. {r \in ResIds : res[r].status # "ABSENT"} = 1..n
  BY ErpAssumption DEF RowsNumbered, ResIds
<1>2. Cardinality(1..n) = n
  <2>1. 1 \in Int /\ n \in Int /\ n >= 0
    BY ErpAssumption
  <2>2. Cardinality(1..n) = IF 1 > n THEN 0 ELSE n - 1 + 1
    BY <2>1, FS_Interval
  <2>3. QED
    BY <2>1, <2>2
<1>3. QED
  BY <1>1, <1>2 DEF UsedRes

\* The rows that a step adds are the next ones, all of them ACTIVE.
NextIds(ids) == ids \subseteq ResIds /\ \E m \in Nat : ids = UsedRes + 1 .. UsedRes + m
Grown(ids) ==
    /\ NextIds(ids)
    /\ \A r \in ids : res'[r].status = "ACTIVE"
    /\ \A r \in ResIds \ ids : res'[r] = res[r]

LEMMA NextAreFree ==
    ASSUME ReservationsNumbered, NEW ids, NextIds(ids)
    PROVE  /\ \A r \in ids : res[r].status = "ABSENT"
           /\ \E n \in 0..MaxReservations :
                \A r \in ResIds : r <= n <=> r \in ids \/ res[r].status # "ABSENT"
<1>1. PICK n \in 0..MaxReservations : RowsNumbered(n)
  BY DEF ReservationsNumbered
<1>2. UsedRes = n
  BY <1>1, UsedReservations
<1>3. n \in Nat /\ MaxReservations \in Nat /\ n <= MaxReservations
  BY ErpAssumption
<1>4. PICK m \in Nat : ids = n + 1 .. n + m
  BY <1>2 DEF NextIds
<1>5. ASSUME NEW r \in n + 1 .. n + m PROVE r \in ResIds /\ res[r].status = "ABSENT"
  <2>0. r \in ids
    BY <1>4
  <2>1. r \in ResIds
    BY <2>0 DEF NextIds
  <2>3. r \in Int /\ n + 1 <= r
    BY <1>3
  <2>4. ~(r <= n)
    BY <1>3, <2>3
  <2>5. QED
    BY <1>1, <2>1, <2>4 DEF RowsNumbered
<1>6. n + m \in 0..MaxReservations
  <2>1. CASE m = 0
    BY <1>3, <2>1
  <2>2. CASE m > 0
    <3>1. n + m \in n + 1 .. n + m
      BY <1>3, <2>2
    <3>2. n + m \in ResIds
      BY <1>5, <3>1
    <3>3. QED
      BY <1>3, <3>2 DEF ResIds
  <2>3. QED
    BY <2>1, <2>2
<1>7. ASSUME NEW r \in ResIds
      PROVE  r <= n + m <=> r \in ids \/ res[r].status # "ABSENT"
  <2>1. r \in Nat /\ r >= 1
    BY ErpAssumption DEF ResIds
  <2>2. r \in ids <=> n + 1 <= r /\ r <= n + m
    BY <1>3, <1>4, <2>1
  <2>3. res[r].status # "ABSENT" <=> r <= n
    BY <1>1 DEF RowsNumbered
  <2>4. QED
    BY <1>3, <2>1, <2>2, <2>3
<1>8. QED
  BY <1>4, <1>5, <1>6, <1>7

LEMMA GrownNumbers ==
    ASSUME ReservationsNumbered, NEW ids, Grown(ids) PROVE ReservationsNumbered'
<1>1. NextIds(ids)
  BY DEF Grown
<1>2. PICK n \in 0..MaxReservations :
         \A r \in ResIds : r <= n <=> r \in ids \/ res[r].status # "ABSENT"
  BY <1>1, NextAreFree
<1>3. \A r \in ResIds : res'[r].status # "ABSENT" <=> r <= n
  BY <1>2 DEF Grown
<1>4. QED
  BY <1>3 DEF ReservationsNumbered, RowsNumbered

\* The new rows, one for each member of a set of numbers.
LEMMA Inserts ==
    ASSUME ReservationsNumbered, NEW S, S \subseteq Nat, IsFiniteSet(S),
           NEW new \in NewReservations(S)
    PROVE  NextIds(DOMAIN new) /\ new \in Bijection(DOMAIN new, S)
<1> DEFINE ids == UsedRes + 1 .. UsedRes + Cardinality(S)
<1>1. /\ new \in [ids -> S] /\ ids \subseteq ResIds
      /\ \A m \in ids, n \in ids : m < n => new[m] < new[n]
  BY DEF NewReservations
<1>2. Cardinality(S) \in Nat /\ UsedRes \in Nat
  <2>1. PICK n \in 0..MaxReservations : RowsNumbered(n)
    BY DEF ReservationsNumbered
  <2>2. UsedRes = n
    BY <2>1, UsedReservations
  <2>3. QED
    BY <2>2, FS_CardinalityType, ErpAssumption
<1>3. NextIds(ids)
  BY <1>1, <1>2 DEF NextIds
<1>4. \A m \in ids, n \in ids : new[m] = new[n] => m = n
  <2>1. SUFFICES ASSUME NEW m \in ids, NEW n \in ids, new[m] = new[n], m # n PROVE FALSE
    OBVIOUS
  <2>2. m \in Int /\ n \in Int /\ new[m] \in Nat
    <3>1. new[m] \in S
      BY <1>1
    <3>2. \A x \in ids : x \in Int
      BY <1>2
    <3>3. QED
      BY <3>1, <3>2
  <2>3. m < n \/ n < m
    BY <2>1, <2>2
  <2>4. new[m] < new[n] \/ new[n] < new[m]
    BY <1>1, <2>3
  <2>5. QED
    BY <2>1, <2>2, <2>4
<1>5. new \in Injection(ids, S)
  BY <1>1, <1>4 DEF Injection, IsInjective
<1>6. IsFiniteSet(ids) /\ Cardinality(ids) = Cardinality(S)
  <2>1. UsedRes + 1 \in Int /\ UsedRes + Cardinality(S) \in Int
    BY <1>2
  <2>2. PICK a, b : a = UsedRes + 1 /\ b = UsedRes + Cardinality(S)
    OBVIOUS
  <2>3. ids = a..b /\ a \in Int /\ b \in Int
    BY <2>1, <2>2
  <2>4. IsFiniteSet(a..b) /\ Cardinality(a..b) = IF a > b THEN 0 ELSE b - a + 1
    BY <2>3, FS_Interval
  <2>5. (IF a > b THEN 0 ELSE b - a + 1) = Cardinality(S)
    BY <1>2, <2>2
  <2>6. QED
    BY <2>3, <2>4, <2>5
<1> DEFINE R == {new[m] : m \in ids}
<1>7. new \in Surjection(ids, R) /\ new \in Injection(ids, R) /\ R \subseteq S
  BY <1>1, <1>4 DEF Surjection, Injection, IsInjective
<1>8. Cardinality(R) = Cardinality(ids)
  <2>1. new \in Bijection(ids, R)
    BY <1>7 DEF Bijection
  <2>2. QED
    BY <1>6, <2>1, FS_Bijection DEF ExistsBijection
<1>9. R = S
  BY <1>6, <1>7, <1>8, FS_Subset
<1>10. DOMAIN new = ids
  BY <1>1
<1>11. QED
  BY <1>3, <1>7, <1>9, <1>10 DEF Bijection

-----------------------------------------------------------------------------
(* The ledger: what a step adds to it and takes from it.                      *)

\* What the reservations of a set count at an inventory.
Counted(S, i) == Total({r \in S : res[r].inv = i}, Quantities)

LEMMA Quantity ==
    ASSUME Typed, NEW r \in ResIds
    PROVE  /\ Quantities[r] = res[r].qty /\ res[r].qty \in Nat
           /\ res[r] \in ReservationRow
  BY DEF Typed, TypeOK, Quantities, ReservationRow

LEMMA QuantitiesSummed ==
    ASSUME Typed, NEW S, S \subseteq ResIds PROVE Summed(S, Quantities)
  BY Quantity, ReservationsAreFinite DEF Summed

\* More is reserved, and the ledger says so.
LEMMA LedgerGrows ==
    ASSUME Typed, Typed', ReservationsNumbered, NEW ids, Grown(ids), NEW i \in Inventories,
           inv[i].reserved = Total(ActiveOn(i), Quantities),
           inv'[i].reserved = inv[i].reserved + Counted(ids, i)'
    PROVE  inv'[i].reserved = Total(ActiveOn(i), Quantities)'
<1> DEFINE more == {r \in ids : res'[r].inv = i}
<1>1. PICK before, after, now : /\ before = ActiveOn(i) /\ after = ActiveOn(i)'
                                /\ now = Quantities'
  OBVIOUS
<1>2. ids \subseteq ResIds /\ \A r \in ids : res[r].status = "ABSENT"
  BY NextAreFree DEF Grown, NextIds
<1>3. after = before \union more /\ before \cap more = {}
  BY <1>1, <1>2 DEF Grown, ActiveOn
<1>4. \A r \in before : Quantities[r] = now[r]
  BY <1>1, <1>2 DEF Grown, ActiveOn, Quantities
<1>5. Summed(before, now) /\ Summed(more, now)
  <2>1. before \subseteq ResIds /\ more \subseteq ResIds
    BY <1>1, <1>2 DEF ActiveOn
  <2>2. ASSUME NEW r \in ResIds PROVE now[r] \in Int
    BY <1>1 DEF Typed, TypeOK, Quantities, ReservationRow
  <2>3. QED
    BY <2>1, <2>2, ReservationsAreFinite DEF Summed
<1>6. Total(after, now) = Total(before, now) + Total(more, now)
  BY <1>3, <1>5, TotalJoin
<1>7. Total(before, Quantities) = Total(before, now)
  BY <1>4, TotalSame
<1>8. inv'[i].reserved = Total(before, Quantities) + Total(more, now)
  BY <1>1 DEF Counted
<1>9. QED
  BY <1>1, <1>6, <1>7, <1>8

\* Units are taken out of reservations, which end or keep the rest.
Shrunk(G, take) ==
    /\ G \subseteq ResIds
    /\ \A r \in G :
          /\ res[r].status = "ACTIVE" /\ take[r] \in 0..res[r].qty
          /\ res'[r].inv = res[r].inv /\ res'[r].ord = res[r].ord
          /\ \/ res'[r].status = "ACTIVE" /\ res'[r].qty = res[r].qty - take[r]
             \/ /\ res'[r].status \in {"COMPLETED", "RELEASED"}
                /\ take[r] = res[r].qty /\ res'[r].qty = res[r].qty
    /\ \A r \in ResIds \ G : res'[r] = res[r]

LEMMA TakenOut ==
    ASSUME Typed, Typed', NEW G, NEW take, Shrunk(G, take), NEW i \in Inventories
    PROVE  /\ Total(ActiveOn(i), Quantities)
                = Total({r \in G : res[r].inv = i}, take) + Total(ActiveOn(i), Quantities)'
           /\ Total({r \in G : res[r].inv = i}, take) \in Nat
           /\ Total(ActiveOn(i), Quantities)' \in Nat
<1>1. PICK before, after, part, now :
         /\ before = ActiveOn(i) /\ after = ActiveOn(i)'
         /\ part = {r \in G : res[r].inv = i} /\ now = Quantities'
  OBVIOUS
<1> DEFINE g == [r \in before |-> IF r \in part THEN take[r] ELSE 0]
           h == [r \in before |-> IF r \in part THEN Quantities[r] - take[r] ELSE Quantities[r]]
<1>2. part \subseteq before /\ after \subseteq before /\ before \subseteq ResIds
  BY <1>1 DEF Shrunk, ActiveOn
<1>3. ASSUME NEW r \in before
      PROVE  g[r] \in Nat /\ h[r] \in Nat /\ Quantities[r] = g[r] + h[r]
  <2>1. Quantities[r] = res[r].qty /\ res[r].qty \in Nat
    BY <1>2, Quantity
  <2>2. CASE r \in part
    <3>1. take[r] \in 0..res[r].qty
      BY <1>1, <2>2 DEF Shrunk
    <3>2. g[r] = take[r] /\ h[r] = res[r].qty - take[r]
      BY <2>1, <2>2
    <3>3. QED
      BY <2>1, <3>1, <3>2
  <2>3. CASE r \notin part
    BY <2>1, <2>3
  <2>4. QED
    BY <2>2, <2>3
<1>4. IsFiniteSet(before) /\ IsFiniteSet(part) /\ IsFiniteSet(after)
  BY <1>2, ReservationsAreFinite, FS_Subset
<1>5. Total(before, Quantities) = Total(before, g) + Total(before, h)
  <2> HIDE DEF g, h
  <2>1. QED
    BY <1>3, <1>4, TotalPlus
<1>6. Summed(before, g) /\ Summed(before, h)
  <2> HIDE DEF g, h
  <2>1. QED
    BY <1>3, <1>4 DEF Summed
<1>7. Total(before, g) = Total(part, take)
  <2>1. \A r \in before \ part : g[r] <= 0
    OBVIOUS
  <2>2. \A r \in part : g[r] = take[r]
    BY <1>2
  <2> HIDE DEF g
  <2>3. Total(before, g) = Total(part, g)
    BY <1>2, <1>6, <2>1, TotalPositive
  <2>4. QED
    BY <2>2, <2>3, TotalSame
<1>8. Total(before, h) = Total(after, now)
  <2>1. ASSUME NEW r \in before, r \notin after PROVE h[r] <= 0
    <3>1. r \in ResIds /\ res[r].status = "ACTIVE" /\ res[r].inv = i /\ Quantities[r] = res[r].qty
      BY <1>1, <1>2, Quantity DEF ActiveOn
    <3>2. r \in G
      BY <1>1, <2>1, <3>1 DEF Shrunk, ActiveOn
    <3>3. r \in part
      BY <1>1, <3>1, <3>2
    <3>4. take[r] = res[r].qty
      BY <1>1, <2>1, <3>1, <3>2 DEF Shrunk, ActiveOn
    <3>5. res[r].qty \in Nat
      BY <3>1, Quantity
    <3>6. h[r] = Quantities[r] - take[r]
      BY <2>1, <3>3
    <3>7. QED
      BY <3>1, <3>4, <3>5, <3>6
  <2>2. ASSUME NEW r \in after PROVE h[r] = now[r]
    <3>1. r \in ResIds /\ res'[r].status = "ACTIVE" /\ now[r] = res'[r].qty /\ r \in before
      BY <1>1, <1>2, <2>2 DEF ActiveOn, Quantities
    <3>2. CASE r \in part
      <4>1. res'[r].qty = res[r].qty - take[r]
        BY <1>1, <3>1, <3>2 DEF Shrunk
      <4>2. h[r] = Quantities[r] - take[r] /\ Quantities[r] = res[r].qty
        BY <3>1, <3>2, Quantity
      <4>3. QED
        BY <3>1, <4>1, <4>2
    <3>3. CASE r \notin part
      <4>1. res'[r] = res[r]
        BY <1>1, <3>1, <3>3 DEF Shrunk, ActiveOn
      <4>2. h[r] = Quantities[r] /\ Quantities[r] = res[r].qty
        BY <3>1, <3>3, Quantity
      <4>3. QED
        BY <3>1, <4>1, <4>2
    <3>4. QED
      BY <3>2, <3>3
  <2> HIDE DEF h
  <2>3. Total(before, h) = Total(after, h)
    BY <1>2, <1>6, <2>1, TotalPositive
  <2>4. QED
    BY <2>2, <2>3, TotalSame
<1>9. Total(part, take) \in Nat /\ Total(after, now) \in Nat
  <2>1. Total(before, g) \in Nat /\ Total(before, h) \in Nat
    <3> HIDE DEF g, h
    <3>1. QED
      BY <1>6, TotalNat
  <2>2. QED
    BY <1>7, <1>8, <2>1
<1>10. QED
  BY <1>1, <1>5, <1>7, <1>8, <1>9

LEMMA ShrunkNumbers ==
    ASSUME ReservationsNumbered, NEW G, NEW take, Shrunk(G, take) PROVE ReservationsNumbered'
<1>1. \A r \in ResIds : res'[r].status # "ABSENT" <=> res[r].status # "ABSENT"
  BY DEF Shrunk
<1>2. QED
  BY <1>1 DEF ReservationsNumbered, RowsNumbered

\* The rows that an INSERT adds, one for each member of S, count what they were
\* made of.
MadeOf(rows, new, S, place, f) ==
    /\ S \subseteq Nat /\ Summed(S, f) /\ new \in NewReservations(S)
    /\ DOMAIN rows = DOMAIN new
    /\ \A r \in DOMAIN new : /\ rows[r].status = "ACTIVE"
                             /\ rows[r].inv = place[new[r]] /\ rows[r].qty = f[new[r]]

LEMMA InsertedRows ==
    ASSUME Typed, ReservationsNumbered, NEW rows, NEW new, NEW S, NEW place, NEW f,
           MadeOf(rows, new, S, place, f), res' = Inserted(rows)
    PROVE  /\ Grown(DOMAIN new)
           /\ \A r \in DOMAIN new : new[r] \in S /\ res'[r] = rows[r]
           /\ \A i \in Inventories : Counted(DOMAIN new, i)' = Total({k \in S : place[k] = i}, f)
<1>0. /\ S \subseteq Nat /\ Summed(S, f) /\ IsFiniteSet(S) /\ new \in NewReservations(S)
      /\ DOMAIN rows = DOMAIN new
      /\ \A r \in DOMAIN new : /\ rows[r].status = "ACTIVE"
                               /\ rows[r].inv = place[new[r]] /\ rows[r].qty = f[new[r]]
  BY DEF MadeOf, Summed
<1>1. NextIds(DOMAIN new) /\ new \in Bijection(DOMAIN new, S)
  BY <1>0, Inserts
<1>2. /\ \A r \in DOMAIN new : new[r] \in S
      /\ \A r \in DOMAIN new, q \in DOMAIN new : new[r] = new[q] => r = q
      /\ \A k \in S : \E r \in DOMAIN new : new[r] = k
  BY <1>1 DEF Bijection, Injection, Surjection, IsInjective
<1>3. DOMAIN new \subseteq ResIds
  BY <1>1 DEF NextIds
<1>4. \A r \in ResIds : res'[r] = IF r \in DOMAIN new THEN rows[r] ELSE res[r]
  BY <1>0 DEF Inserted
<1>5. Grown(DOMAIN new)
  BY <1>0, <1>1, <1>3, <1>4 DEF Grown
<1>6. ASSUME NEW i \in Inventories
      PROVE  Counted(DOMAIN new, i)' = Total({k \in S : place[k] = i}, f)
  <2>1. PICK D, T, now : /\ D = {r \in DOMAIN new : res'[r].inv = i}
                         /\ T = {k \in S : place[k] = i} /\ now = Quantities'
    OBVIOUS
  <2> DEFINE b == [r \in D |-> new[r]]
  <2>2. \A r \in DOMAIN new : r \in D <=> new[r] \in T
    BY <1>0, <1>2, <1>3, <1>4, <2>1
  <2>3. D \subseteq DOMAIN new /\ T \subseteq S
    BY <2>1
  <2>4. b \in [D -> T]
    BY <2>2, <2>3
  <2>5. \A r \in D, q \in D : b[r] = b[q] => r = q
    BY <1>2, <2>3
  <2>6. ASSUME NEW k \in T PROVE \E r \in D : b[r] = k
    <3>1. PICK r \in DOMAIN new : new[r] = k
      BY <1>2, <2>3
    <3>2. QED
      BY <2>2, <3>1
  <2>7. b \in Bijection(D, T)
    <3> HIDE DEF b
    <3>1. b \in Injection(D, T)
      BY <2>4, <2>5 DEF Injection, IsInjective
    <3>2. b \in Surjection(D, T)
      BY <2>4, <2>6 DEF Surjection
    <3>3. QED
      BY <3>1, <3>2 DEF Bijection
  <2>8. \A r \in D : now[r] = f[b[r]]
    BY <1>0, <1>3, <1>4, <2>1, <2>3 DEF Quantities
  <2>9. Summed(T, f)
    BY <1>0, <2>3, TotalPart
  <2> HIDE DEF b
  <2>10. Total(D, now) = Total(T, f)
    BY <2>7, <2>8, <2>9, TotalRenamed
  <2>11. QED
    BY <2>1, <2>10 DEF Counted
<1>7. QED
  BY <1>2, <1>3, <1>4, <1>5, <1>6

-----------------------------------------------------------------------------
(* What a step does to the reservations and to the ledger.                    *)

\* The requests that may reserve for an order that is over or was never placed.
Careless == {"reservation", "receive", "cancelTransfer"}
Late(s, o) ==
    \/ Careless \intersect Endpoints # {}
    \/ /\ req[s].op = "reserve" /\ o = LineOrder[req[s].line]
       /\ ord[o].status \in Closed \union {"ABSENT"}

\* Who may get a new reservation.
NewFor(s, o) ==
    /\ ~Placed(o) \/ Unlocked(o, s)
    /\ Late(s, o) \/ ord'[o].status \notin Closed \union {"ABSENT"}

\* Nothing happens to them, or the ledger is written again from them.
Kept ==
    /\ UNCHANGED res
    /\ \A i \in Inventories :
          inv'[i].reserved \in {inv[i].reserved, Total(ActiveOn(i), Quantities)}
\* Some are made.
Adds(s, ids) ==
    /\ Grown(ids)
    /\ \A r \in ids : res'[r].ord \in Orders => NewFor(s, res'[r].ord)
    /\ \A i \in Inventories : inv'[i].reserved = inv[i].reserved + Counted(ids, i)'
\* Some end, whole.
Ends(G) ==
    /\ Shrunk(G, Quantities) /\ \A r \in G : res'[r].status # "ACTIVE"
    /\ \A i \in Inventories : inv'[i].reserved = inv[i].reserved - Counted(G, i)
Booking(s) == Kept \/ \E S : Adds(s, S) \/ Ends(S)

LEMMA Adding ==
    ASSUME Typed, ReservationsNumbered, NEW s \in Slots,
           NEW rows, NEW new, NEW S, NEW place, NEW f,
           MadeOf(rows, new, S, place, f), res' = Inserted(rows),
           NEW o, \A r \in DOMAIN new : rows[r].ord = o, o \in Orders /\ S # {} => NewFor(s, o),
           \A i \in Inventories :
              inv'[i].reserved = inv[i].reserved + Total({k \in S : place[k] = i}, f)
    PROVE  Adds(s, DOMAIN new)
<1>1. /\ Grown(DOMAIN new)
      /\ \A r \in DOMAIN new : new[r] \in S /\ res'[r] = rows[r]
      /\ \A i \in Inventories : Counted(DOMAIN new, i)' = Total({k \in S : place[k] = i}, f)
  BY InsertedRows
<1>2. \A r \in DOMAIN new : res'[r].ord \in Orders => NewFor(s, res'[r].ord)
  BY <1>1
<1>3. \A i \in Inventories : inv'[i].reserved = inv[i].reserved + Counted(DOMAIN new, i)'
  BY <1>1
<1>4. QED
  BY <1>1, <1>2, <1>3 DEF Adds

LEMMA ReservationFields ==
    ASSUME NEW o, NEW l, NEW i, NEW q
    PROVE  /\ Reservation(o, l, i, q).status = "ACTIVE" /\ Reservation(o, l, i, q).ord = o
           /\ Reservation(o, l, i, q).inv = i /\ Reservation(o, l, i, q).qty = q
  BY DEF Reservation

LEMMA BookedRows ==
    ASSUME NEW f, NEW g, NEW i \in Inventories
    PROVE  /\ Booked(f, g)[i].stock = inv[i].stock + f[i]
           /\ Booked(f, g)[i].reserved = inv[i].reserved + g[i]
  BY DEF Booked

LEMMA InventoryInts ==
    ASSUME Typed, NEW i \in Inventories
    PROVE  inv[i].reserved \in Nat /\ inv[i].stock \in Nat
  BY DEF Typed, TypeOK, InventoryRow

LEMMA CreateReservationAdds ==
    ASSUME Typed, ReservationsNumbered, NEW s \in Slots, NEW i \in Inventories,
           CreateReservation(s, i)
    PROVE  \E ids : Adds(s, ids)
<1>1. PICK q \in 1..MaxQty, o \in Orders \union {Null}, new \in NewReservations({1}) :
          /\ o # Null => Placed(o) /\ Unlocked(o, s)
          /\ inv' = [inv EXCEPT ![i].reserved = inv[i].reserved + q]
          /\ res' = Inserted([r \in DOMAIN new |-> Reservation(o, Null, i, q)])
  BY DEF CreateReservation
<1>2. "reservation" \in Endpoints
  BY DEF CreateReservation, Starts
<1>0. PICK rows, place, f : /\ rows = [r \in DOMAIN new |-> Reservation(o, Null, i, q)]
                            /\ place = [k \in {1} |-> i] /\ f = [k \in {1} |-> q]
  OBVIOUS
<1>3. q \in Nat /\ {1} \subseteq Nat /\ Summed({1}, f)
  <2>1. q \in Nat
    BY ErpAssumption
  <2>2. IsFiniteSet({1})
    BY FS_Singleton
  <2>3. QED
    BY <1>0, <2>1, <2>2 DEF Summed
<1>4. MadeOf(rows, new, {1}, place, f) /\ \A r \in DOMAIN new : rows[r].ord = o
  <2>1. ASSUME NEW r \in DOMAIN new
        PROVE  /\ rows[r].status = "ACTIVE" /\ rows[r].ord = o
               /\ rows[r].inv = place[new[r]] /\ rows[r].qty = f[new[r]]
    <3>1. new[r] = 1
      BY NewReservationsType
    <3>2. rows[r] = Reservation(o, Null, i, q)
      BY <1>0
    <3>3. place[1] = i /\ f[1] = q
      BY <1>0
    <3>4. place[new[r]] = i /\ f[new[r]] = q
      BY <3>1, <3>3
    <3>5. QED
      BY <3>2, <3>4, ReservationFields
  <2>2. DOMAIN rows = DOMAIN new
    BY <1>0
  <2>3. QED
    BY <1>3, <2>1, <2>2 DEF MadeOf
<1>5. o \in Orders => NewFor(s, o)
  BY <1>1, <1>2, ErpAssumption DEF NewFor, Late, Careless
<1>6. ASSUME NEW j \in Inventories
      PROVE  inv'[j].reserved = inv[j].reserved + Total({k \in {1} : place[k] = j}, f)
  <2>1. inv[j].reserved \in Nat /\ inv[i].reserved \in Nat
    BY InventoryInts
  <2>2. CASE j = i
    <3>1. {k \in {1} : place[k] = j} = {1} /\ f[1] = q
      BY <1>0, <2>2
    <3>2. Total({1}, f) = q
      BY <1>3, <3>1, TotalOne
    <3>3. inv'[i].reserved = inv[i].reserved + q
      BY <1>1 DEF Typed, TypeOK, InventoryRow
    <3>4. QED
      BY <2>2, <3>1, <3>2, <3>3
  <2>3. CASE j # i
    <3>1. {k \in {1} : place[k] = j} = {}
      BY <1>0, <2>3
    <3>2. inv'[j].reserved = inv[j].reserved
      BY <1>1, <2>3 DEF Typed, TypeOK
    <3>3. Total({k \in {1} : place[k] = j}, f) = 0
      BY <3>1, TotalEmpty, Zenon
    <3>4. QED
      BY <2>1, <3>2, <3>3
  <2>4. QED
    BY <2>2, <2>3
<1>7. res' = Inserted(rows)
  BY <1>0, <1>1
<1>8. Adds(s, DOMAIN new)
  BY <1>4, <1>5, <1>6, <1>7, Adding
<1>9. QED
  BY <1>8

\* The units of an order's transfer that are reserved again at a store.
LEMMA AnchoredAdds ==
    ASSUME Typed, ReservationsNumbered, NEW s \in Slots, NEW t \in XferIds, NEW place, NEW f,
           \A k \in Items(t) : f[k] \in Nat,
           NEW new \in NewReservations(Reserving(t, f)),
           res' = Inserted(Anchored(t, place, f, new)),
           \A i \in Inventories :
              inv'[i].reserved = inv[i].reserved + IF ForOrder(t) THEN PerInventory(t, place, f)[i] ELSE 0,
           Careless \intersect Endpoints # {}, Reserving(t, f) # {} => Unlocked(xfer[t].ord, s)
    PROVE  \E ids : Adds(s, ids)
<1>1. PICK S, rows, o : S = Reserving(t, f) /\ rows = Anchored(t, place, f, new) /\ o = xfer[t].ord
  OBVIOUS
<1>2. S \subseteq Items(t) /\ S \subseteq Nat /\ S \subseteq ItemKeys
  BY <1>1, ErpAssumption DEF Reserving, Items, ItemKeys
<1>3. Summed(S, f) /\ Summed(Items(t), f)
  <2>1. Items(t) \subseteq ItemKeys /\ \A k \in Items(t) : f[k] \in Int
    BY DEF Items
  <2>2. QED
    BY <1>2, <2>1, ItemsAreFinite DEF Summed
<1>4. ASSUME NEW r \in DOMAIN new
      PROVE  /\ rows[r].status = "ACTIVE" /\ rows[r].ord = o
             /\ rows[r].inv = place[new[r]] /\ rows[r].qty = f[new[r]]
  <2>1. rows[r] = Reservation(xfer[t].ord, xfer[t].items[new[r]].line, place[new[r]], f[new[r]])
    BY <1>1 DEF Anchored
  <2>2. QED
    BY <1>1, <2>1, ReservationFields
<1>5. MadeOf(rows, new, S, place, f) /\ res' = Inserted(rows)
  <2>1. DOMAIN rows = DOMAIN new
    BY <1>1 DEF Anchored
  <2>2. QED
    BY <1>1, <1>2, <1>3, <1>4, <2>1 DEF MadeOf
<1>6. S # {} => NewFor(s, o)
  BY <1>1 DEF NewFor, Late
<1>7. ASSUME NEW i \in Inventories
      PROVE  inv'[i].reserved = inv[i].reserved + Total({k \in S : place[k] = i}, f)
  <2>1. PICK A, B : A = {k \in Items(t) : place[k] = i} /\ B = {k \in S : place[k] = i}
    OBVIOUS
  <2>2. CASE ForOrder(t)
    <3>1. Summed(A, f)
      BY <1>3, <2>1, TotalPart
    <3>2. B \subseteq A
      BY <1>2, <2>1
    <3>3. ASSUME NEW k \in A \ B PROVE f[k] <= 0
      <4>1. k \in Items(t) /\ k \notin S /\ f[k] \in Nat
        BY <2>1, <3>3
      <4>2. ~(f[k] > 0)
        BY <1>1, <2>2, <4>1 DEF Reserving
      <4>3. QED
        BY <4>1, <4>2
    <3>4. Total(A, f) = Total(B, f)
      BY <3>1, <3>2, <3>3, TotalPositive
    <3>5. PerInventory(t, place, f)[i] = Total(A, f)
      BY <2>1 DEF PerInventory
    <3>6. QED
      BY <2>1, <2>2, <3>4, <3>5
  <2>3. CASE ~ForOrder(t)
    <3>1. B = {}
      BY <1>1, <2>1, <2>3 DEF Reserving
    <3>2. Total(B, f) = 0
      BY <3>1, TotalEmpty, Zenon
    <3>3. QED
      BY <2>1, <2>3, <3>2
  <2>4. QED
    BY <2>2, <2>3
<1>8. Adds(s, DOMAIN new)
  BY <1>4, <1>5, <1>6, <1>7, Adding
<1>9. QED
  BY <1>8

LEMMA ReceiveAdds ==
    ASSUME Typed, ReservationsNumbered, NEW s \in Slots, NEW t \in XferIds,
           ReceiveStockTransfer(s, t)
    PROVE  \E ids : Adds(s, ids)
<1>1. PICK rec \in [Items(t) -> 0..MaxQty] :
         /\ ForOrder(t) /\ Reserving(t, rec) # {} => Unlocked(xfer[t].ord, s)
         /\ inv' = Booked(PerInventory(t, Destination(t), rec),
                          IF ForOrder(t) THEN PerInventory(t, Destination(t), rec) ELSE Nothing)
         /\ \E new \in NewReservations(Reserving(t, rec)) :
              res' = Inserted(Anchored(t, Destination(t), rec, new))
  BY DEF ReceiveStockTransfer
<1>2. PICK new \in NewReservations(Reserving(t, rec)) :
         res' = Inserted(Anchored(t, Destination(t), rec, new))
  BY <1>1
<1>3. "receive" \in Endpoints
  BY DEF ReceiveStockTransfer, Starts
<1>4. \A k \in Items(t) : rec[k] \in Nat
  BY ErpAssumption
<1>5. ASSUME NEW i \in Inventories
      PROVE  inv'[i].reserved = inv[i].reserved
                + IF ForOrder(t) THEN PerInventory(t, Destination(t), rec)[i] ELSE 0
  BY <1>1, BookedRows, NothingType
<1>6. Reserving(t, rec) # {} => ForOrder(t)
  BY DEF Reserving
<1>7. QED
  BY <1>1, <1>2, <1>3, <1>4, <1>5, <1>6, AnchoredAdds DEF Careless

LEMMA CancelTransferAdds ==
    ASSUME Typed, ReservationsNumbered, NEW s \in Slots, NEW t \in XferIds,
           CancelStockTransfer(s, t)
    PROVE  UNCHANGED <<inv, res>> \/ \E ids : Adds(s, ids)
<1>1. CASE UNCHANGED <<inv, res>>
  BY <1>1
<1>2. CASE /\ Reserving(t, Asked(t)) # {} => Unlocked(xfer[t].ord, s)
           /\ inv' = Booked(PerInventory(t, Origin(t), Asked(t)),
                            IF ForOrder(t) THEN PerInventory(t, Origin(t), Asked(t)) ELSE Nothing)
           /\ \E new \in NewReservations(Reserving(t, Asked(t))) :
                res' = Inserted(Anchored(t, Origin(t), Asked(t), new))
  <2>1. PICK new \in NewReservations(Reserving(t, Asked(t))) :
           res' = Inserted(Anchored(t, Origin(t), Asked(t), new))
    BY <1>2
  <2>2. "cancelTransfer" \in Endpoints
    BY DEF CancelStockTransfer, Starts
  <2>3. \A k \in Items(t) : Asked(t)[k] \in Nat
    BY TransferType
  <2>4. ASSUME NEW i \in Inventories
        PROVE  inv'[i].reserved = inv[i].reserved
                  + IF ForOrder(t) THEN PerInventory(t, Origin(t), Asked(t))[i] ELSE 0
    BY <1>2, BookedRows, NothingType
  <2>5. QED
    BY <1>2, <2>1, <2>2, <2>3, <2>4, AnchoredAdds DEF Careless
<1>3. QED
  BY <1>1, <1>2 DEF CancelStockTransfer

-----------------------------------------------------------------------------
(* The items of an order's transfer are keyed by reservations.               *)

OrderItems == \A t \in XferIds : ForOrder(t) => Items(t) \subseteq ResIds

LEMMA TransfersWritten ==
    ASSUME [Next]_vars
    PROVE  \/ UNCHANGED xfer
           \/ \E s \in Slots : CreateStockTransfer(s)
           \/ \E table, o, source : EnsureRemoteTransfers(table, o, source)
           \/ \E s \in Slots, t \in XferIds : \/ DispatchStockTransfer(s, t)
                                              \/ ReceiveStockTransfer(s, t)
                                              \/ CancelStockTransfer(s, t)
<1>1. CASE WarehouseNext
  BY <1>1 DEF WarehouseNext, CreateMovement, CreateReservation, ReconcileReservedStock
<1>2. ASSUME NEW s \in Slots, DeskNext(s) \/ CreateOrderReview(s)
      PROVE  UNCHANGED xfer \/ \E table, o, source : EnsureRemoteTransfers(table, o, source)
  <2>1. ASSUME NEW o \in Orders, CreateOrder(s, o)
        PROVE  UNCHANGED xfer \/ \E source : EnsureRemoteTransfers(res', o, source)
    <3>1. PICK channel \in {"POS", "INTERNAL"}, source \in Stores,
               L \in (SUBSET {l \in Lines : LineOrder[l] = o}) \ {{}} :
            \E q \in [L -> 1..MaxQty], store \in [L -> Stores], chosen \in Stores \union {Null} :
              PlaceOrder(o, channel, source, L, q, store, chosen)
      BY <2>1 DEF CreateOrder
    <3>2. QED
      BY <3>1 DEF PlaceOrder
  <2>2. QED
    BY <1>2, <2>1 DEF DeskNext, CreateMarketplaceOrder, CreateOrderReview
<1>3. ASSUME NEW s \in Slots, StatusNext(s)
      PROVE  UNCHANGED xfer \/ \E table, o, source : EnsureRemoteTransfers(table, o, source)
  BY <1>3 DEF StatusNext, UpdateStatusRead, UpdateStatusLock, ConfirmOrder, CancelOrder,
     CompleteReturn, DeliverOrder, MoveOrder, tables
<1>4. ASSUME NEW s \in Slots, LineNext(s) PROVE UNCHANGED xfer
  BY <1>4 DEF LineNext, ReserveRead, ReleaseRead, ShortageRead, ReserveWrite, ReleaseWrite,
     ShortageWrite, RegisterOrderReturn, tables
<1>5. ASSUME NEW s \in Slots, PickingNext(s) PROVE UNCHANGED xfer
  BY <1>5 DEF PickingNext, StartPickingRead, PickAllRead, CompletePickingRead, PickLineRead,
     StartPickingSession, StartPickingStatus, PickWrite, SyncRead, SyncWrite, CompletePickingWrite,
     FinishPickingTask, CountOpenPickingTasks, TaskRead, CompletePacking, tables
<1>6. ASSUME NEW s \in Slots, Abort(s) PROVE UNCHANGED xfer
  BY <1>6 DEF Abort, tables
<1>7. CASE UNCHANGED vars
  BY <1>7 DEF vars
<1>8. QED
  BY <1>1, <1>2, <1>3, <1>4, <1>5, <1>6, <1>7 DEF Next

\* A step on one transfer that keeps what was asked and for whom.
AskedStays(t, row) ==
    /\ xfer' = [xfer EXCEPT ![t] = row]
    /\ row.ord = xfer[t].ord
    /\ \A k \in ItemKeys : row.items[k].qty = xfer[t].items[k].qty

LEMMA SameItems ==
    ASSUME Typed, OrderItems, NEW t \in XferIds, NEW row, AskedStays(t, row)
    PROVE  OrderItems'
<1>1. ASSUME NEW u \in XferIds PROVE ForOrder(u)' => Items(u)' \subseteq ResIds
  <2>1. \/ xfer'[u] = xfer[u]
        \/ u = t /\ xfer'[u] = row
    BY DEF Typed, TypeOK, AskedStays
  <2>2. xfer'[u].ord = xfer[u].ord /\ \A k \in ItemKeys : xfer'[u].items[k].qty = xfer[u].items[k].qty
    BY <2>1 DEF AskedStays
  <2>3. QED
    BY <2>2 DEF OrderItems, ForOrder, Items
<1>2. QED
  BY <1>1 DEF OrderItems

LEMMA OrderItemsKept ==
    ASSUME Typed, OrderItems, [Next]_vars PROVE OrderItems'
<1>1. CASE UNCHANGED xfer
  BY <1>1 DEF OrderItems, ForOrder, Items
<1>2. ASSUME NEW s \in Slots, CreateStockTransfer(s) PROVE OrderItems'
  <2>1. PICK row : row.ord = Null /\ xfer' = [xfer EXCEPT ![UsedXfer + 1] = row]
    BY <1>2 DEF CreateStockTransfer
  <2>2. ASSUME NEW u \in XferIds PROVE ForOrder(u)' => Items(u)' \subseteq ResIds
    <3>1. xfer'[u] = xfer[u] \/ xfer'[u].ord = Null
      BY <2>1 DEF Typed, TypeOK
    <3>2. QED
      BY <3>1 DEF OrderItems, ForOrder, Items
  <2>3. QED
    BY <2>2 DEF OrderItems
<1>3. ASSUME NEW table, NEW o, NEW source, EnsureRemoteTransfers(table, o, source) PROVE OrderItems'
  <2> DEFINE held(store) == RemoteReservations(table, o, store)
             items(store) == [r \in ItemKeys |->
                                IF r \in held(store)
                                THEN Item(table[r].line, table[r].inv[2], table[r].qty)
                                ELSE NoItem]
             row(store) == [status |-> "PENDING", from |-> store, to |-> source, ord |-> o,
                            items |-> items(store)]
  <2>1. PICK new \in [UsedXfer + 1 .. UsedXfer + Cardinality(RemoteStores(table, o, source))
                        -> RemoteStores(table, o, source)] :
           xfer' = [t \in XferIds |-> IF t \in DOMAIN new THEN row(new[t]) ELSE xfer[t]]
    BY <1>3 DEF EnsureRemoteTransfers
  <2>2. ASSUME NEW store, NEW k \in ItemKeys, row(store).items[k].qty > 0 PROVE k \in ResIds
    <3>1. NoItem.qty = 0
      BY DEF NoItem, Item
    <3>2. k \in held(store)
      BY <2>2, <3>1
    <3>3. QED
      BY <3>2 DEF RemoteReservations
  <2> HIDE DEF row
  <2>3. ASSUME NEW u \in XferIds PROVE ForOrder(u)' => Items(u)' \subseteq ResIds
    <3>1. xfer'[u] = xfer[u] \/ \E store : xfer'[u] = row(store)
      BY <2>1
    <3>2. QED
      BY <2>2, <3>1 DEF OrderItems, ForOrder, Items
  <2>4. QED
    BY <2>3 DEF OrderItems
<1>4. ASSUME NEW s \in Slots, NEW t \in XferIds, DispatchStockTransfer(s, t) PROVE OrderItems'
  <2> DEFINE items == [k \in ItemKeys |-> [xfer[t].items[k] EXCEPT !.disp = xfer[t].items[k].qty]]
             row == [xfer[t] EXCEPT !.status = "IN_TRANSIT", !.items = items]
  <2>1. xfer' = [xfer EXCEPT ![t] = row]
    BY <1>4 DEF DispatchStockTransfer
  <2>2. \A k \in ItemKeys : items[k].qty = xfer[t].items[k].qty
    BY TransferType, ItemRows
  <2> HIDE DEF items
  <2>3. row.ord = xfer[t].ord /\ row.items = items
    BY TransferType DEF TransferRow
  <2> HIDE DEF row
  <2>4. AskedStays(t, row)
    BY <2>1, <2>2, <2>3 DEF AskedStays
  <2>5. QED
    BY <2>4, SameItems
<1>5. ASSUME NEW s \in Slots, NEW t \in XferIds, ReceiveStockTransfer(s, t) PROVE OrderItems'
  <2>1. PICK rec \in [Items(t) -> 0..MaxQty], disc \in [Items(t) -> 0..MaxQty] :
           LET items == [k \in ItemKeys |->
                           IF k \in Items(t)
                           THEN [xfer[t].items[k] EXCEPT !.rec = xfer[t].items[k].rec + rec[k],
                                                         !.disc = xfer[t].items[k].disc + disc[k]]
                           ELSE NoItem]
               complete == \A k \in Items(t) : Left(items[k]) = 0
           IN  xfer' = [xfer EXCEPT
                          ![t].status = IF complete THEN "RECEIVED" ELSE "PARTIALLY_RECEIVED",
                          ![t].items = items]
    BY <1>5 DEF ReceiveStockTransfer
  <2> DEFINE items == [k \in ItemKeys |->
                         IF k \in Items(t)
                         THEN [xfer[t].items[k] EXCEPT !.rec = xfer[t].items[k].rec + rec[k],
                                                       !.disc = xfer[t].items[k].disc + disc[k]]
                         ELSE NoItem]
             complete == \A k \in Items(t) : Left(items[k]) = 0
             status == IF complete THEN "RECEIVED" ELSE "PARTIALLY_RECEIVED"
             moved == [xfer[t] EXCEPT !.status = status]
             row == [moved EXCEPT !.items = items]
  <2>2. xfer' = [xfer EXCEPT ![t] = row]
    <3>1. xfer' = [xfer EXCEPT ![t].status = status, ![t].items = items]
      BY <2>1
    <3> HIDE DEF items, status
    <3>2. QED
      BY <3>1 DEF Typed, TypeOK
  <2>3. ASSUME NEW k \in ItemKeys PROVE items[k].qty = xfer[t].items[k].qty
    <3>1. xfer[t].items[k] \in ItemRow /\ xfer[t].items[k].qty \in Nat
      BY TransferType
    <3>2. CASE k \in Items(t)
      BY <3>1, <3>2 DEF ItemRow
    <3>3. CASE k \notin Items(t)
      <4>1. xfer[t].items[k].qty = 0
        BY <3>1, <3>3 DEF Items
      <4>2. QED
        BY <3>3, <4>1 DEF NoItem, Item
    <3>4. QED
      BY <3>2, <3>3
  <2> HIDE DEF items, status
  <2>4. row.ord = xfer[t].ord /\ row.items = items
    BY TransferType DEF TransferRow
  <2> HIDE DEF row
  <2>5. \A k \in ItemKeys : row.items[k].qty = xfer[t].items[k].qty
    BY <2>3, <2>4
  <2>6. AskedStays(t, row)
    BY <2>2, <2>4, <2>5 DEF AskedStays
  <2>7. QED
    BY <2>6, SameItems
<1>6. ASSUME NEW s \in Slots, NEW t \in XferIds, CancelStockTransfer(s, t) PROVE OrderItems'
  <2> DEFINE row == [xfer[t] EXCEPT !.status = "CANCELLED"]
  <2>1. xfer' = [xfer EXCEPT ![t] = row]
    BY <1>6 DEF CancelStockTransfer
  <2>2. row.ord = xfer[t].ord /\ row.items = xfer[t].items
    BY TransferType DEF TransferRow
  <2> HIDE DEF row
  <2>3. AskedStays(t, row)
    BY <2>1, <2>2 DEF AskedStays
  <2>4. QED
    BY <2>3, SameItems
<1>7. QED
  BY <1>1, <1>2, <1>3, <1>4, <1>5, <1>6, TransfersWritten

\* A transfer of an order consumes the reservations it was created for.
LEMMA DispatchEnds ==
    ASSUME Typed, OrderItems, NEW s \in Slots, NEW t \in XferIds, DispatchStockTransfer(s, t)
    PROVE  Kept \/ \E G : Ends(G)
<1> DEFINE out == PerInventory(t, Origin(t), Asked(t))
<1>1. /\ \A k \in Items(t) : ItemReady(t, k)
      /\ inv' = Booked(Minus(out), IF ForOrder(t) THEN Minus(out) ELSE Nothing)
      /\ res' = [r \in ResIds |->
                 IF ForOrder(t) /\ r \in Items(t) THEN [res[r] EXCEPT !.status = "COMPLETED"] ELSE res[r]]
  BY DEF DispatchStockTransfer
<1>2. CASE ~ForOrder(t)
  <2>1. res' = [r \in ResIds |-> res[r]]
    BY <1>1, <1>2
  <2>2. res' = res
    BY <2>1 DEF Typed, TypeOK
  <2>3. ASSUME NEW i \in Inventories PROVE inv'[i].reserved = inv[i].reserved
    BY <1>1, <1>2, BookedRows, NothingType, InventoryInts
  <2>4. QED
    BY <2>2, <2>3 DEF Kept
<1>3. CASE ForOrder(t)
  <2>1. PICK G : G = Items(t)
    OBVIOUS
  <2>2. G \subseteq ResIds
    BY <1>3, <2>1 DEF OrderItems
  <2>3. ASSUME NEW r \in G
        PROVE  /\ res[r].status = "ACTIVE" /\ Quantities[r] = res[r].qty /\ res[r].qty \in Nat
               /\ res[r].inv = Origin(t)[r] /\ res[r].qty = Asked(t)[r]
               /\ res'[r].status = "COMPLETED" /\ res'[r].inv = res[r].inv
               /\ res'[r].ord = res[r].ord /\ res'[r].qty = res[r].qty
    <3>1. ItemReady(t, r) /\ r \in ResIds
      BY <1>1, <2>1, <2>2
    <3>2. Quantities[r] = res[r].qty /\ res[r].qty \in Nat /\ res[r] \in ReservationRow
      BY <3>1, Quantity
    <3>3. res[r].status = "ACTIVE" /\ res[r].inv = Origin(t)[r] /\ res[r].qty = Asked(t)[r]
      BY <1>3, <2>1, <3>1 DEF ItemReady, Asked
    <3>4. res'[r] = [res[r] EXCEPT !.status = "COMPLETED"]
      BY <1>1, <1>3, <2>1, <3>1
    <3>5. QED
      BY <3>2, <3>3, <3>4 DEF ReservationRow
  <2>4. \A r \in ResIds \ G : res'[r] = res[r]
    BY <1>1, <2>1
  <2>5. Shrunk(G, Quantities) /\ \A r \in G : res'[r].status # "ACTIVE"
    <3>1. \A r \in G : Quantities[r] \in 0..res[r].qty
      BY <2>3
    <3>2. QED
      BY <2>2, <2>3, <2>4, <3>1 DEF Shrunk
  <2>6. ASSUME NEW i \in Inventories
        PROVE  inv'[i].reserved = inv[i].reserved - Counted(G, i)
    <3>1. PICK A, B : A = {r \in G : res[r].inv = i} /\ B = {k \in Items(t) : Origin(t)[k] = i}
      OBVIOUS
    <3>2. A = B
      BY <2>1, <2>3, <3>1
    <3>3. \A r \in A : Quantities[r] = Asked(t)[r]
      BY <2>3, <3>1
    <3>4. Total(A, Quantities) = Total(A, Asked(t))
      BY <3>3, TotalSame
    <3>5. Counted(G, i) = out[i] /\ out[i] \in Nat
      <4>1. out[i] = Total(B, Asked(t))
        BY <3>1 DEF PerInventory
      <4>2. Summed(B, Asked(t))
        <5>1. B \subseteq ItemKeys /\ \A k \in B : Asked(t)[k] \in Int
          BY <3>1, TransferType
        <5>2. QED
          BY <5>1, ItemsAreFinite DEF Summed
      <4>3. QED
        BY <3>1, <3>2, <3>4, <4>1, <4>2, TotalNat DEF Counted
    <3>6. inv'[i].reserved = inv[i].reserved + Minus(out)[i] /\ Minus(out)[i] = -out[i]
      <4> HIDE DEF out
      <4>1. QED
        BY <1>1, <1>3, BookedRows DEF Minus
    <3>7. QED
      BY <3>5, <3>6, InventoryInts
  <2>7. QED
    BY <2>5, <2>6 DEF Ends
<1>4. QED
  BY <1>2, <1>3

-----------------------------------------------------------------------------
(* The reservations of the lines.                                             *)

LEMMA ReserveWriteAdds ==
    ASSUME Typed, ReservationsNumbered, NEW s \in Slots, ReserveWrite(s)
    PROVE  \E ids : Adds(s, ids)
<1>1. PICK l, o, i : l = req[s].line /\ o = LineOrder[l] /\ i = <<req[s].store, LineVariant[l]>>
  OBVIOUS
<1>2. PICK take : take = IF req[s].partial THEN Least(req[s].qty, Available(i)) ELSE req[s].qty
  OBVIOUS
<1>3. /\ take > 0 /\ Unlocked(o, s) /\ req[s].op = "reserve"
      /\ inv' = [inv EXCEPT ![i].reserved = inv[i].reserved + take]
      /\ \E new \in NewReservations({l}) :
           res' = Inserted([r \in DOMAIN new |-> Reservation(o, l, i, take)])
      /\ ord' = [ord EXCEPT ![o].fulfil = req[s].store] \/ ord' = ord
  BY <1>1, <1>2 DEF ReserveWrite, At
<1>4. l \in Lines /\ req[s].store \in Stores /\ req[s].qty \in Nat /\ o \in Orders
  BY <1>1, <1>3, RequestType, LineType DEF RequestOK
<1>5. i \in Inventories
  BY <1>1, <1>4, LineType
<1>6. take \in Nat
  BY <1>2, <1>3, <1>4, <1>5, InventoryType DEF Least
<1>7. PICK new \in NewReservations({l}) :
         res' = Inserted([r \in DOMAIN new |-> Reservation(o, l, i, take)])
  BY <1>3
<1>8. PICK rows, place, f : /\ rows = [r \in DOMAIN new |-> Reservation(o, l, i, take)]
                            /\ place = [k \in {l} |-> i] /\ f = [k \in {l} |-> take]
  OBVIOUS
<1>9. {l} \subseteq Nat /\ Summed({l}, f) /\ place[l] = i /\ f[l] = take
  <2>1. IsFiniteSet({l})
    BY FS_Singleton
  <2>2. QED
    BY <1>4, <1>6, <1>8, <2>1, ErpAssumption DEF Summed
<1>10. MadeOf(rows, new, {l}, place, f) /\ \A r \in DOMAIN new : rows[r].ord = o
  <2>1. ASSUME NEW r \in DOMAIN new
        PROVE  /\ rows[r].status = "ACTIVE" /\ rows[r].ord = o
               /\ rows[r].inv = place[new[r]] /\ rows[r].qty = f[new[r]]
    <3>1. new[r] = l
      BY NewReservationsType
    <3>2. rows[r] = Reservation(o, l, i, take)
      BY <1>8
    <3>3. QED
      BY <1>9, <3>1, <3>2, ReservationFields
  <2>2. DOMAIN rows = DOMAIN new
    BY <1>8
  <2>3. QED
    BY <1>9, <2>1, <2>2 DEF MadeOf
<1>11. NewFor(s, o)
  <2>1. ord'[o].status = ord[o].status
    BY <1>3, <1>4 DEF Typed, TypeOK, OrderRow
  <2>2. QED
    BY <1>1, <1>3, <2>1 DEF NewFor, Late
<1>12. ASSUME NEW j \in Inventories
       PROVE  inv'[j].reserved = inv[j].reserved + Total({k \in {l} : place[k] = j}, f)
  <2>1. inv[j].reserved \in Nat /\ inv[i].reserved \in Nat
    BY <1>5, InventoryInts
  <2>2. CASE j = i
    <3>1. {k \in {l} : place[k] = j} = {l}
      BY <1>9, <2>2
    <3>2. Total({l}, f) = take
      BY <1>6, <1>9, TotalOne
    <3>3. inv'[i].reserved = inv[i].reserved + take
      BY <1>3, <1>5 DEF Typed, TypeOK, InventoryRow
    <3>4. QED
      BY <2>2, <3>1, <3>2, <3>3
  <2>3. CASE j # i
    <3>1. {k \in {l} : place[k] = j} = {}
      BY <1>9, <2>3
    <3>2. inv'[j].reserved = inv[j].reserved
      BY <1>3, <2>3 DEF Typed, TypeOK
    <3>3. Total({k \in {l} : place[k] = j}, f) = 0
      BY <3>1, TotalEmpty, Zenon
    <3>4. QED
      BY <2>1, <3>2, <3>3
  <2>4. QED
    BY <2>2, <2>3
<1>13. Adds(s, DOMAIN new)
  BY <1>7, <1>8, <1>10, <1>11, <1>12, Adding
<1>14. QED
  BY <1>13

LEMMA CreateOrderAdds ==
    ASSUME Typed, ReservationsNumbered, NEW s \in Slots, NEW o \in Orders, CreateOrder(s, o)
    PROVE  \E ids : Adds(s, ids)
<1>1. PICK channel \in {"POS", "INTERNAL"}, source \in Stores,
           L \in (SUBSET {l \in Lines : LineOrder[l] = o}) \ {{}} :
        \E q \in [L -> 1..MaxQty], store \in [L -> Stores], chosen \in Stores \union {Null} :
            PlaceOrder(o, channel, source, L, q, store, chosen)
  BY DEF CreateOrder
<1>2. PICK q \in [L -> 1..MaxQty], store \in [L -> Stores], chosen \in Stores \union {Null} :
            PlaceOrder(o, channel, source, L, q, store, chosen)
  BY <1>1
<1> DEFINE direct == channel = "POS" /\ {store[l] : l \in L} = {source}
           at == [l \in L |-> <<store[l], LineVariant[l]>>]
           asked == PerLine(L, at, q)
<1>3. asked = PerLine(L, at, q)
  OBVIOUS
<1>4. /\ inv' = IF direct THEN Booked(Minus(asked), Nothing) ELSE Booked(Nothing, asked)
      /\ \E new \in NewReservations(IF direct THEN {} ELSE L) :
           res' = Inserted([r \in DOMAIN new |-> Reservation(o, new[r], at[new[r]], q[new[r]])])
  BY <1>2 DEF PlaceOrder
<1>5. ~direct => ord'[o].status \in {"WAITING_TRANSFER", "PENDING"}
  <2>1. \E status \in {"DELIVERED", "WAITING_TRANSFER", "PENDING"} : \E row :
          /\ ord' = [ord EXCEPT ![o] = [NoOrder EXCEPT !.status = status, !.channel = channel,
                                                      !.source = source, !.fulfil = row]]
          /\ ~direct => status # "DELIVERED"
    BY <1>2 DEF PlaceOrder
  <2>2. QED
    BY <2>1 DEF Typed, TypeOK, NoOrder
<1> HIDE DEF direct, at, asked
<1>6. PICK S : S = IF direct THEN {} ELSE L
  OBVIOUS
<1>7. PICK new \in NewReservations(S) :
         res' = Inserted([r \in DOMAIN new |-> Reservation(o, new[r], at[new[r]], q[new[r]])])
  BY <1>4, <1>6
<1>8. PICK rows : rows = [r \in DOMAIN new |-> Reservation(o, new[r], at[new[r]], q[new[r]])]
  OBVIOUS
<1>9. L \subseteq Lines /\ \A l \in L : q[l] \in Nat
  BY LineUnits
<1>10. S \subseteq Nat /\ Summed(S, q)
  <2>1. S \subseteq Lines /\ \A l \in S : q[l] \in Int
    BY <1>6, <1>9
  <2>2. QED
    BY <2>1, LinesAreFinite, ErpAssumption DEF Summed
<1>11. MadeOf(rows, new, S, at, q) /\ \A r \in DOMAIN new : rows[r].ord = o
  <2>1. ASSUME NEW r \in DOMAIN new
        PROVE  /\ rows[r].status = "ACTIVE" /\ rows[r].ord = o
               /\ rows[r].inv = at[new[r]] /\ rows[r].qty = q[new[r]]
    BY <1>8, ReservationFields
  <2>2. DOMAIN rows = DOMAIN new
    BY <1>8
  <2>3. QED
    BY <1>7, <1>10, <2>1, <2>2 DEF MadeOf
<1>12. S # {} => NewFor(s, o)
  <2>1. ~Placed(o)
    BY DEF CreateOrder
  <2>2. S # {} => ord'[o].status \notin Closed \union {"ABSENT"}
    BY <1>5, <1>6 DEF Closed
  <2>3. QED
    BY <2>1, <2>2 DEF NewFor
<1>13. ASSUME NEW i \in Inventories
       PROVE  inv'[i].reserved = inv[i].reserved + Total({k \in S : at[k] = i}, q)
  <2>1. inv[i].reserved \in Nat
    BY InventoryInts
  <2>2. CASE direct
    <3>1. {k \in S : at[k] = i} = {}
      BY <1>6, <2>2
    <3>2. Total({k \in S : at[k] = i}, q) = 0
      BY <3>1, TotalEmpty, Zenon
    <3>3. inv' = Booked(Minus(asked), Nothing)
      BY <1>4, <2>2
    <3>4. inv'[i].reserved = inv[i].reserved + 0
      BY <3>3, BookedRows, NothingType
    <3>5. QED
      BY <2>1, <3>2, <3>4
  <2>3. CASE ~direct
    <3>1. inv' = Booked(Nothing, asked)
      BY <1>4, <2>3
    <3>2. asked[i] = Total({k \in S : at[k] = i}, q)
      BY <1>3, <1>6, <2>3 DEF PerLine
    <3>3. QED
      BY <3>1, <3>2, BookedRows
  <2>4. QED
    BY <2>2, <2>3
<1>14. Adds(s, DOMAIN new)
  BY <1>7, <1>8, <1>11, <1>12, <1>13, Adding
<1>15. QED
  BY <1>14

LEMMA CheckoutAdds ==
    ASSUME Typed, ReservationsNumbered, NEW s \in Slots, NEW o \in Orders,
           CreateMarketplaceOrder(s, o)
    PROVE  \E ids : Adds(s, ids)
<1>1. PICK source \in Stores, L \in (SUBSET {l \in Lines : LineOrder[l] = o}) \ {{}},
           auto \in BOOLEAN :
        \E q \in [L -> 1..MaxQty] : PlaceMarketplaceOrder(o, source, L, q, auto)
  BY DEF CreateMarketplaceOrder
<1>2. PICK q \in [L -> 1..MaxQty] : PlaceMarketplaceOrder(o, source, L, q, auto)
  BY <1>1
<1> DEFINE at == [l \in L |-> <<source, LineVariant[l]>>]
           before(l) == Total({m \in L : m < l /\ LineVariant[m] = LineVariant[l]}, q)
           got == [l \in L |-> IF auto
                               THEN Least(q[l], Greatest(0, Available(at[l]) - before(l)))
                               ELSE 0]
           S == {l \in L : got[l] > 0}
<1>3. /\ inv' = Booked(Nothing, PerLine(L, at, got))
      /\ \E new \in NewReservations(S) :
           res' = Inserted([r \in DOMAIN new |-> Reservation(o, Null, at[new[r]], got[new[r]])])
  BY <1>2 DEF PlaceMarketplaceOrder
<1>4. L \subseteq Lines /\ \A l \in L : q[l] \in Nat /\ q[l] \in Int /\ at[l] \in Inventories
  <2>1. L \subseteq Lines /\ \A l \in L : q[l] \in Nat /\ q[l] \in Int
    BY LineUnits
  <2>2. QED
    BY <2>1, LineType
<1>5. ASSUME NEW l \in L PROVE got[l] \in Nat
  <2>1. before(l) \in Nat
    <3>1. IsFiniteSet({m \in L : m < l /\ LineVariant[m] = LineVariant[l]})
      BY <1>4, LinesAreFinite
    <3>2. QED
      BY <1>4, <3>1, TotalIsNat
  <2>2. Available(at[l]) \in Int
    BY <1>4, InventoryType
  <2>3. got[l] = IF auto THEN Least(q[l], Greatest(0, Available(at[l]) - before(l))) ELSE 0
    OBVIOUS
  <2> HIDE DEF before, at, got
  <2>4. QED
    BY <1>4, <2>1, <2>2, <2>3 DEF Least, Greatest
<1> HIDE DEF at, got
<1>6. S = {l \in L : got[l] > 0}
  OBVIOUS
<1> HIDE DEF S
<1>8. PICK new \in NewReservations(S) :
         res' = Inserted([r \in DOMAIN new |-> Reservation(o, Null, at[new[r]], got[new[r]])])
  BY <1>3
<1>9. PICK rows : rows = [r \in DOMAIN new |-> Reservation(o, Null, at[new[r]], got[new[r]])]
  OBVIOUS
<1>10. S \subseteq Nat /\ Summed(S, got) /\ Summed(L, got)
  <2>1. S \subseteq L /\ L \subseteq Lines /\ \A l \in L : got[l] \in Int
    BY <1>4, <1>5, <1>6
  <2>2. IsFiniteSet(L) /\ IsFiniteSet(S)
    BY <2>1, LinesAreFinite
  <2>3. QED
    BY <2>1, <2>2, ErpAssumption DEF Summed
<1>11. MadeOf(rows, new, S, at, got) /\ \A r \in DOMAIN new : rows[r].ord = o
  <2>1. ASSUME NEW r \in DOMAIN new
        PROVE  /\ rows[r].status = "ACTIVE" /\ rows[r].ord = o
               /\ rows[r].inv = at[new[r]] /\ rows[r].qty = got[new[r]]
    BY <1>9, ReservationFields
  <2>2. DOMAIN rows = DOMAIN new
    BY <1>9
  <2>3. QED
    BY <1>8, <1>10, <2>1, <2>2 DEF MadeOf
<1>12. NewFor(s, o)
  <2>1. ~Placed(o)
    BY DEF CreateMarketplaceOrder
  <2>2. ord' = [ord EXCEPT ![o] = [NoOrder EXCEPT !.status = "PENDING", !.channel = "ECOMMERCE",
                                                 !.source = source, !.fulfil = source]]
    BY <1>2 DEF PlaceMarketplaceOrder
  <2>3. ord'[o].status = "PENDING"
    BY <2>2 DEF Typed, TypeOK, NoOrder
  <2>4. QED
    BY <2>1, <2>3 DEF NewFor, Closed
<1>13. ASSUME NEW i \in Inventories
       PROVE  inv'[i].reserved = inv[i].reserved + Total({k \in S : at[k] = i}, got)
  <2>1. PICK A, B : A = {k \in L : at[k] = i} /\ B = {k \in S : at[k] = i}
    OBVIOUS
  <2>2. Summed(A, got)
    BY <1>10, <2>1, TotalPart
  <2>3. B \subseteq A
    BY <1>6, <2>1
  <2>4. ASSUME NEW k \in A \ B PROVE got[k] <= 0
    <3>1. k \in L /\ k \notin S
      BY <2>1, <2>4
    <3>2. QED
      BY <1>5, <1>6, <3>1
  <2>5. Total(A, got) = Total(B, got)
    BY <2>2, <2>3, <2>4, TotalPositive
  <2>6. PerLine(L, at, got)[i] = Total(A, got)
    BY <2>1 DEF PerLine
  <2>7. QED
    BY <1>3, <2>1, <2>5, <2>6, BookedRows
<1>14. Adds(s, DOMAIN new)
  BY <1>8, <1>9, <1>11, <1>12, <1>13, Adding
<1>15. QED
  BY <1>14

-----------------------------------------------------------------------------
(* What a commit ends.                                                        *)

\* The reservations that a request listed under the lock of their order are
\* what they were, though some may have ended.
ListTrue(s) ==
    \A r \in DOMAIN req[s].held :
        r \in ResIds /\ res[r].status # "ABSENT" /\ req[s].held[r] = res[r].qty
ListsTrue == \A s \in Slots : Locked(s) => ListTrue(s)

LEMMA SettledEnds ==
    ASSUME Typed, NEW s \in Slots, Locked(s), ListTrue(s), NEW status \in {"COMPLETED", "RELEASED"},
           res' = Settled(s, status),
           \A i \in Inventories : inv'[i].reserved = inv[i].reserved + Minus(StillOn(s))[i]
    PROVE  Ends(Held(s))
<1>1. PICK G : G = Held(s)
  OBVIOUS
<1>2. G \subseteq ResIds /\ \A r \in G : res[r].status = "ACTIVE" /\ req[s].held[r] = res[r].qty
  BY <1>1 DEF Held, ListTrue
<1>3. \A r \in ResIds : res'[r] = IF r \in G THEN [res[r] EXCEPT !.status = status] ELSE res[r]
  BY <1>1 DEF Settled
<1>4. ASSUME NEW r \in G
      PROVE  /\ Quantities[r] = res[r].qty /\ res[r].qty \in Nat /\ Quantities[r] \in 0..res[r].qty
             /\ res'[r].status = status /\ res'[r].inv = res[r].inv
             /\ res'[r].ord = res[r].ord /\ res'[r].qty = res[r].qty
  <2>1. Quantities[r] = res[r].qty /\ res[r].qty \in Nat /\ res[r] \in ReservationRow
    BY <1>2, Quantity
  <2>2. res'[r] = [res[r] EXCEPT !.status = status]
    BY <1>2, <1>3
  <2>3. QED
    BY <2>1, <2>2 DEF ReservationRow
<1>5. Shrunk(G, Quantities) /\ \A r \in G : res'[r].status # "ACTIVE"
  BY <1>2, <1>3, <1>4 DEF Shrunk
<1>6. ASSUME NEW i \in Inventories PROVE inv'[i].reserved = inv[i].reserved - Counted(G, i)
  <2>1. PICK A, held : A = {r \in G : res[r].inv = i} /\ held = req[s].held
    OBVIOUS
  <2>2. \A r \in A : Quantities[r] = held[r]
    BY <1>2, <1>4, <2>1
  <2>3. Total(A, Quantities) = Total(A, held)
    BY <2>2, TotalSame
  <2>4. StillOn(s)[i] = Total(A, held)
    BY <1>1, <2>1 DEF StillOn
  <2>5. Counted(G, i) = StillOn(s)[i]
    BY <2>1, <2>3, <2>4 DEF Counted
  <2>6. StillOn(s)[i] \in Nat
    BY HeldType DEF Locked
  <2>7. Minus(StillOn(s))[i] = -StillOn(s)[i]
    BY DEF Minus
  <2>8. QED
    BY <2>5, <2>6, <2>7, InventoryInts
<1>7. QED
  BY <1>1, <1>5, <1>6 DEF Ends

LEMMA CommitsBook ==
    ASSUME Typed, ListsTrue, NEW s \in Slots, Commits(s)
    PROVE  Kept \/ Ends(Held(s))
<1>1. Locked(s) /\ ListTrue(s)
  BY DEF Commits, ConfirmOrder, CancelOrder, CompleteReturn, DeliverOrder, MoveOrder, Locked, ListsTrue
<1>2. CASE UNCHANGED <<inv, res>>
  BY <1>2 DEF Kept
<1>3. CASE ReleaseHeld(s)
  <2>1. inv' = Booked(Nothing, Minus(StillOn(s))) /\ res' = Settled(s, "RELEASED")
    BY <1>3 DEF ReleaseHeld
  <2>2. QED
    BY <1>1, <2>1, BookedRows, SettledEnds
<1>4. CASE inv' = Booked(Minus(StillOn(s)), Minus(StillOn(s))) /\ res' = Settled(s, "COMPLETED")
  BY <1>1, <1>4, BookedRows, SettledEnds
<1>5. QED
  BY <1>2, <1>3, <1>4 DEF Commits, ConfirmOrder, CancelOrder, CompleteReturn, DeliverOrder, MoveOrder

-----------------------------------------------------------------------------
(* Every step, by what it does to the reservations.                           *)

LEMMA WarehouseBooks ==
    ASSUME Typed, ReservationsNumbered, OrderItems, NEW s \in Slots,
           \/ \E i \in Inventories : CreateMovement(s, i) \/ CreateReservation(s, i)
           \/ ReconcileReservedStock(s)
           \/ CreateStockTransfer(s)
           \/ \E t \in XferIds : \/ DispatchStockTransfer(s, t)
                                 \/ ReceiveStockTransfer(s, t)
                                 \/ CancelStockTransfer(s, t)
    PROVE  Booking(s)
<1>1. ASSUME NEW i \in Inventories, CreateMovement(s, i) PROVE Kept
  <2>1. PICK n : inv' = [inv EXCEPT ![i].stock = n]
    BY <1>1 DEF CreateMovement
  <2>2. \A j \in Inventories : inv'[j].reserved = inv[j].reserved
    BY <2>1 DEF Typed, TypeOK, InventoryRow
  <2>3. QED
    BY <1>1, <2>2 DEF Kept, CreateMovement
<1>2. CASE ReconcileReservedStock(s)
  <2>1. PICK S : inv' = [i \in Inventories |->
                   IF i \in S THEN [inv[i] EXCEPT !.reserved = Total(ActiveOn(i), Quantities)]
                   ELSE inv[i]]
    BY <1>2 DEF ReconcileReservedStock
  <2>2. ASSUME NEW i \in Inventories
        PROVE  inv'[i].reserved \in {inv[i].reserved, Total(ActiveOn(i), Quantities)}
    <3>1. inv[i] \in InventoryRow
      BY InventoryType
    <3>2. inv'[i] = [inv[i] EXCEPT !.reserved = Total(ActiveOn(i), Quantities)] \/ inv'[i] = inv[i]
      BY <2>1
    <3>3. QED
      BY <3>1, <3>2 DEF InventoryRow
  <2>3. UNCHANGED res
    BY <1>2 DEF ReconcileReservedStock
  <2>4. QED
    BY <2>2, <2>3 DEF Kept, Booking
<1>3. CASE CreateStockTransfer(s)
  BY <1>3 DEF CreateStockTransfer, Kept, Booking
<1>4. ASSUME NEW t \in XferIds, CancelStockTransfer(s, t) PROVE Booking(s)
  BY <1>4, CancelTransferAdds DEF Kept, Booking
<1>5. QED
  BY <1>1, <1>2, <1>3, <1>4, CreateReservationAdds, ReceiveAdds, DispatchEnds DEF Booking

LEMMA StepsBook ==
    ASSUME Typed, LocksHold, RequestsKnow, ReservationsNumbered, OrderItems, ListsTrue, Next
    PROVE  \E s \in Slots : /\ (Quiet(s) /\ Touches(s)) \/ UpdateStatusLock(s)
                            /\ Booking(s) \/ ReleaseWrite(s)
<1>1. CASE WarehouseNext
  BY <1>1, WarehouseMild, WarehouseBooks DEF WarehouseNext
<1>2. ASSUME NEW s \in Slots, DeskNext(s) \/ CreateOrderReview(s)
      PROVE  Quiet(s) /\ Touches(s) /\ Booking(s)
  <2>1. CreateOrderReview(s) => Kept
    BY DEF CreateOrderReview, Kept
  <2>2. QED
    BY <1>2, <2>1, DeskMild, CreateOrderAdds, CheckoutAdds DEF DeskNext, Booking
<1>3. ASSUME NEW s \in Slots, StatusNext(s)
      PROVE  ((Quiet(s) /\ Touches(s)) \/ UpdateStatusLock(s)) /\ Booking(s)
  <2>1. ASSUME NEW o \in Orders, NEW target \in OrderStatus, UpdateStatusRead(s, o, target)
        PROVE  Quiet(s) /\ Touches(s) /\ Kept
    BY <2>1, StatusReadMild DEF Kept, UpdateStatusRead, tables
  <2>2. UpdateStatusLock(s) => Kept
    BY DEF Kept, UpdateStatusLock, tables
  <2>3. Commits(s) => Quiet(s) /\ Touches(s)
    BY CommitsMild DEF Commits
  <2>4. Commits(s) => Booking(s)
    BY CommitsBook DEF Booking
  <2>5. QED
    BY <1>3, <2>1, <2>2, <2>3, <2>4 DEF StatusNext, Commits, Booking
<1>4. ASSUME NEW s \in Slots, LineNext(s)
      PROVE  Quiet(s) /\ Touches(s) /\ (Booking(s) \/ ReleaseWrite(s))
  <2>1. \/ ReserveWrite(s) \/ ReleaseWrite(s)
        \/ \E o \in Orders : RegisterOrderReturn(s, o)
        \/ Kept
    BY <1>4 DEF LineNext, ReserveRead, ReleaseRead, ShortageRead, ShortageWrite, Kept, tables
  <2>2. ASSUME NEW o \in Orders, RegisterOrderReturn(s, o) PROVE Kept
    <3>1. PICK f : inv' = Booked(f, Nothing) \/ inv' = inv
      BY <2>2 DEF RegisterOrderReturn
    <3>2. \A i \in Inventories : inv'[i].reserved = inv[i].reserved
      BY <3>1, BookedRows, NothingType, InventoryInts
    <3>3. QED
      BY <2>2, <3>2 DEF RegisterOrderReturn, Kept
  <2>3. QED
    BY <1>4, <2>1, <2>2, LinesMild, ReserveWriteAdds DEF Booking
<1>5. ASSUME NEW s \in Slots, PickingNext(s) PROVE Quiet(s) /\ Touches(s) /\ Booking(s)
  <2>1. UNCHANGED <<inv, res>>
    BY <1>5 DEF PickingNext, StartPickingRead, PickAllRead, CompletePickingRead, PickLineRead,
       StartPickingSession, StartPickingStatus, PickWrite, SyncRead, SyncWrite, CompletePickingWrite,
       FinishPickingTask, CountOpenPickingTasks, TaskRead, CompletePacking, tables
  <2>2. QED
    BY <1>5, <2>1, PickingMild DEF Kept, Booking
<1>6. ASSUME NEW s \in Slots, Abort(s) PROVE Quiet(s) /\ Touches(s) /\ Booking(s)
  BY <1>6, Finishes, TouchesByRow DEF Abort, tables, Kept, Booking
<1>7. QED
  BY <1>1, <1>2, <1>3, <1>4, <1>5, <1>6 DEF Next

-----------------------------------------------------------------------------
(* The ledger.                                                               *)

\* A release reads the reservations and writes over them later: it does harm
\* when another request ends one of them in between.
ReleaseApart == Alone \/ "release" \notin Endpoints

LEMMA ReleaseShrinks ==
    ASSUME Typed, NEW s \in Slots, ReleaseWrite(s), Fresh(req[s])
    PROVE  /\ Shrunk(DOMAIN req[s].take, req[s].take)
           /\ \A i \in Inventories :
                inv'[i].reserved = Greatest(0, inv[i].reserved
                    - Total({r \in DOMAIN req[s].take : res[r].inv = i}, req[s].take))
<1>1. PICK take, left : take = req[s].take /\ left = req[s].left
  OBVIOUS
<1>2. /\ req[s].op = "release"
      /\ inv' = [i \in Inventories |->
                   [inv[i] EXCEPT !.reserved = Greatest(0, inv[i].reserved
                                      - Total({r \in DOMAIN take : res[r].inv = i}, take))]]
      /\ res' = [r \in ResIds |->
                   IF r \notin DOMAIN take THEN res[r]
                   ELSE IF left[r] = 0 THEN [res[r] EXCEPT !.status = "RELEASED"]
                   ELSE [res[r] EXCEPT !.qty = left[r]]]
  BY <1>1 DEF ReleaseWrite, At
<1>3. \A r \in DOMAIN take : /\ r \in ResIds /\ res[r].status = "ACTIVE"
                             /\ take[r] \in 0..res[r].qty /\ left[r] = res[r].qty - take[r]
  BY <1>1, <1>2 DEF Fresh, TakesWhatIsThere
<1>4. ASSUME NEW r \in DOMAIN take
      PROVE  /\ res'[r].inv = res[r].inv /\ res'[r].ord = res[r].ord
             /\ \/ res'[r].status = "ACTIVE" /\ res'[r].qty = res[r].qty - take[r]
                \/ /\ res'[r].status \in {"COMPLETED", "RELEASED"}
                   /\ take[r] = res[r].qty /\ res'[r].qty = res[r].qty
  <2>1. r \in ResIds /\ res[r] \in ReservationRow /\ res[r].qty \in Nat
    BY <1>3, Quantity
  <2>2. CASE left[r] = 0
    <3>1. res'[r] = [res[r] EXCEPT !.status = "RELEASED"]
      BY <1>2, <2>1, <2>2
    <3>2. take[r] = res[r].qty
      BY <1>3, <2>1, <2>2
    <3>3. QED
      BY <2>1, <3>1, <3>2 DEF ReservationRow
  <2>3. CASE left[r] # 0
    <3>1. res'[r] = [res[r] EXCEPT !.qty = left[r]]
      BY <1>2, <2>1, <2>3
    <3>2. QED
      BY <1>3, <2>1, <3>1 DEF ReservationRow
  <2>4. QED
    BY <2>2, <2>3
<1>5. Shrunk(DOMAIN take, take)
  <2>1. \A r \in ResIds \ DOMAIN take : res'[r] = res[r]
    BY <1>2
  <2>2. QED
    BY <1>3, <1>4, <2>1 DEF Shrunk
<1>6. ASSUME NEW i \in Inventories
      PROVE  inv'[i].reserved = Greatest(0, inv[i].reserved
                                   - Total({r \in DOMAIN take : res[r].inv = i}, take))
  BY <1>2, InventoryType DEF InventoryRow
<1>7. QED
  BY <1>1, <1>5, <1>6

\* A step of a request that releases nothing over what others did.
Records(s) == Booking(s) \/ (ReleaseWrite(s) /\ Fresh(req[s]))

LEMMA NumbersKept ==
    ASSUME Typed, ReservationsNumbered, NEW s \in Slots, Records(s)
    PROVE  ReservationsNumbered'
<1>1. CASE Kept
  BY <1>1 DEF Kept, ReservationsNumbered, RowsNumbered
<1>2. ASSUME NEW S, Adds(s, S) PROVE ReservationsNumbered'
  BY <1>2, GrownNumbers DEF Adds
<1>3. ASSUME NEW G, Ends(G) PROVE ReservationsNumbered'
  BY <1>3, ShrunkNumbers DEF Ends
<1>4. CASE ReleaseWrite(s) /\ Fresh(req[s])
  BY <1>4, ReleaseShrinks, ShrunkNumbers
<1>5. QED
  BY <1>1, <1>2, <1>3, <1>4 DEF Records, Booking

LEMMA LedgerKept ==
    ASSUME Typed, Typed', ReservationsNumbered, LedgerBalanced, NEW s \in Slots, Records(s)
    PROVE  LedgerBalanced'
<1>0. SUFFICES ASSUME NEW i \in Inventories
               PROVE  inv'[i].reserved = Total(ActiveOn(i), Quantities)'
  BY DEF LedgerBalanced
<1>1. inv[i].reserved = Total(ActiveOn(i), Quantities)
  BY DEF LedgerBalanced
<1>2. CASE Kept
  <2>1. ActiveOn(i)' = ActiveOn(i) /\ Quantities' = Quantities
    BY <1>2 DEF Kept, ActiveOn, Quantities
  <2>2. inv'[i].reserved = Total(ActiveOn(i), Quantities)
    BY <1>1, <1>2 DEF Kept
  <2>3. QED
    BY <2>1, <2>2
<1>3. ASSUME NEW S, Adds(s, S) PROVE inv'[i].reserved = Total(ActiveOn(i), Quantities)'
  BY <1>1, <1>3, LedgerGrows DEF Adds
<1>4. ASSUME NEW G, Ends(G) PROVE inv'[i].reserved = Total(ActiveOn(i), Quantities)'
  <2>1. Shrunk(G, Quantities) /\ inv'[i].reserved = inv[i].reserved - Counted(G, i)
    BY <1>4 DEF Ends
  <2>2. PICK taken, now : taken = Counted(G, i) /\ now = Total(ActiveOn(i), Quantities)'
    OBVIOUS
  <2>3. Total(ActiveOn(i), Quantities) = taken + now /\ taken \in Nat /\ now \in Nat
    BY <2>1, <2>2, TakenOut DEF Counted
  <2>4. QED
    BY <1>1, <2>1, <2>2, <2>3
<1>5. CASE ReleaseWrite(s) /\ Fresh(req[s])
  <2>1. PICK taken, now : /\ taken = Total({r \in DOMAIN req[s].take : res[r].inv = i}, req[s].take)
                          /\ now = Total(ActiveOn(i), Quantities)'
    OBVIOUS
  <2>2. Shrunk(DOMAIN req[s].take, req[s].take)
        /\ inv'[i].reserved = Greatest(0, inv[i].reserved - taken)
    BY <1>5, <2>1, ReleaseShrinks
  <2>3. Total(ActiveOn(i), Quantities) = taken + now /\ taken \in Nat /\ now \in Nat
    BY <2>1, <2>2, TakenOut
  <2>4. QED
    BY <1>1, <2>1, <2>2, <2>3 DEF Greatest
<1>6. QED
  BY <1>2, <1>3, <1>4, <1>5 DEF Records, Booking

\* Reservations that exist go on existing; a request that another one follows
\* while it has listed some finds them with the units that it listed.
LEMMA ListStays ==
    ASSUME Typed, ReservationsNumbered, NEW s \in Slots, Booking(s), NEW r \in ResIds,
           res[r].status # "ABSENT"
    PROVE  res'[r].status # "ABSENT" /\ res'[r].qty = res[r].qty
<1>1. CASE Kept
  BY <1>1 DEF Kept
<1>2. ASSUME NEW S, Adds(s, S) PROVE res'[r] = res[r]
  BY <1>2, NextAreFree DEF Adds, Grown
<1>3. ASSUME NEW G, Ends(G) PROVE res'[r].status # "ABSENT" /\ res'[r].qty = res[r].qty
  <2>1. /\ Shrunk(G, Quantities)
        /\ \A q \in G : res'[q].status # "ACTIVE"
    BY <1>3 DEF Ends
  <2>2. r \notin G => res'[r] = res[r]
    BY <2>1 DEF Shrunk
  <2>3. r \in G => res'[r].status \in {"COMPLETED", "RELEASED"} /\ res'[r].qty = res[r].qty
    BY <2>1 DEF Shrunk
  <2>4. QED
    BY <2>2, <2>3
<1>4. QED
  BY <1>1, <1>2, <1>3 DEF Booking

\* What a request that has listed reservations listed.
LEMMA Listed ==
    ASSUME Typed, NEW s \in Slots, UpdateStatusLock(s)
    PROVE  /\ OtherRequests(s) /\ UNCHANGED tables
           /\ req'[s].ord = req[s].ord
           /\ DOMAIN req'[s].held = Active(req[s].ord)
           /\ \A r \in Active(req[s].ord) : req'[s].held[r] = res[r].qty
<1> DEFINE r == [op |-> "status", phase |-> "commit", ord |-> req[s].ord,
                 target |-> req[s].target, seen |-> req[s].seen, stores |-> req[s].stores,
                 held |-> [x \in Active(req[s].ord) |-> res[x].qty],
                 picked |-> HasPicked(req[s].ord)]
<1>1. /\ r.ord = req[s].ord /\ DOMAIN r.held = Active(req[s].ord)
      /\ \A x \in Active(req[s].ord) : r.held[x] = res[x].qty
  OBVIOUS
<1>2. Continue(s, r) /\ UNCHANGED tables
  BY DEF UpdateStatusLock
<1> HIDE DEF r
<1>3. req'[s] = r /\ OtherRequests(s)
  BY <1>2 DEF Continue, OtherRequests, Typed, TypeOK
<1>4. QED
  BY <1>1, <1>2, <1>3

LEMMA ListsKept ==
    ASSUME Typed, ReservationsNumbered, ListsTrue, NEW s \in Slots,
           \/ Quiet(s) /\ (Booking(s) \/ Alone)
           \/ UpdateStatusLock(s)
    PROVE  ListsTrue'
<1>1. CASE UpdateStatusLock(s)
  <2>1. UNCHANGED res
    BY <1>1, Listed DEF tables
  <2>2. ListTrue(s)'
    BY <1>1, <2>1, Listed DEF ListTrue, Active
  <2>3. ASSUME NEW z \in Slots, z # s, Locked(z)' PROVE ListTrue(z)'
    <3>1. req'[z] = req[z]
      BY <1>1, <2>3, Listed DEF OtherRequests
    <3>2. QED
      BY <2>1, <2>3, <3>1 DEF ListsTrue, Locked, At, ListTrue
  <2>4. QED
    BY <2>2, <2>3 DEF ListsTrue
<1>2. CASE Quiet(s) /\ (Booking(s) \/ Alone)
  <2>1. ASSUME NEW z \in Slots, Locked(z)' PROVE ListTrue(z)'
    <3>1. z # s /\ req'[z] = req[z]
      BY <1>2, <2>1 DEF Quiet, OtherRequests
    <3>2. Booking(s)
      BY <1>2, <3>1 DEF Alone
    <3>3. Locked(z) /\ ListTrue(z)
      BY <2>1, <3>1 DEF ListsTrue, Locked, At
    <3>4. QED
      BY <3>1, <3>2, <3>3, ListStays DEF ListTrue
  <2>2. QED
    BY <2>1 DEF ListsTrue
<1>3. QED
  BY <1>1, <1>2

\* The invariant with which every step of the program is one that the ledger
\* records.
BooksHold ==
    /\ LocksHold /\ RequestsKnow /\ CallsMade
    /\ Alone => AllFresh
    /\ ReservationsNumbered /\ OrderItems /\ ListsTrue

LEMMA StepsRecorded ==
    ASSUME ReleaseApart, Typed, BooksHold, Next
    PROVE  \E s \in Slots : /\ (Quiet(s) /\ Touches(s)) \/ UpdateStatusLock(s)
                            /\ Records(s) /\ (Booking(s) \/ Alone)
<1>1. PICK s \in Slots : /\ (Quiet(s) /\ Touches(s)) \/ UpdateStatusLock(s)
                         /\ Booking(s) \/ ReleaseWrite(s)
  BY StepsBook DEF BooksHold
<1>2. CASE ReleaseWrite(s)
  <2>1. req[s].op = "release"
    BY <1>2 DEF ReleaseWrite, At
  <2>2. "release" \in Endpoints
    BY <2>1 DEF BooksHold, CallsMade, Unlocking
  <2>3. Alone /\ Fresh(req[s])
    BY <2>2 DEF ReleaseApart, BooksHold, AllFresh
  <2>4. QED
    BY <1>1, <1>2, <2>3 DEF Records
<1>3. QED
  BY <1>1, <1>2 DEF Records

LEMMA BooksKept ==
    ASSUME ReleaseApart, Typed, BooksHold, [Next]_vars PROVE BooksHold'
<1>1. LocksHold' /\ RequestsKnow' /\ CallsMade' /\ (Alone => AllFresh')
  BY NextKeepsLocks, NextCalls, NextFresh DEF BooksHold
<1>2. OrderItems'
  BY OrderItemsKept DEF BooksHold
<1>3. CASE Next
  <2>1. PICK s \in Slots : /\ (Quiet(s) /\ Touches(s)) \/ UpdateStatusLock(s)
                           /\ Records(s) /\ (Booking(s) \/ Alone)
    BY <1>3, StepsRecorded
  <2>2. ReservationsNumbered' /\ ListsTrue'
    BY <2>1, NumbersKept, ListsKept DEF BooksHold
  <2>3. QED
    BY <1>1, <1>2, <2>2 DEF BooksHold, Alone
<1>4. CASE UNCHANGED vars
  <2>1. ReservationsNumbered' /\ ListsTrue'
    BY <1>4 DEF vars, BooksHold, ReservationsNumbered, RowsNumbered, ListsTrue, Locked, At, ListTrue
  <2>2. QED
    BY <1>1, <1>2, <2>1 DEF BooksHold, Alone
<1>5. QED
  BY <1>3, <1>4

LEMMA LedgerStep ==
    ASSUME ReleaseApart, Typed, Typed', BooksHold, LedgerBalanced, [Next]_vars
    PROVE  LedgerBalanced'
<1>1. CASE Next
  <2>1. PICK s \in Slots : Records(s)
    BY <1>1, StepsRecorded
  <2>2. QED
    BY <2>1, LedgerKept DEF BooksHold
<1>2. CASE UNCHANGED vars
  BY <1>2 DEF vars, LedgerBalanced, ActiveOn, Quantities
<1>3. QED
  BY <1>1, <1>2

LEMMA InitBooked == Init => BooksHold /\ LedgerBalanced
<1> SUFFICES ASSUME Init PROVE BooksHold /\ LedgerBalanced
  OBVIOUS
<1>1. \A s \in Slots : req[s] = Idle /\ Idle.op = "none"
  BY DEF Init, Idle
<1>2. LocksHold /\ RequestsKnow /\ CallsMade /\ AllFresh /\ ListsTrue
  BY <1>1, InitKeepsLocks DEF CallsMade, Unlocking, AllFresh, Fresh, ListsTrue, Locked, At
<1>3. ReservationsNumbered
  <2>1. 0 \in 0..MaxReservations /\ \A r \in ResIds : ~(r <= 0) /\ res[r].status = "ABSENT"
    BY ErpAssumption DEF Init, NoReservation, ResIds
  <2>2. QED
    BY <2>1 DEF ReservationsNumbered, RowsNumbered
<1>4. OrderItems
  BY DEF Init, OrderItems, ForOrder, NoTransfer
<1>5. ASSUME NEW i \in Inventories PROVE inv[i].reserved = Total(ActiveOn(i), Quantities)
  <2>1. ActiveOn(i) = {} /\ inv[i].reserved = 0
    BY DEF Init, ActiveOn, NoReservation
  <2>2. Total(ActiveOn(i), Quantities) = 0
    BY <2>1, TotalEmpty, Zenon
  <2>3. QED
    BY <2>1, <2>2
<1>6. QED
  BY <1>2, <1>3, <1>4, <1>5 DEF BooksHold, LedgerBalanced

\* The reserved units of every inventory are those of its ACTIVE reservations,
\* whatever requests race, as long as releaseRemoteStock() does not: it writes the
\* quantities that it read before over what the reservations have become.
THEOREM LedgerAlwaysBalanced ==
    ASSUME ReleaseApart
    PROVE  Spec => []LedgerBalanced
<1>1. Init => BooksHold /\ LedgerBalanced
  BY InitBooked
<1>2. Typed /\ BooksHold /\ [Next]_vars => BooksHold'
  BY BooksKept
<1>3. Typed /\ Typed' /\ BooksHold /\ LedgerBalanced /\ [Next]_vars => LedgerBalanced'
  BY LedgerStep
<1>4. QED
  BY <1>1, <1>2, <1>3, AlwaysTyped, PTL DEF Spec

-----------------------------------------------------------------------------
(* What an order that is over holds.                                         *)

\* The calls that reserve for an order without asking whether it is over are not
\* made, and reserveRemoteStock() and releaseRemoteStock(), which ask before they
\* write, have no other request between.
CarefulCalls ==
    /\ Careless \intersect Endpoints = {}
    /\ Alone \/ {"reserve", "release"} \intersect Endpoints = {}

\* Lines, reservations and the requests for one are those of orders that exist.
LinesPlaced == \A l \in Lines : line[l].qty > 0 => Placed(LineOrder[l])
ReservesPlaced == \A s \in Slots : req[s].op = "reserve" => Placed(LineOrder[req[s].line])
ReservationsOrdered ==
    \A r \in ResIds : res[r].status = "ACTIVE" /\ res[r].ord \in Orders => Placed(res[r].ord)

\* Whoever has locked an order has listed all that it holds.
ListsComplete == \A s \in Slots : Locked(s) => Active(req[s].ord) \subseteq DOMAIN req[s].held

OrdersHold == LinesPlaced /\ ReservesPlaced /\ ReservationsOrdered /\ ListsComplete

LEMMA NotLate ==
    ASSUME CarefulCalls, Typed, BooksHold, ReservesPlaced, NEW s \in Slots, NEW o
    PROVE  ~Late(s, o)
<1>1. Careless \intersect Endpoints = {}
  BY DEF CarefulCalls
<1>2. ASSUME req[s].op = "reserve", o = LineOrder[req[s].line]
      PROVE  ord[o].status \notin Closed \union {"ABSENT"}
  <2>1. "reserve" \in Endpoints
    BY <1>2 DEF BooksHold, CallsMade, Unlocking
  <2>2. Alone
    BY <2>1 DEF CarefulCalls
  <2>3. Open(o)
    BY <1>2, <2>2 DEF BooksHold, AllFresh, Fresh
  <2>4. Placed(o)
    BY <1>2 DEF ReservesPlaced
  <2>5. QED
    BY <2>3, <2>4 DEF Open, Placed
<1>3. QED
  BY <1>1, <1>2 DEF Late

\* No order is forgotten.
LEMMA OrdersStay ==
    ASSUME Typed, Next PROVE PlacedStays
<1> SUFFICES ASSUME NEW o \in Orders, Placed(o) PROVE ord'[o].status # "ABSENT"
  BY DEF PlacedStays, Placed
<1>1. StatusWritten(o)
  BY StatusWrites
<1>2. ASSUME NEW s \in Slots, Commits(s), req[s].ord = o PROVE ord'[o].status # "ABSENT"
  <2>1. req[s].op = "status"
    BY <1>2 DEF Commits, ConfirmOrder, CancelOrder, CompleteReturn, DeliverOrder, MoveOrder, At
  <2>2. ord[o] \in OrderRow /\ WithSessionCancelled(ord[o]) \in OrderRow
    BY SessionCancelledType DEF Typed, TypeOK
  <2>3. CASE CancelOrder(s) \/ CompleteReturn(s)
    <3>1. PICK row \in OrderRow, status \in OrderStatus : ord' = [ord EXCEPT ![o] = [row EXCEPT !.status = status]]
      BY <1>2, <2>2, <2>3 DEF CancelOrder, CompleteReturn, OrderStatus
    <3>2. [row EXCEPT !.status = status].status = status
      BY DEF OrderRow
    <3>3. ord'[o].status = status
      BY <3>1, <3>2 DEF Typed, TypeOK
    <3>4. QED
      BY <3>3 DEF OrderStatus
  <2>4. CASE ConfirmOrder(s) \/ DeliverOrder(s) \/ MoveOrder(s)
    <3>1. PICK status \in OrderStatus : ord' = [ord EXCEPT ![o].status = status]
      BY <1>2, <2>4 DEF ConfirmOrder, DeliverOrder, MoveOrder, OrderStatus
    <3>2. ord'[o].status = status
      BY <2>2, <3>1 DEF Typed, TypeOK, OrderRow
    <3>3. QED
      BY <3>2 DEF OrderStatus
  <2>5. QED
    BY <1>2, <2>3, <2>4 DEF Commits
<1>3. QED
  BY <1>1, <1>2 DEF StatusWritten, Placed

\* A line is ordered with its order.
LEMMA LineQuantities ==
    ASSUME Typed, Next, NEW l \in Lines
    PROVE  line'[l].qty = line[l].qty \/ Placed(LineOrder[l])'
<1>0. line[l] \in LineRow /\ DOMAIN line = Lines
  BY DEF Typed, TypeOK
<1>1. CASE WarehouseNext
  <2>1. \/ UNCHANGED line
        \/ \E s \in Slots, t \in XferIds : ReceiveStockTransfer(s, t)
    BY <1>1 DEF WarehouseNext, CreateMovement, CreateReservation, ReconcileReservedStock,
       CreateStockTransfer, DispatchStockTransfer, CancelStockTransfer
  <2>2. ASSUME NEW s \in Slots, NEW t \in XferIds, ReceiveStockTransfer(s, t)
        PROVE  line'[l].qty = line[l].qty
    <3>1. PICK disc : line' = WithShortages(t, disc)
      BY <2>2 DEF ReceiveStockTransfer
    <3>2. QED
      BY <1>0, <3>1 DEF WithShortages, LineRow
  <2>3. QED
    BY <2>1, <2>2
<1>2. ASSUME NEW s \in Slots, DeskNext(s) \/ CreateOrderReview(s)
      PROVE  line'[l].qty = line[l].qty \/ Placed(LineOrder[l])'
  <2>1. ASSUME NEW o \in Orders, CreateOrder(s, o) \/ CreateMarketplaceOrder(s, o)
        PROVE  line'[l] = line[l] \/ LineOrder[l] = o
    BY <2>1, CreateOrderApart, CheckoutApart
  <2>2. ASSUME NEW o \in Orders, CreateOrder(s, o) PROVE ord'[o].status # "ABSENT"
    <3>1. PICK channel \in {"POS", "INTERNAL"}, source \in Stores,
               L \in (SUBSET {m \in Lines : LineOrder[m] = o}) \ {{}} :
            \E q \in [L -> 1..MaxQty], store \in [L -> Stores], chosen \in Stores \union {Null} :
              PlaceOrder(o, channel, source, L, q, store, chosen)
      BY <2>2 DEF CreateOrder
    <3>2. PICK q \in [L -> 1..MaxQty], store \in [L -> Stores], chosen \in Stores \union {Null} :
            PlaceOrder(o, channel, source, L, q, store, chosen)
      BY <3>1
    <3>3. \E status \in {"DELIVERED", "WAITING_TRANSFER", "PENDING"} : \E row :
            ord' = [ord EXCEPT ![o] = [NoOrder EXCEPT !.status = status, !.channel = channel,
                                                      !.source = source, !.fulfil = row]]
      BY <3>2 DEF PlaceOrder
    <3>4. QED
      BY <3>3 DEF Typed, TypeOK, NoOrder
  <2>3. ASSUME NEW o \in Orders, CreateMarketplaceOrder(s, o) PROVE ord'[o].status # "ABSENT"
    <3>1. PICK source \in Stores, L \in (SUBSET {m \in Lines : LineOrder[m] = o}) \ {{}},
               auto \in BOOLEAN :
            \E q \in [L -> 1..MaxQty] : PlaceMarketplaceOrder(o, source, L, q, auto)
      BY <2>3 DEF CreateMarketplaceOrder
    <3>2. ord' = [ord EXCEPT ![o] = [NoOrder EXCEPT !.status = "PENDING", !.channel = "ECOMMERCE",
                                                    !.source = source, !.fulfil = source]]
      BY <3>1 DEF PlaceMarketplaceOrder
    <3>3. QED
      BY <3>2 DEF Typed, TypeOK, NoOrder
  <2>4. QED
    BY <1>2, <2>1, <2>2, <2>3 DEF DeskNext, CreateOrderReview, Placed
<1>3. ASSUME NEW s \in Slots, StatusNext(s) PROVE line'[l] = line[l]
  BY <1>3 DEF StatusNext, UpdateStatusRead, UpdateStatusLock, tables, ConfirmOrder, CancelOrder,
     CompleteReturn, DeliverOrder, MoveOrder
<1>4. ASSUME NEW s \in Slots, LineNext(s) PROVE line'[l].qty = line[l].qty
  <2>1. \/ UNCHANGED line
        \/ ReserveWrite(s) \/ ReleaseWrite(s) \/ ShortageWrite(s)
        \/ \E o \in Orders : RegisterOrderReturn(s, o)
    BY <1>4 DEF LineNext, ReserveRead, ReleaseRead, ShortageRead, tables
  <2>2. ASSUME NEW o \in Orders, RegisterOrderReturn(s, o) PROVE line'[l].qty = line[l].qty
    <3>1. PICK L \in (SUBSET LinesOf(o)) \ {{}} : \E q \in [L -> 1..MaxQty] :
             line' = [k \in Lines |-> IF k \in L
                                      THEN [line[k] EXCEPT !.returned = line[k].returned + q[k]]
                                      ELSE line[k]]
      BY <2>2 DEF RegisterOrderReturn
    <3>2. \E n : line'[l] = line[l] \/ line'[l] = [line[l] EXCEPT !.returned = n]
      BY <3>1
    <3>3. QED
      BY <1>0, <3>2 DEF LineRow
  <2>3. CASE ReserveWrite(s)
    <3>1. \E k, n, x : line' = [line EXCEPT ![k].reserved = n, ![k].store = x]
      BY <2>3 DEF ReserveWrite
    <3>2. QED
      BY <1>0, <3>1 DEF LineRow
  <2>4. CASE ReleaseWrite(s)
    <3>1. \E k, n, x : line' = [line EXCEPT ![k].reserved = n, ![k].picked = x]
      BY <2>4 DEF ReleaseWrite
    <3>2. QED
      BY <1>0, <3>1 DEF LineRow
  <2>5. CASE ShortageWrite(s)
    <3>1. \E k, n : line' = [line EXCEPT ![k].shortage = n]
      BY <2>5 DEF ShortageWrite
    <3>2. QED
      BY <1>0, <3>1 DEF LineRow
  <2>6. QED
    BY <2>1, <2>2, <2>3, <2>4, <2>5
<1>5. ASSUME NEW s \in Slots, PickingNext(s) PROVE line'[l].qty = line[l].qty
  <2>1. line'[l] = line[l] \/ \E n : line'[l] = [line[l] EXCEPT !.picked = n]
    BY <1>5, PickingWritesPicked
  <2>2. QED
    BY <1>0, <2>1 DEF LineRow
<1>6. ASSUME NEW s \in Slots, Abort(s) PROVE line'[l] = line[l]
  BY <1>6 DEF Abort, tables
<1>7. QED
  BY <1>1, <1>2, <1>3, <1>4, <1>5, <1>6 DEF Next

\* A request that reserves has seen the line.
LEMMA NewReserve ==
    ASSUME Typed, NEW s \in Slots, NEW r, Continue(s, r), ReservesPlaced, PlacedStays,
           r.op = "reserve" => Placed(LineOrder[r.line])'
    PROVE  ReservesPlaced'
<1>1. ASSUME NEW z \in Slots, req'[z].op = "reserve" PROVE Placed(LineOrder[req[z].line])'
  <2>1. req'[z] = IF z = s THEN r ELSE req[z]
    BY DEF Continue, Typed, TypeOK
  <2>2. CASE z = s
    BY <1>1, <2>1, <2>2 DEF Placed
  <2>3. CASE z # s
    <3>1. req'[z] = req[z] /\ Placed(LineOrder[req[z].line])
      BY <1>1, <2>1, <2>3 DEF ReservesPlaced
    <3>2. req[z].line \in Lines
      BY <1>1, <3>1, RequestType DEF RequestOK
    <3>3. LineOrder[req[z].line] \in Orders
      BY <3>2, LineType
    <3>4. QED
      BY <3>1, <3>3 DEF PlacedStays, Placed
  <2>4. QED
    BY <2>2, <2>3
<1>2. QED
  BY <1>1 DEF ReservesPlaced, Placed

LEMMA EndedReserve ==
    ASSUME Typed, NEW s \in Slots, Finish(s), ReservesPlaced, PlacedStays PROVE ReservesPlaced'
<1>1. Idle.op # "reserve"
  BY DEF Idle
<1>2. QED
  BY <1>1, NewReserve DEF Finish

LEMMA SameReserves ==
    ASSUME Typed, UNCHANGED req, ReservesPlaced, PlacedStays PROVE ReservesPlaced'
<1>1. ASSUME NEW z \in Slots, req[z].op = "reserve" PROVE Placed(LineOrder[req[z].line])'
  <2>1. req[z].line \in Lines /\ Placed(LineOrder[req[z].line])
    BY <1>1, RequestType DEF RequestOK, ReservesPlaced
  <2>2. QED
    BY <2>1, LineType DEF PlacedStays
<1>2. QED
  BY <1>1 DEF ReservesPlaced, Placed

LEMMA LineReserves ==
    ASSUME Typed, LinesPlaced, ReservesPlaced, PlacedStays, NEW s \in Slots, LineNext(s)
    PROVE  ReservesPlaced'
<1>1. ASSUME NEW l \in Lines, NEW store \in Stores, ReserveRead(s, l, store) PROVE ReservesPlaced'
  <2>1. l \in LinesOf(LineOrder[l]) /\ UNCHANGED tables
    BY <1>1 DEF ReserveRead
  <2>2. Placed(LineOrder[l])'
    BY <2>1 DEF LinesOf, LinesPlaced, Placed, tables
  <2>3. PICK q, p :
          Continue(s, [op |-> "reserve", phase |-> "write", line |-> l, store |-> store, qty |-> q,
                       partial |-> p, fulfil |-> ord[LineOrder[l]].fulfil])
    BY <1>1 DEF ReserveRead
  <2>4. QED
    BY <2>2, <2>3, NewReserve
<1>2. ASSUME NEW l \in Lines, NEW store \in Stores \union {Null}, ReleaseRead(s, l, store)
      PROVE  ReservesPlaced'
  <2>1. PICK take, left :
          Continue(s, [op |-> "release", phase |-> "write", line |-> l, take |-> take, left |-> left])
    BY <1>2 DEF ReleaseRead
  <2>2. QED
    BY <2>1, NewReserve
<1>3. ASSUME NEW l \in Lines, ShortageRead(s, l) PROVE ReservesPlaced'
  <2>1. PICK q, seen, others :
          Continue(s, [op |-> "shortage", phase |-> "write", line |-> l, qty |-> q, seen |-> seen,
                       others |-> others])
    BY <1>3 DEF ShortageRead
  <2>2. QED
    BY <2>1, NewReserve
<1>4. CASE ReserveWrite(s) \/ ReleaseWrite(s) \/ ShortageWrite(s)
  BY <1>4, EndedReserve DEF ReserveWrite, ReleaseWrite, ShortageWrite
<1>5. ASSUME NEW o \in Orders, RegisterOrderReturn(s, o) PROVE ReservesPlaced'
  BY <1>5, SameReserves DEF RegisterOrderReturn
<1>6. QED
  BY <1>1, <1>2, <1>3, <1>4, <1>5 DEF LineNext

LEMMA PickingReserves ==
    ASSUME Typed, ReservesPlaced, PlacedStays, NEW s \in Slots, PickingNext(s)
    PROVE  ReservesPlaced'
<1>1. ASSUME NEW r, Continue(s, r), r.op # "reserve" PROVE ReservesPlaced'
  BY <1>1, NewReserve
<1>2. ASSUME NEW o, NEW limit, NEW delta,
             Continue(s, [op |-> "pick", phase |-> "write", ord |-> o, limit |-> limit,
                          delta |-> delta])
      PROVE  ReservesPlaced'
  BY <1>1, <1>2
<1>3. ASSUME NEW o \in Orders, StartPickingRead(s, o) PROVE ReservesPlaced'
  BY <1>1, <1>3 DEF StartPickingRead
<1>4. ASSUME NEW o \in Orders, PickAllRead(s, o) PROVE ReservesPlaced'
  BY <1>2, <1>4 DEF PickAllRead
<1>5. ASSUME NEW o \in Orders, CompletePickingRead(s, o) PROVE ReservesPlaced'
  BY <1>1, <1>5 DEF CompletePickingRead
<1>6. ASSUME NEW l \in Lines, PickLineRead(s, l) PROVE ReservesPlaced'
  BY <1>2, <1>6 DEF PickLineRead
<1>7. ASSUME NEW o \in Orders, NEW store \in Stores, TaskRead(s, o, store) PROVE ReservesPlaced'
  BY <1>1, <1>7 DEF TaskRead
<1>8. ASSUME NEW o \in Orders, CompletePacking(s, o) PROVE ReservesPlaced'
  BY <1>8, SameReserves DEF CompletePacking
<1>9. CASE StartPickingSession(s) \/ PickWrite(s) \/ SyncRead(s) \/ FinishPickingTask(s)
           \/ CountOpenPickingTasks(s)
  BY <1>1, <1>9, EndedReserve DEF StartPickingSession, PickWrite, SyncRead, FinishPickingTask,
     CountOpenPickingTasks
<1>10. CASE StartPickingStatus(s) \/ SyncWrite(s) \/ CompletePickingWrite(s)
  BY <1>10, EndedReserve DEF StartPickingStatus, SyncWrite, CompletePickingWrite
<1>11. QED
  BY <1>3, <1>4, <1>5, <1>6, <1>7, <1>8, <1>9, <1>10 DEF PickingNext

LEMMA NextReserves ==
    ASSUME Typed, LinesPlaced, ReservesPlaced, PlacedStays, Next PROVE ReservesPlaced'
<1>1. CASE WarehouseNext
  BY <1>1, WarehouseAtOnce, SameReserves
<1>2. ASSUME NEW s \in Slots, DeskNext(s) \/ CreateOrderReview(s) PROVE ReservesPlaced'
  <2>1. ASSUME NEW o \in Orders, CreateMarketplaceOrder(s, o) PROVE ReservesPlaced'
    BY <2>1, NewReserve DEF CreateMarketplaceOrder
  <2>2. ASSUME NEW o \in Orders, CreateOrder(s, o) PROVE ReservesPlaced'
    BY <2>2, SameReserves DEF CreateOrder
  <2>3. CASE CreateOrderReview(s)
    BY <2>3, EndedReserve DEF CreateOrderReview
  <2>4. QED
    BY <1>2, <2>1, <2>2, <2>3 DEF DeskNext
<1>3. ASSUME NEW s \in Slots, StatusNext(s) PROVE ReservesPlaced'
  <2>1. ASSUME NEW o \in Orders, NEW target \in OrderStatus, UpdateStatusRead(s, o, target)
        PROVE  ReservesPlaced'
    BY <2>1, NewReserve DEF UpdateStatusRead
  <2>2. CASE UpdateStatusLock(s)
    BY <2>2, NewReserve DEF UpdateStatusLock
  <2>3. CASE Commits(s)
    BY <2>3, EndedReserve DEF Commits, ConfirmOrder, CancelOrder, CompleteReturn, DeliverOrder,
       MoveOrder
  <2>4. QED
    BY <1>3, <2>1, <2>2, <2>3 DEF StatusNext, Commits
<1>4. ASSUME NEW s \in Slots, Abort(s) PROVE ReservesPlaced'
  BY <1>4, EndedReserve DEF Abort
<1>5. QED
  BY <1>1, <1>2, <1>3, <1>4, LineReserves, PickingReserves DEF Next

\* Where the reservations of an order come from.
LEMMA ActiveGrows ==
    ASSUME Typed, ReservationsNumbered, NEW s \in Slots, Records(s), NEW o \in Orders,
           NEW r \in ResIds, res'[r].status = "ACTIVE", res'[r].ord = o
    PROVE  (res[r].status = "ACTIVE" /\ res[r].ord = o) \/ NewFor(s, o)
<1>1. CASE Kept
  BY <1>1 DEF Kept
<1>2. ASSUME NEW S, Adds(s, S)
      PROVE  (res[r].status = "ACTIVE" /\ res[r].ord = o) \/ NewFor(s, o)
  BY <1>2 DEF Adds, Grown
<1>3. ASSUME NEW G, NEW take, Shrunk(G, take) PROVE res[r].status = "ACTIVE" /\ res[r].ord = o
  BY <1>3 DEF Shrunk
<1>4. ASSUME NEW G, Ends(G) PROVE res[r].status = "ACTIVE" /\ res[r].ord = o
  BY <1>3, <1>4 DEF Ends
<1>5. CASE ReleaseWrite(s) /\ Fresh(req[s])
  BY <1>3, <1>5, ReleaseShrinks
<1>6. QED
  BY <1>1, <1>2, <1>4, <1>5 DEF Records, Booking

\* An order that becomes DELIVERED or CANCELLED loses what its lock found.
LEMMA ClosingSettles ==
    ASSUME Typed, NEW s \in Slots, Commits(s), NEW o \in Orders, req[s].ord = o,
           ord[o].status \notin Closed, ord'[o].status \in Closed
    PROVE  \E status \in {"COMPLETED", "RELEASED"} : res' = Settled(s, status)
<1>1. \A status : ord' = [ord EXCEPT ![o].status = status] => ord'[o].status = status
  BY DEF Typed, TypeOK, OrderRow
<1>2. ~ConfirmOrder(s)
  BY <1>1 DEF ConfirmOrder, Closed
<1>3. ~MoveOrder(s)
  BY <1>1 DEF MoveOrder, Closed
<1>4. CASE CancelOrder(s)
  <2>1. ASSUME NEW row, row = WithSessionCancelled(ord[o]),
               ord' = [ord EXCEPT ![o] = [row EXCEPT !.status = "RETURN_PENDING"]]
        PROVE  FALSE
    <3>1. row \in OrderRow
      BY <2>1, SessionCancelledType DEF Typed, TypeOK
    <3>2. ord'[o] = [row EXCEPT !.status = "RETURN_PENDING"]
      BY <2>1 DEF Typed, TypeOK
    <3>3. ord'[o].status = "RETURN_PENDING"
      BY <3>1, <3>2 DEF OrderRow
    <3>4. QED
      BY <3>3 DEF Closed
  <2>2. ReleaseHeld(s)
    BY <1>4, <2>1 DEF CancelOrder
  <2>3. QED
    BY <2>2 DEF ReleaseHeld
<1>5. CASE CompleteReturn(s)
  BY <1>5 DEF CompleteReturn, ReleaseHeld
<1>6. CASE DeliverOrder(s)
  BY <1>6 DEF DeliverOrder
<1>7. QED
  BY <1>2, <1>3, <1>4, <1>5, <1>6 DEF Commits

LEMMA CommitsLocked ==
    ASSUME NEW s \in Slots, Commits(s) PROVE Locked(s)
  BY DEF Commits, ConfirmOrder, CancelOrder, CompleteReturn, DeliverOrder, MoveOrder, Locked

LEMMA CarefulSteps ==
    ASSUME CarefulCalls, Typed, BooksHold, Next
    PROVE  \E s \in Slots : /\ (Quiet(s) /\ Touches(s)) \/ UpdateStatusLock(s)
                            /\ Records(s)
<1>1. ReleaseApart
  BY DEF CarefulCalls, ReleaseApart
<1>2. QED
  BY <1>1, StepsRecorded

LEMMA OrdersKept ==
    ASSUME CarefulCalls, Typed, BooksHold, OrdersHold, [Next]_vars PROVE OrdersHold'
<1>1. CASE Next
  <2>0. LinesPlaced /\ ReservesPlaced /\ ReservationsOrdered /\ ListsComplete /\ ReservationsNumbered
    BY DEF OrdersHold, BooksHold
  <2>1. PlacedStays
    BY <1>1, OrdersStay
  <2>2. LinesPlaced'
    <3>1. ASSUME NEW l \in Lines, line'[l].qty > 0 PROVE Placed(LineOrder[l])'
      <4>1. CASE line'[l].qty = line[l].qty
        BY <2>0, <2>1, <3>1, <4>1, LineType DEF LinesPlaced, PlacedStays
      <4>2. QED
        BY <1>1, <4>1, LineQuantities
    <3>2. QED
      BY <3>1 DEF LinesPlaced
  <2>3. ReservesPlaced'
    BY <1>1, <2>0, <2>1, NextReserves
  <2>4. PICK s \in Slots : /\ (Quiet(s) /\ Touches(s)) \/ UpdateStatusLock(s)
                           /\ Records(s)
    BY <1>1, CarefulSteps
  <2>5. ASSUME NEW o \in Orders, NewFor(s, o) PROVE Placed(o)'
    BY <2>0, <2>5, NotLate DEF NewFor, Placed
  <2>6. ReservationsOrdered'
    <3>1. ASSUME NEW r \in ResIds, res'[r].status = "ACTIVE", NEW o \in Orders, o = res'[r].ord
          PROVE  Placed(o)'
      <4>1. CASE res[r].status = "ACTIVE" /\ res[r].ord = o
        BY <2>0, <2>1, <4>1 DEF ReservationsOrdered, PlacedStays
      <4>2. QED
        BY <2>0, <2>4, <2>5, <3>1, <4>1, ActiveGrows
    <3>2. QED
      BY <3>1 DEF ReservationsOrdered, Placed
  <2>7. ListsComplete'
    <3>1. ASSUME NEW z \in Slots, Locked(z)', z # s, req'[z] = req[z], NEW r \in Active(req[z].ord)'
          PROVE  r \in DOMAIN req[z].held
      <4>1. PICK o : o = req[z].ord
        OBVIOUS
      <4>2. Locked(z)
        BY <3>1 DEF Locked, At
      <4>3. o \in Orders /\ Placed(o)
        BY <4>1, <4>2, StatusRequest DEF Locked
      <4>4. ~Unlocked(o, s)
        BY <3>1, <4>1, <4>2 DEF Unlocked, Locked, At
      <4>5. r \in ResIds /\ res'[r].status = "ACTIVE" /\ res'[r].ord = o
        BY <3>1, <4>1 DEF Active
      <4>6. r \in Active(o)
        BY <2>0, <2>4, <4>3, <4>4, <4>5, ActiveGrows DEF NewFor, Active
      <4>7. QED
        BY <2>0, <4>1, <4>2, <4>6 DEF ListsComplete
    <3>2. CASE UpdateStatusLock(s)
      <4>1. /\ OtherRequests(s) /\ UNCHANGED res
            /\ req'[s].ord = req[s].ord
            /\ DOMAIN req'[s].held = Active(req[s].ord)
        BY <3>2, Listed DEF tables
      <4>2. Active(req[s].ord)' = Active(req[s].ord)'
        OBVIOUS
      <4>3. QED
        BY <3>1, <4>1 DEF ListsComplete, OtherRequests, Active
    <3>3. CASE Quiet(s)
      BY <3>1, <3>3 DEF ListsComplete, Quiet, OtherRequests, Active
    <3>4. QED
      BY <2>4, <3>2, <3>3
  <2>8. QED
    BY <2>2, <2>3, <2>6, <2>7 DEF OrdersHold
<1>2. CASE UNCHANGED vars
  BY <1>2 DEF vars, OrdersHold, LinesPlaced, ReservesPlaced, ReservationsOrdered, ListsComplete,
     Placed, Active, Locked, At
<1>3. QED
  BY <1>1, <1>2

LEMMA ClosedStaysFree ==
    ASSUME CarefulCalls, Typed, BooksHold, OrdersHold, ClosedHoldsNothing, [Next]_vars
    PROVE  ClosedHoldsNothing'
<1>1. CASE Next
  <2>1. PICK s \in Slots : Records(s)
    BY <1>1, CarefulSteps
  <2>2. SUFFICES ASSUME NEW o \in Orders, ord'[o].status \in Closed,
                        NEW r \in ResIds, res'[r].status = "ACTIVE", res'[r].ord = o
                 PROVE  FALSE
    BY DEF ClosedHoldsNothing, Active
  <2>3. ~NewFor(s, o)
    BY <2>2, NotLate DEF NewFor, OrdersHold
  <2>4. r \in Active(o) /\ res[r].status = "ACTIVE" /\ res[r].ord = o
    BY <2>1, <2>2, <2>3, ActiveGrows DEF BooksHold, Active
  <2>5. ord[o].status \notin Closed /\ Placed(o)
    BY <2>4 DEF ClosedHoldsNothing, OrdersHold, ReservationsOrdered
  <2>6. PICK z \in Slots : Commits(z) /\ req[z].ord = o
    BY <1>1, <2>2, <2>5, StatusWrites DEF StatusWritten, Closed
  <2>7. r \in DOMAIN req[z].held
    BY <2>4, <2>6, CommitsLocked DEF OrdersHold, ListsComplete
  <2>8. r \in Held(z)
    BY <2>4, <2>7 DEF Held
  <2>9. PICK status \in {"COMPLETED", "RELEASED"} : res' = Settled(z, status)
    BY <2>2, <2>5, <2>6, ClosingSettles
  <2>10. res'[r] = [res[r] EXCEPT !.status = status] /\ res[r] \in ReservationRow
    BY <2>8, <2>9 DEF Settled, Typed, TypeOK
  <2>11. QED
    BY <2>2, <2>10 DEF ReservationRow
<1>2. CASE UNCHANGED vars
  BY <1>2 DEF vars, ClosedHoldsNothing, Active
<1>3. QED
  BY <1>1, <1>2

LEMMA InitOrdered == Init => OrdersHold /\ ClosedHoldsNothing
<1> SUFFICES ASSUME Init PROVE OrdersHold /\ ClosedHoldsNothing
  OBVIOUS
<1>1. \A s \in Slots : req[s].op = "none"
  BY DEF Init, Idle
<1>2. \A l \in Lines : line[l].qty = 0
  BY DEF Init, NoLine
<1>3. \A r \in ResIds : res[r].status = "ABSENT"
  BY DEF Init, NoReservation
<1>4. QED
  BY <1>1, <1>2, <1>3 DEF OrdersHold, LinesPlaced, ReservesPlaced, ReservationsOrdered,
     ListsComplete, ClosedHoldsNothing, Locked, At, Active

\* An order that is delivered or cancelled holds no stock: the commit that closes it
\* settles everything that is reserved for it, because what it listed under the lock
\* is all there is, and no careful request reserves for it afterwards.
THEOREM ClosedIsFree ==
    ASSUME CarefulCalls
    PROVE  Spec => []ClosedHoldsNothing
<1>1. Init => BooksHold /\ OrdersHold /\ ClosedHoldsNothing
  BY InitBooked, InitOrdered
<1>2. Typed /\ BooksHold /\ [Next]_vars => BooksHold'
  BY BooksKept DEF CarefulCalls, ReleaseApart
<1>3. Typed /\ BooksHold /\ OrdersHold /\ [Next]_vars => OrdersHold'
  BY OrdersKept
<1>4. Typed /\ BooksHold /\ OrdersHold /\ ClosedHoldsNothing /\ [Next]_vars => ClosedHoldsNothing'
  BY ClosedStaysFree
<1>5. QED
  BY <1>1, <1>2, <1>3, <1>4, AlwaysTyped, PTL DEF Spec
=============================================================================
