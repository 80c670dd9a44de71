--------------------------- MODULE CheckoutProofs ---------------------------
(* Proofs about Checkout, for any number of carts, lines, requests, orders   *)
(* and any limits of the coupon.  Types first; then the locks: what a        *)
(* transaction read under a lock is still true at its commit (Locked), and   *)
(* so the counts it checked there bound what it adds.                        *)
EXTENDS Checkout, FiniteSetTheorems, TLAPS

-----------------------------------------------------------------------------
(* The inductive invariant *)

\* What a transaction has read under its locks still holds.
Locked ==
    \A h \in Handlers :
        /\ At(h, "locked") \/ At(h, "redeeming") =>
             /\ cartLock[handler[h].cart] = h
             /\ status[handler[h].cart] = "ACTIVE"
        /\ At(h, "redeeming") =>
             /\ couponLock = h
             /\ coupon # Deleted
             /\ coupon.active
             /\ Cardinality(Redemptions) < coupon.usageLimit
             /\ Cardinality(RedemptionsOf(handler[h].cart)) < coupon.perUserLimit

\* A cart that is ACTIVE has an order to give in this session.
Sessions ==
    \A c \in Carts :
        Cardinality(OrdersOf(c)) + (IF status[c] = "ACTIVE" THEN 1 ELSE 0) <= sessions[c]

IInv == TypeOK /\ Locked /\ Sessions

-----------------------------------------------------------------------------
(* What a handler holds at each stage *)

LEMMA WorkAt ==
    ASSUME TypeOK, NEW h \in Handlers
    PROVE  /\ At(h, "find") \/ At(h, "create") \/ At(h, "activate") \/ At(h, "coupon")
                \/ At(h, "revalidate") => handler[h].cart \in Users
           /\ At(h, "ready") => handler[h].cart \in Carts
           /\ At(h, "add") =>
                handler[h] \in [pc : {"add"}, cart : Carts, variant : Variants,
                                id : {0} \cup Ids, quantity : 1 .. Shelf]
           /\ At(h, "edit") => handler[h].row \in Row
           /\ At(h, "changeSet") =>
                handler[h] \in [pc : {"changeSet"}, id : Ids, target : Ids, quantity : 1 .. Shelf]
           /\ At(h, "changeRemove") => handler[h].id \in Ids
           /\ At(h, "repoint") =>
                handler[h] \in [pc : {"repoint"}, row : Row, variant : Variants, quantity : 1 .. Shelf]
           /\ At(h, "changeCap") =>
                handler[h] \in [pc : {"changeCap"}, id : Ids, quantity : 1 .. Shelf]
           /\ At(h, "merge") => handler[h].cart \in Users /\ handler[h].guest \in Guests
           /\ At(h, "copy") =>
                handler[h] \in [pc : {"copy"}, cart : Users, guest : Guests, todo : SUBSET Row]
           /\ At(h, "copyInto") =>
                handler[h] \in [pc : {"copyInto"}, cart : Users, guest : Guests, todo : SUBSET Row,
                                variant : Variants, id : {0} \cup Ids, quantity : 1 .. Shelf]
           /\ At(h, "cap") => handler[h].todo \subseteq Row
           /\ At(h, "checkout") \/ At(h, "locked") \/ At(h, "redeeming") =>
                handler[h] \in CheckoutWork
  BY DEF TypeOK, At, Idle, CartWork, CheckoutWork

\* A handler that gets a well-formed piece of work keeps the type.
LEMMA GotoTyped ==
    ASSUME TypeOK, NEW h \in Handlers, NEW w \in {Idle} \cup CartWork \cup CheckoutWork, Goto(h, w)
    PROVE  handler' \in [Handlers -> {Idle} \cup CartWork \cup CheckoutWork]
  BY DEF TypeOK, Goto

LEMMA LineFacts ==
    ASSUME TypeOK, NEW c \in Carts, NEW v \in Variants
    PROVE  /\ IdOf(c, v) \in {0} \cup Ids
           /\ QuantityOf(c, v) \in 0 .. Shelf
           /\ LineOf(c, v) # {} => IdOf(c, v) \in Ids /\ QuantityOf(c, v) \in 1 .. Shelf
           /\ Items(c) \subseteq Row
<1>1. LineOf(c, v) \subseteq Row /\ Items(c) \subseteq Row
  BY DEF TypeOK, CartTypeOK, LineOf, Items
<1>2. CASE LineOf(c, v) = {}
  BY <1>1, <1>2, CartsAssumption DEF IdOf, QuantityOf
<1>3. CASE LineOf(c, v) # {}
  <2> DEFINE r == CHOOSE x \in LineOf(c, v) : TRUE
  <2>1. r \in Row
    BY <1>1, <1>3
  <2>2. r.id \in Ids /\ r.quantity \in 1 .. Shelf
    BY <2>1 DEF Row
  <2>3. IdOf(c, v) = r.id /\ QuantityOf(c, v) = r.quantity
    BY <1>3 DEF IdOf, QuantityOf
  <2> QED
    BY <1>1, <1>3, <2>2, <2>3
<1> QED
  BY <1>2, <1>3

-----------------------------------------------------------------------------
(* Writes of rows keep the types *)

RowsOK == rows \subseteq Row /\ lastRow \in 0 .. MaxRows

LEMMA SetItemQuantityTyped ==
    ASSUME TypeOK, NEW id, NEW n \in 1 .. Shelf, SetItemQuantity(id, n)
    PROVE  RowsOK'
<1>1. ASSUME NEW r \in rows
      PROVE  (IF r.id = id THEN [r EXCEPT !.quantity = n] ELSE r) \in Row
  BY <1>1 DEF TypeOK, CartTypeOK, Row
<1> QED
  BY <1>1 DEF SetItemQuantity, RowsOK, TypeOK, CartTypeOK

LEMMA SetItemVariantTyped ==
    ASSUME TypeOK, NEW row \in Row, NEW v \in Variants, SetItemVariant(row, v)
    PROVE  RowsOK'
<1>1. ASSUME NEW r \in rows
      PROVE  (IF r.id = row.id THEN [r EXCEPT !.variant = v] ELSE r) \in Row
  BY <1>1 DEF TypeOK, CartTypeOK, Row
<1> QED
  BY <1>1 DEF SetItemVariant, RowsOK, TypeOK, CartTypeOK

LEMMA DeleteItemTyped ==
    ASSUME TypeOK, NEW id, DeleteItem(id)
    PROVE  RowsOK'
  BY DEF DeleteItem, RowsOK, TypeOK, CartTypeOK

LEMMA InsertItemTyped ==
    ASSUME TypeOK, NEW c \in Carts, NEW v \in Variants, NEW n \in 1 .. Shelf, InsertItem(c, v, n)
    PROVE  RowsOK'
<1>1. lastRow + 1 \in Ids
  BY CartsAssumption DEF InsertItem, TypeOK, CartTypeOK, Ids
<1>2. [id |-> lastRow + 1, cart |-> c, variant |-> v, quantity |-> n] \in Row
  BY <1>1 DEF Row
<1> QED
  BY <1>1, <1>2, CartsAssumption DEF InsertItem, RowsOK, TypeOK, CartTypeOK, Ids

LEMMA SetOrInsertTyped ==
    ASSUME TypeOK, NEW id, NEW c \in Carts, NEW v \in Variants, NEW n \in 1 .. Shelf,
           SetOrInsert(id, c, v, n)
    PROVE  RowsOK'
  BY InsertItemTyped, SetItemQuantityTyped DEF SetOrInsert

-----------------------------------------------------------------------------
(* Every step keeps the types *)

\* The variables of Carts, as a step of Carts leaves them.
CartsOK ==
    /\ CartTypeOK
    /\ handler \in [Handlers -> {Idle} \cup CartWork \cup CheckoutWork]

LEMMA ResolveTyped ==
    ASSUME TypeOK, NEW h \in Handlers, ResolveStep(h)
    PROVE  CartsOK'
<1> USE DEF CartsOK, CartTypeOK, KeepRows, KeepCarts, CartStatuses
<1>0. CartTypeOK /\ \A w \in {Idle} \cup CartWork \cup CheckoutWork :
        Goto(h, w) => handler' \in [Handlers -> {Idle} \cup CartWork \cup CheckoutWork]
  BY GotoTyped DEF TypeOK
<1>1. \A c \in Carts : [pc |-> "ready", cart |-> c] \in CartWork
  BY DEF CartWork
<1>2. \A c \in Users, p \in {"find", "create", "activate"} : [pc |-> p, cart |-> c] \in CartWork
  BY DEF CartWork
<1>3. Users \subseteq Carts /\ Guests \subseteq Carts
  BY DEF Carts
<1>4. ASSUME NEW c \in Carts, ResolveActiveCart(h, c)
      PROVE  CartsOK'
  BY <1>0, <1>1, <1>4 DEF ResolveActiveCart
<1>5. ASSUME NEW c \in Carts, CreateGuestCart(h, c)
      PROVE  CartsOK'
  BY <1>0, <1>1, <1>5 DEF CreateGuestCart
<1>6. ASSUME NEW c \in Carts, MissActiveCart(h, c)
      PROVE  CartsOK'
  BY <1>0, <1>2, <1>6 DEF MissActiveCart
<1>7. ASSUME ClearCart(h)
      PROVE  CartsOK'
  <2>1. handler[h].cart \in Users
    BY <1>7, WorkAt DEF ClearCart
  <2>2. handler' \in [Handlers -> {Idle} \cup CartWork \cup CheckoutWork]
    BY <1>0, <1>2, <1>7, <2>1 DEF ClearCart
  <2>3. rows' \subseteq Row /\ lastRow' = lastRow
    BY <1>0, <1>7 DEF ClearCart
  <2> QED
    BY <1>0, <1>7, <2>2, <2>3 DEF ClearCart
<1>8. ASSUME CreateUserCart(h)
      PROVE  CartsOK'
  <2>1. handler[h].cart \in Users
    BY <1>8, WorkAt DEF CreateUserCart
  <2> QED
    BY <1>0, <1>1, <1>3, <1>8, <2>1 DEF CreateUserCart
<1>9. ASSUME ActivateCart(h)
      PROVE  CartsOK'
  <2>1. handler[h].cart \in Users
    BY <1>9, WorkAt DEF ActivateCart
  <2> QED
    BY <1>0, <1>1, <1>3, <1>9, <2>1 DEF ActivateCart
<1> QED
  BY <1>4, <1>5, <1>6, <1>7, <1>8, <1>9 DEF ResolveStep

\* A step that writes rows, moves its handler and leaves the carts alone.
LEMMA RowStepTyped ==
    ASSUME TypeOK, NEW h \in Handlers, NEW w \in {Idle} \cup CartWork \cup CheckoutWork,
           Goto(h, w), RowsOK', KeepCarts, UNCHANGED cartLock
    PROVE  CartsOK'
  BY GotoTyped DEF CartsOK, CartTypeOK, TypeOK, RowsOK, KeepCarts

LEMMA UnchangedRows ==
    ASSUME TypeOK, KeepRows
    PROVE  RowsOK'
  BY DEF TypeOK, CartTypeOK, RowsOK, KeepRows

LEMMA EditTyped ==
    ASSUME TypeOK, NEW h \in Handlers, EditStep(h)
    PROVE  CartsOK'
<1> USE CartsAssumption
<1>0. Users \subseteq Carts /\ Idle \in {Idle}
  BY DEF Carts
<1>1. ASSUME NEW v \in Variants, NEW n \in 1 .. Shelf, ReadForAdd(h, v, n)
      PROVE  CartsOK'
  <2> DEFINE c == handler[h].cart
             w == [pc |-> "add", cart |-> c, variant |-> v, id |-> IdOf(c, v),
                   quantity |-> QuantityOf(c, v) + n]
  <2>1. c \in Carts
    BY <1>1, WorkAt DEF ReadForAdd
  <2>2. IdOf(c, v) \in {0} \cup Ids /\ QuantityOf(c, v) + n \in 1 .. Shelf
    BY <1>1, <2>1, LineFacts DEF ReadForAdd
  <2>3. w \in CartWork
    BY <2>1, <2>2 DEF CartWork
  <2>4. Goto(h, w)
    BY <1>1 DEF ReadForAdd
  <2> HIDE DEF w
  <2> QED
    BY <1>1, <2>3, <2>4, RowStepTyped, UnchangedRows DEF ReadForAdd
<1>2. ASSUME WriteAdd(h)
      PROVE  CartsOK'
  <2>1. handler[h] \in [pc : {"add"}, cart : Carts, variant : Variants,
                        id : {0} \cup Ids, quantity : 1 .. Shelf]
    BY <1>2, WorkAt DEF WriteAdd
  <2>2. RowsOK'
    BY <1>2, <2>1, SetOrInsertTyped DEF WriteAdd
  <2> QED
    BY <1>0, <1>2, <2>2, RowStepTyped DEF WriteAdd
<1>3. ASSUME NEW r \in rows, ReadItem(h, r)
      PROVE  CartsOK'
  <2>1. [pc |-> "edit", row |-> r] \in CartWork
    BY <1>3 DEF CartWork, TypeOK, CartTypeOK
  <2> QED
    BY <1>3, <2>1, RowStepTyped, UnchangedRows DEF ReadItem
<1>4. ASSUME NEW n \in 1 .. Shelf, UpdateItemQuantity(h, n)
      PROVE  CartsOK'
  BY <1>0, <1>4, SetItemQuantityTyped, RowStepTyped DEF UpdateItemQuantity
<1>5. ASSUME RemoveItem(h)
      PROVE  CartsOK'
  BY <1>0, <1>5, DeleteItemTyped, RowStepTyped DEF RemoveItem
<1>6. ASSUME NEW v \in Variants, NEW n \in 1 .. Shelf, ReadChangeTarget(h, v, n)
      PROVE  CartsOK'
  <2> DEFINE row == handler[h].row
             c == row.cart
             repoint == [pc |-> "repoint", row |-> row, variant |-> v,
                         quantity |-> Lesser(row.quantity, n)]
             merge == [pc |-> "changeSet", id |-> row.id, target |-> IdOf(c, v),
                       quantity |-> Lesser(QuantityOf(c, v) + row.quantity, n)]
  <2>1. row \in Row
    BY <1>6, WorkAt DEF ReadChangeTarget
  <2>2. c \in Carts /\ row.id \in Ids /\ row.quantity \in 1 .. Shelf
    BY <2>1 DEF Row
  <2>3. repoint \in CartWork
    <3>1. Lesser(row.quantity, n) \in 1 .. Shelf
      BY <2>2 DEF Lesser
    <3> QED
      BY <2>1, <3>1 DEF CartWork
  <2>4. LineOf(c, v) # {} => merge \in CartWork
    <3>1. SUFFICES ASSUME LineOf(c, v) # {}
                   PROVE  merge \in CartWork
      OBVIOUS
    <3>2. IdOf(c, v) \in Ids /\ QuantityOf(c, v) \in 1 .. Shelf
      BY <2>2, <3>1, LineFacts
    <3>3. Lesser(QuantityOf(c, v) + row.quantity, n) \in 1 .. Shelf
      BY <2>2, <3>2 DEF Lesser
    <3> QED
      BY <2>2, <3>2, <3>3 DEF CartWork
  <2>5. Goto(h, IF LineOf(c, v) = {} THEN repoint ELSE merge)
    BY <1>6 DEF ReadChangeTarget
  <2> HIDE DEF repoint, merge
  <2> QED
    BY <1>6, <2>3, <2>4, <2>5, RowStepTyped, UnchangedRows DEF ReadChangeTarget
<1>7. ASSUME SetTargetQuantity(h)
      PROVE  CartsOK'
  <2>1. handler[h] \in [pc : {"changeSet"}, id : Ids, target : Ids, quantity : 1 .. Shelf]
    BY <1>7, WorkAt DEF SetTargetQuantity
  <2>2. RowsOK'
    BY <1>7, <2>1, SetItemQuantityTyped DEF SetTargetQuantity
  <2>3. [pc |-> "changeRemove", id |-> handler[h].id] \in CartWork
    BY <2>1 DEF CartWork
  <2> QED
    BY <1>7, <2>2, <2>3, RowStepTyped DEF SetTargetQuantity
<1>8. ASSUME RemoveMergedItem(h)
      PROVE  CartsOK'
  BY <1>0, <1>8, DeleteItemTyped, RowStepTyped DEF RemoveMergedItem
<1>9. ASSUME RepointItem(h)
      PROVE  CartsOK'
  <2> DEFINE w == handler[h]
             cap == [pc |-> "changeCap", id |-> w.row.id, quantity |-> w.quantity]
  <2>1. w \in [pc : {"repoint"}, row : Row, variant : Variants, quantity : 1 .. Shelf]
    BY <1>9, WorkAt DEF RepointItem
  <2>2. RowsOK'
    BY <1>9, <2>1, SetItemVariantTyped DEF RepointItem
  <2>3. w.row.id \in Ids
    BY <2>1 DEF Row
  <2>4. cap \in CartWork
    BY <2>1, <2>3 DEF CartWork
  <2>5. Goto(h, IF w.quantity = w.row.quantity THEN Idle ELSE cap)
    BY <1>9 DEF RepointItem
  <2> HIDE DEF cap
  <2> QED
    BY <1>0, <1>9, <2>2, <2>4, <2>5, RowStepTyped DEF RepointItem
<1>10. ASSUME CapRepointedItem(h)
       PROVE  CartsOK'
  <2>1. handler[h] \in [pc : {"changeCap"}, id : Ids, quantity : 1 .. Shelf]
    BY <1>10, WorkAt DEF CapRepointedItem
  <2>2. RowsOK'
    BY <1>10, <2>1, SetItemQuantityTyped DEF CapRepointedItem
  <2> QED
    BY <1>0, <1>10, <2>2, RowStepTyped DEF CapRepointedItem
<1>11. ASSUME PreviewCoupon(h)
       PROVE  CartsOK'
  <2>1. [pc |-> "coupon", cart |-> handler[h].cart] \in CartWork
    BY <1>11 DEF PreviewCoupon, CartWork
  <2> QED
    BY <1>11, <2>1, RowStepTyped, UnchangedRows DEF PreviewCoupon
<1>12. ASSUME NEW p, NEW set \in BOOLEAN, SetCouponCode(h, p, set)
       PROVE  CartsOK'
  <2>1. RowsOK'
    BY <1>12, UnchangedRows DEF SetCouponCode
  <2>2. handler' \in [Handlers -> {Idle} \cup CartWork \cup CheckoutWork]
    BY <1>12, <1>0, GotoTyped DEF SetCouponCode
  <2> QED
    BY <1>12, <2>1, <2>2 DEF SetCouponCode, CartsOK, CartTypeOK, TypeOK, RowsOK
<1> QED
  BY <1>1, <1>2, <1>3, <1>4, <1>5, <1>6, <1>7, <1>8, <1>9, <1>10, <1>11, <1>12
     DEF EditStep, ApplyCoupon, RemoveCoupon

LEMMA MergeTyped ==
    ASSUME TypeOK, NEW h \in Handlers, MergeStep(h)
    PROVE  CartsOK'
<1> USE CartsAssumption
<1>0. Users \subseteq Carts /\ Guests \subseteq Carts /\ Idle \in {Idle}
  BY DEF Carts
<1>1. ASSUME NEW g \in Guests, FindGuestCart(h, g)
      PROVE  CartsOK'
  <2>1. [pc |-> "merge", cart |-> handler[h].cart, guest |-> g] \in CartWork
    BY <1>1 DEF FindGuestCart, CartWork
  <2> QED
    BY <1>1, <2>1, RowStepTyped, UnchangedRows DEF FindGuestCart
<1>2. ASSUME FindGuestItems(h)
      PROVE  CartsOK'
  <2> DEFINE w == [pc |-> "copy", cart |-> handler[h].cart, guest |-> handler[h].guest,
                   todo |-> Items(handler[h].guest)]
  <2>1. handler[h].cart \in Users /\ handler[h].guest \in Guests
    BY <1>2, WorkAt DEF FindGuestItems
  <2>2. Items(handler[h].guest) \subseteq Row
    BY DEF Items, TypeOK, CartTypeOK
  <2>3. w \in CartWork
    BY <2>1, <2>2 DEF CartWork
  <2>4. Goto(h, w)
    BY <1>2 DEF FindGuestItems
  <2> HIDE DEF w
  <2> QED
    BY <1>2, <2>3, <2>4, RowStepTyped, UnchangedRows DEF FindGuestItems
<1>3. ASSUME NEW item \in Todo(h), FindMergeTarget(h, item)
      PROVE  CartsOK'
  <2> DEFINE w == handler[h]
             v == item.variant
             n == MergedQuantity(QuantityOf(w.cart, v), item.quantity)
             next == [pc |-> "copyInto", cart |-> w.cart, guest |-> w.guest,
                      todo |-> w.todo \ {item}, variant |-> v, id |-> IdOf(w.cart, v),
                      quantity |-> n]
  <2>1. w \in [pc : {"copy"}, cart : Users, guest : Guests, todo : SUBSET Row]
    BY <1>3, WorkAt DEF FindMergeTarget
  <2>2. item \in Row
    BY <1>3, <2>1 DEF FindMergeTarget
  <2>3. v \in Variants /\ item.quantity \in 1 .. Shelf
    BY <2>2 DEF Row
  <2>4. IdOf(w.cart, v) \in {0} \cup Ids /\ QuantityOf(w.cart, v) \in 0 .. Shelf
    BY <1>0, <2>1, <2>3, LineFacts
  <2>5. n \in 1 .. Shelf
    BY <2>3, <2>4 DEF MergedQuantity
  <2>6. next \in CartWork
    BY <2>1, <2>3, <2>4, <2>5 DEF CartWork
  <2>7. Goto(h, next)
    BY <1>3 DEF FindMergeTarget
  <2> HIDE DEF next
  <2> QED
    BY <1>3, <2>6, <2>7, RowStepTyped, UnchangedRows DEF FindMergeTarget
<1>4. ASSUME CopyGuestItem(h)
      PROVE  CartsOK'
  <2> DEFINE w == handler[h]
             next == [pc |-> "copy", cart |-> w.cart, guest |-> w.guest, todo |-> w.todo]
  <2>1. w \in [pc : {"copyInto"}, cart : Users, guest : Guests, todo : SUBSET Row,
               variant : Variants, id : {0} \cup Ids, quantity : 1 .. Shelf]
    BY <1>4, WorkAt DEF CopyGuestItem
  <2>2. RowsOK'
    BY <1>0, <1>4, <2>1, SetOrInsertTyped DEF CopyGuestItem
  <2>3. next \in CartWork
    BY <2>1 DEF CartWork
  <2>4. Goto(h, next)
    BY <1>4 DEF CopyGuestItem
  <2> HIDE DEF next
  <2> QED
    BY <1>4, <2>2, <2>3, <2>4, RowStepTyped DEF CopyGuestItem
<1>5. ASSUME MarkCartMerged(h)
      PROVE  CartsOK'
  <2>1. handler[h] \in [pc : {"copy"}, cart : Users, guest : Guests, todo : SUBSET Row]
    BY <1>5, WorkAt DEF MarkCartMerged
  <2>2. [pc |-> "revalidate", cart |-> handler[h].cart] \in CartWork
    BY <2>1 DEF CartWork
  <2>3. handler' \in [Handlers -> {Idle} \cup CartWork \cup CheckoutWork]
    BY <1>5, <2>2, GotoTyped DEF MarkCartMerged
  <2>4. status' \in [Carts -> CartStatuses \cup {"NONE", "ABSENT"}]
    BY <1>5 DEF MarkCartMerged, TypeOK, CartTypeOK, CartStatuses
  <2> QED
    BY <1>5, <2>3, <2>4 DEF MarkCartMerged, CartsOK, CartTypeOK, TypeOK, KeepRows
<1>6. ASSUME ReadMergedItems(h)
      PROVE  CartsOK'
  <2>1. [pc |-> "cap", todo |-> Items(handler[h].cart)] \in CartWork
    BY DEF CartWork, Items, TypeOK, CartTypeOK
  <2> QED
    BY <1>6, <2>1, RowStepTyped, UnchangedRows DEF ReadMergedItems
<1>7. ASSUME NEW item \in Todo(h), NEW n \in 0 .. Shelf, CapMergedItem(h, item, n)
      PROVE  CartsOK'
  <2>1. handler[h].todo \subseteq Row
    BY <1>7, WorkAt DEF CapMergedItem
  <2>2. [pc |-> "cap", todo |-> handler[h].todo \ {item}] \in CartWork
    BY <2>1 DEF CartWork
  <2>3. RowsOK'
    <3>1. CASE n = 0
      BY <1>7, <3>1, DeleteItemTyped DEF CapMergedItem
    <3>2. CASE n # 0 /\ item.quantity > n
      <4>1. n \in 1 .. Shelf
        BY <3>2
      <4> QED
        BY <1>7, <3>2, <4>1, SetItemQuantityTyped DEF CapMergedItem
    <3>3. CASE n # 0 /\ ~(item.quantity > n)
      BY <1>7, <3>3, UnchangedRows DEF CapMergedItem
    <3> QED
      BY <3>1, <3>2, <3>3
  <2> QED
    BY <1>7, <2>2, <2>3, RowStepTyped DEF CapMergedItem
<1>8. ASSUME EndMerge(h)
      PROVE  CartsOK'
  BY <1>0, <1>8, RowStepTyped, UnchangedRows DEF EndMerge
<1> QED
  BY <1>1, <1>2, <1>3, <1>4, <1>5, <1>6, <1>7, <1>8 DEF MergeStep

LEMMA SessionsTyped ==
    ASSUME TypeOK, CountSessions
    PROVE  sessions' \in [Carts -> Nat]
  BY DEF TypeOK, CountSessions

LEMMA ShopperTyped ==
    ASSUME TypeOK, NEW h \in Handlers, ShopperStep(h)
    PROVE  TypeOK'
<1>1. CartsOK'
  BY ResolveTyped, EditTyped, MergeTyped DEF ShopperStep, CartStep
<1>2. sessions' \in [Carts -> Nat]
  BY SessionsTyped DEF ShopperStep
<1> QED
  BY <1>1, <1>2 DEF ShopperStep, TypeOK, CartsOK, couponVars

\* A transaction that moves on keeps its cart, its lines and its code.
LEMMA PcTyped ==
    ASSUME TypeOK, NEW h \in Handlers, handler[h] \in CheckoutWork,
           NEW p \in {"checkout", "locked", "redeeming"},
           handler' = [handler EXCEPT ![h].pc = p]
    PROVE  handler' \in [Handlers -> {Idle} \cup CartWork \cup CheckoutWork]
<1>1. [handler[h] EXCEPT !.pc = p] \in CheckoutWork
  BY DEF CheckoutWork
<1> QED
  BY <1>1 DEF TypeOK

LEMMA CheckoutTyped ==
    ASSUME TypeOK, NEW h \in Handlers, CheckoutStep(h)
    PROVE  TypeOK'
<1> USE DEF KeepRows, KeepCarts, couponVars
<1>1. ASSUME ReadBag(h)
      PROVE  TypeOK'
  <2> DEFINE c == handler[h].cart
             w == [pc |-> "checkout", cart |-> c, lines |-> {r.id : r \in Items(c)},
                   code |-> c \in Users /\ code[c]]
  <2>1. c \in Carts
    BY <1>1, WorkAt DEF ReadBag
  <2>2. {r.id : r \in Items(c)} \subseteq 1 .. MaxRows
    BY DEF TypeOK, CartTypeOK, Items, Row, Ids
  <2>3. (c \in Users /\ code[c]) \in BOOLEAN
    BY <2>1 DEF TypeOK, CartTypeOK
  <2>4. w \in CheckoutWork
    BY <2>1, <2>2, <2>3 DEF CheckoutWork
  <2>5. Goto(h, w)
    BY <1>1 DEF ReadBag
  <2> HIDE DEF w
  <2>6. handler' \in [Handlers -> {Idle} \cup CartWork \cup CheckoutWork]
    BY <2>4, <2>5, GotoTyped
  <2> QED
    BY <1>1, <2>6 DEF ReadBag, TypeOK, CartTypeOK
<1>2. ASSUME LockCart(h)
      PROVE  TypeOK'
  <2>1. handler[h] \in CheckoutWork
    BY <1>2, WorkAt DEF LockCart
  <2>2. handler' \in [Handlers -> {Idle} \cup CartWork \cup CheckoutWork]
    BY <1>2, <2>1, PcTyped DEF LockCart
  <2>3. cartLock' \in [Carts -> Handlers \cup {Nobody}]
    BY <1>2, <2>1 DEF LockCart, TypeOK, CartTypeOK
  <2> QED
    BY <1>2, <2>2, <2>3 DEF LockCart, TypeOK, CartTypeOK
<1>3. ASSUME ValidateAndLock(h)
      PROVE  TypeOK'
  <2>1. handler[h] \in CheckoutWork
    BY <1>3, WorkAt DEF ValidateAndLock
  <2>2. handler' \in [Handlers -> {Idle} \cup CartWork \cup CheckoutWork]
    BY <1>3, <2>1, PcTyped DEF ValidateAndLock
  <2> QED
    BY <1>3, <2>2 DEF ValidateAndLock, TypeOK, CartTypeOK
<1>4. ASSUME PlaceOrder(h)
      PROVE  TypeOK'
  <2> DEFINE w == handler[h]
             o == [cart |-> w.cart, lines |-> w.lines, redeems |-> w.code]
  <2>1. w \in CheckoutWork
    BY <1>4, WorkAt DEF PlaceOrder
  <2>2. o \in Order
    BY <2>1 DEF CheckoutWork, Order
  <2>3. orders' \in Seq(Order)
    <3>1. orders' = Append(orders, o)
      BY <1>4 DEF PlaceOrder
    <3> HIDE DEF o
    <3> QED
      BY <2>2, <3>1 DEF TypeOK
  <2>4. w.cart \in Carts
    BY <2>1 DEF CheckoutWork
  <2>5. handler' \in [Handlers -> {Idle} \cup CartWork \cup CheckoutWork]
    BY <1>4, GotoTyped DEF PlaceOrder
  <2>6. /\ status' \in [Carts -> CartStatuses \cup {"NONE", "ABSENT"}]
        /\ code' \in [Carts -> BOOLEAN]
        /\ cartLock' \in [Carts -> Handlers \cup {Nobody}]
    BY <1>4, <2>4 DEF PlaceOrder, TypeOK, CartTypeOK, CartStatuses
  <2> QED
    BY <1>4, <2>3, <2>5, <2>6 DEF PlaceOrder, TypeOK, CartTypeOK
<1> QED
  BY <1>1, <1>2, <1>3, <1>4 DEF CheckoutStep

LEMMA FailTyped ==
    ASSUME TypeOK, NEW h \in Handlers, FailCheckout(h)
    PROVE  TypeOK'
<1>1. handler' \in [Handlers -> {Idle} \cup CartWork \cup CheckoutWork]
  BY GotoTyped DEF FailCheckout, FailRequest
<1>2. cartLock' \in [Carts -> Handlers \cup {Nobody}]
  BY DEF FailCheckout, FailRequest, TypeOK, CartTypeOK
<1> QED
  BY <1>1, <1>2 DEF FailCheckout, FailRequest, TypeOK, CartTypeOK, KeepRows, KeepCarts

LEMMA AdminTyped ==
    ASSUME TypeOK, AdminStep
    PROVE  TypeOK'
<1>1. coupon' \in Coupon \cup {Deleted}
  <2>1. ASSUME NEW a \in BOOLEAN, SetCouponActive(a)
        PROVE  coupon' \in Coupon
    <3>1. coupon \in Coupon /\ coupon' = [coupon EXCEPT !.active = a]
      BY <2>1 DEF SetCouponActive, TypeOK
    <3> QED
      BY <3>1 DEF Coupon
  <2>2. ASSUME NEW m \in 1 .. MaxLimit, NEW n \in 1 .. MaxLimit, UpdateCoupon(m, n)
        PROVE  coupon' \in Coupon
    <3>1. coupon \in Coupon
          /\ coupon' = [coupon EXCEPT !.usageLimit = m, !.perUserLimit = n]
      BY <2>2 DEF UpdateCoupon, TypeOK
    <3> QED
      BY <3>1 DEF Coupon
  <2> QED
    BY <2>1, <2>2 DEF AdminStep, DeleteCoupon
<1>2. UNCHANGED <<cartVars, couponLock, orders, sessions>>
  BY DEF AdminStep, SetCouponActive, UpdateCoupon, DeleteCoupon
<1> QED
  BY <1>1, <1>2 DEF TypeOK, CartTypeOK, cartVars

LEMMA InitTyped ==
    ASSUME Init
    PROVE  TypeOK
<1>1. CartTypeOK
  <2>1. lastRow \in 0 .. MaxRows
    BY CartsAssumption, FS_CardinalityType DEF Init, CartInit
  <2>2. PICK scene \in Scenes :
          /\ status = [c \in Carts |-> IF c \notin scene THEN "ABSENT"
                                      ELSE IF c \in Returning THEN "ACTIVE" ELSE "NONE"]
          /\ code = [c \in Carts |-> c \in Returning \cap scene]
          /\ rows \in SUBSET [id : Ids, cart : Returning \cap scene,
                             variant : Variants, quantity : {1}]
    BY DEF Init, CartInit
  <2>3. rows \subseteq Row
    BY <2>2, CartsAssumption DEF Row, Carts
  <2>4. status \in [Carts -> CartStatuses \cup {"NONE", "ABSENT"}]
    BY <2>2 DEF CartStatuses
  <2>5. code \in [Carts -> BOOLEAN]
    BY <2>2
  <2> QED
    BY <2>1, <2>3, <2>4, <2>5 DEF CartTypeOK, Init, CartInit
<1>2. handler \in [Handlers -> {Idle} \cup CartWork \cup CheckoutWork]
  BY DEF Init, CartInit
<1>3. sessions \in [Carts -> Nat]
  BY DEF Init
<1>4. orders \in Seq(Order)
  BY DEF Init
<1> QED
  BY <1>1, <1>2, <1>3, <1>4 DEF Init, TypeOK

LEMMA StepTyped ==
    ASSUME TypeOK, [Next]_vars
    PROVE  TypeOK'
<1>1. CASE UNCHANGED vars
  BY <1>1 DEF vars, cartVars, TypeOK, CartTypeOK
<1>2. CASE Next
  BY <1>2, ShopperTyped, CheckoutTyped, FailTyped, AdminTyped DEF Next
<1> QED
  BY <1>1, <1>2

(* Whatever requests interleave, the rows, the locks, the orders and the     *)
(* coupon keep their types, and no line holds more than the shelf ever had.  *)
THEOREM TypeCorrect == Spec => []TypeOK
<1>1. Init => TypeOK
  BY InitTyped
<1>2. TypeOK /\ [Next]_vars => TypeOK'
  BY StepTyped
<1> QED
  BY <1>1, <1>2, PTL DEF Spec

-----------------------------------------------------------------------------
(* What a step of a bag cannot do to a checkout *)

LEMMA ShopperFacts ==
    ASSUME TypeOK, NEW h \in Handlers, ShopperStep(h)
    PROVE  /\ cartLock' = cartLock
           /\ ~At(h, "locked")' /\ ~At(h, "redeeming")'
           /\ \A g \in Handlers \ {h} : handler'[g] = handler[g]
           /\ \A c \in Carts : status[c] = "ACTIVE" /\ cartLock[c] # Nobody => status'[c] = "ACTIVE"
<1> DEFINE Facts == /\ cartLock' = cartLock
                    /\ handler'[h].pc \notin {"locked", "redeeming"}
                    /\ \A g \in Handlers \ {h} : handler'[g] = handler[g]
                    /\ \A c \in Carts : status[c] = "ACTIVE" /\ cartLock[c] # Nobody
                         => status'[c] = "ACTIVE"
<1>0. ASSUME NEW w, Goto(h, w), w.pc \notin {"locked", "redeeming"}
      PROVE  /\ handler'[h].pc \notin {"locked", "redeeming"}
             /\ \A g \in Handlers \ {h} : handler'[g] = handler[g]
  BY <1>0 DEF Goto, TypeOK
<1>1. ASSUME ResolveStep(h)
      PROVE  Facts
  <2> USE DEF TypeOK, CartTypeOK
  <2>1. ASSUME NEW c \in Carts, ResolveActiveCart(h, c) \/ MissActiveCart(h, c)
        PROVE  Facts
    BY <2>1, <1>0 DEF ResolveActiveCart, MissActiveCart, KeepCarts
  <2>2. ASSUME NEW c \in Carts, CreateGuestCart(h, c)
        PROVE  Facts
    BY <2>2, <1>0 DEF CreateGuestCart
  <2>3. ASSUME ClearCart(h)
        PROVE  Facts
    BY <2>3, <1>0 DEF ClearCart, KeepCarts
  <2>4. ASSUME CreateUserCart(h)
        PROVE  Facts
    BY <2>4, <1>0 DEF CreateUserCart
  <2>5. ASSUME ActivateCart(h)
        PROVE  Facts
    BY <2>5, <1>0 DEF ActivateCart
  <2> QED
    BY <1>1, <2>1, <2>2, <2>3, <2>4, <2>5 DEF ResolveStep
<1>2. ASSUME EditStep(h)
      PROVE  Facts
  <2>1. ASSUME NEW v \in Variants, NEW n \in 1 .. Shelf, ReadForAdd(h, v, n)
        PROVE  Facts
    BY <2>1, <1>0 DEF ReadForAdd, KeepCarts
  <2>2. ASSUME WriteAdd(h) \/ RemoveItem(h) \/ RemoveMergedItem(h) \/ CapRepointedItem(h)
        PROVE  Facts
    BY <2>2, <1>0 DEF WriteAdd, RemoveItem, RemoveMergedItem, CapRepointedItem, KeepCarts, Idle
  <2>3. ASSUME NEW r \in rows, ReadItem(h, r)
        PROVE  Facts
    BY <2>3, <1>0 DEF ReadItem, KeepCarts
  <2>4. ASSUME NEW n \in 1 .. Shelf, UpdateItemQuantity(h, n)
        PROVE  Facts
    BY <2>4, <1>0 DEF UpdateItemQuantity, KeepCarts, Idle
  <2>5. ASSUME NEW v \in Variants, NEW n \in 1 .. Shelf, ReadChangeTarget(h, v, n)
        PROVE  Facts
    BY <2>5, <1>0 DEF ReadChangeTarget, KeepCarts
  <2>6. ASSUME SetTargetQuantity(h)
        PROVE  Facts
    BY <2>6, <1>0 DEF SetTargetQuantity, KeepCarts
  <2>7. ASSUME RepointItem(h)
        PROVE  Facts
    BY <2>7, <1>0 DEF RepointItem, KeepCarts, Idle
  <2>8. ASSUME PreviewCoupon(h)
        PROVE  Facts
    BY <2>8, <1>0 DEF PreviewCoupon, KeepCarts
  <2>9. ASSUME NEW p, NEW set, SetCouponCode(h, p, set)
        PROVE  Facts
    BY <2>9, <1>0 DEF SetCouponCode, Idle
  <2> QED
    BY <1>2, <2>1, <2>2, <2>3, <2>4, <2>5, <2>6, <2>7, <2>8, <2>9
       DEF EditStep, ApplyCoupon, RemoveCoupon
<1>3. ASSUME MergeStep(h)
      PROVE  Facts
  <2>1. ASSUME NEW g \in Guests, FindGuestCart(h, g)
        PROVE  Facts
    BY <2>1, <1>0 DEF FindGuestCart, KeepCarts
  <2>2. ASSUME FindGuestItems(h) \/ ReadMergedItems(h)
        PROVE  Facts
    BY <2>2, <1>0 DEF FindGuestItems, ReadMergedItems, KeepCarts
  <2>3. ASSUME NEW r \in Todo(h), FindMergeTarget(h, r)
        PROVE  Facts
    BY <2>3, <1>0 DEF FindMergeTarget, KeepCarts
  <2>4. ASSUME CopyGuestItem(h)
        PROVE  Facts
    BY <2>4, <1>0 DEF CopyGuestItem, KeepCarts
  <2>5. ASSUME MarkCartMerged(h)
        PROVE  Facts
    BY <2>5, <1>0 DEF MarkCartMerged, TypeOK, CartTypeOK
  <2>6. ASSUME NEW r \in Todo(h), NEW n \in 0 .. Shelf, CapMergedItem(h, r, n)
        PROVE  Facts
    BY <2>6, <1>0 DEF CapMergedItem, KeepCarts
  <2>7. ASSUME EndMerge(h)
        PROVE  Facts
    BY <2>7, <1>0 DEF EndMerge, KeepCarts, Idle
  <2> QED
    BY <1>3, <2>1, <2>2, <2>3, <2>4, <2>5, <2>6, <2>7 DEF MergeStep
<1> QED
  BY <1>1, <1>2, <1>3 DEF ShopperStep, CartStep, At

-----------------------------------------------------------------------------
(* Counting orders *)

LEMMA FiniteOrders ==
    ASSUME TypeOK
    PROVE  /\ IsFiniteSet(Redemptions) /\ Cardinality(Redemptions) \in Nat
           /\ \A c : IsFiniteSet(OrdersOf(c)) /\ Cardinality(OrdersOf(c)) \in Nat
           /\ \A c : IsFiniteSet(RedemptionsOf(c)) /\ Cardinality(RedemptionsOf(c)) \in Nat
<1>1. DOMAIN orders = 1 .. Len(orders) /\ Len(orders) \in Nat
  BY DEF TypeOK
<1>2. IsFiniteSet(DOMAIN orders)
  BY <1>1, FS_Interval
<1>3. /\ Redemptions \subseteq DOMAIN orders
      /\ \A c : OrdersOf(c) \subseteq DOMAIN orders
      /\ \A c : RedemptionsOf(c) \subseteq DOMAIN orders
  BY DEF Redemptions, OrdersOf, RedemptionsOf
<1> QED
  BY <1>2, <1>3, FS_Subset, FS_CardinalityType

\* A new order adds one to the orders of its cart, and to the redemptions when
\* it has the coupon.
LEMMA OneMoreOrder ==
    ASSUME TypeOK, NEW o \in Order, orders' = Append(orders, o)
    PROVE  /\ \A c : c # o.cart => OrdersOf(c)' = OrdersOf(c)
           /\ Cardinality(OrdersOf(o.cart)') = Cardinality(OrdersOf(o.cart)) + 1
           /\ ~o.redeems => Redemptions' = Redemptions /\ \A c : RedemptionsOf(c)' = RedemptionsOf(c)
           /\ o.redeems => Cardinality(Redemptions') = Cardinality(Redemptions) + 1
           /\ o.redeems => Cardinality(RedemptionsOf(o.cart)') = Cardinality(RedemptionsOf(o.cart)) + 1
           /\ \A c : c # o.cart => RedemptionsOf(c)' = RedemptionsOf(c)
<1> DEFINE n == Len(orders) + 1
<1>1. /\ Len(orders) \in Nat
      /\ DOMAIN orders = 1 .. Len(orders)
      /\ DOMAIN orders' = 1 .. n
      /\ orders'[n] = o
      /\ \A i \in DOMAIN orders : orders'[i] = orders[i]
  BY DEF TypeOK
<1>2. n \notin DOMAIN orders /\ DOMAIN orders' = DOMAIN orders \cup {n}
  BY <1>1
<1>3. \A c : OrdersOf(c)' = IF c = o.cart THEN OrdersOf(c) \cup {n} ELSE OrdersOf(c)
  BY <1>1, <1>2 DEF OrdersOf
<1>4. o.redeems \in BOOLEAN
  BY DEF Order
<1>5. Redemptions' = IF o.redeems THEN Redemptions \cup {n} ELSE Redemptions
  <2>1. CASE o.redeems
    BY <1>1, <1>2, <2>1 DEF Redemptions
  <2>2. CASE ~o.redeems
    BY <1>1, <1>2, <2>2 DEF Redemptions
  <2> QED
    BY <2>1, <2>2
<1>6. \A c : RedemptionsOf(c)' =
               IF o.redeems /\ c = o.cart THEN RedemptionsOf(c) \cup {n} ELSE RedemptionsOf(c)
  <2>0. Redemptions \subseteq DOMAIN orders
    BY DEF Redemptions
  <2>1. CASE o.redeems
    BY <1>1, <1>2, <1>5, <2>0, <2>1 DEF RedemptionsOf
  <2>2. CASE ~o.redeems
    BY <1>1, <1>2, <1>5, <2>0, <2>2 DEF RedemptionsOf
  <2> QED
    BY <2>1, <2>2
<1>7. n \notin Redemptions /\ n \notin OrdersOf(o.cart) /\ n \notin RedemptionsOf(o.cart)
  BY <1>2 DEF Redemptions, OrdersOf, RedemptionsOf
<1> QED
  BY <1>3, <1>4, <1>5, <1>6, <1>7, FiniteOrders, FS_AddElement

LEMMA SameOrders ==
    ASSUME UNCHANGED orders
    PROVE  /\ Redemptions' = Redemptions
           /\ \A c : OrdersOf(c)' = OrdersOf(c) /\ RedemptionsOf(c)' = RedemptionsOf(c)
  BY DEF Redemptions, OrdersOf, RedemptionsOf

\* What PlaceOrder adds.
LEMMA PlacedOrder ==
    ASSUME TypeOK, NEW h \in Handlers, PlaceOrder(h)
    PROVE  \E o \in Order : /\ orders' = Append(orders, o)
                           /\ o.cart = handler[h].cart
                           /\ o.redeems = handler[h].code
                           /\ o.cart \in Carts
<1> DEFINE o == [cart |-> handler[h].cart, lines |-> handler[h].lines, redeems |-> handler[h].code]
<1>1. handler[h] \in CheckoutWork
  BY WorkAt DEF PlaceOrder
<1>2. o \in Order /\ o.cart \in Carts
  BY <1>1 DEF CheckoutWork, Order
<1> QED
  BY <1>2 DEF PlaceOrder

-----------------------------------------------------------------------------
(* The locks *)

\* Only the holder of the coupon's lock is past the validation.
LEMMA OneRedeemer ==
    ASSUME Locked, NEW g \in Handlers, NEW h \in Handlers, At(g, "redeeming"), At(h, "redeeming")
    PROVE  g = h
  BY DEF Locked

LEMMA LockedByShopper ==
    ASSUME TypeOK, Locked, NEW h \in Handlers, ShopperStep(h)
    PROVE  Locked'
<1> SUFFICES ASSUME NEW g \in Handlers, (At(g, "locked") \/ At(g, "redeeming"))'
             PROVE  /\ (cartLock[handler[g].cart] = g /\ status[handler[g].cart] = "ACTIVE")'
                    /\ At(g, "redeeming")' =>
                         /\ (couponLock = g /\ coupon # Deleted /\ coupon.active)'
                         /\ (Cardinality(Redemptions) < coupon.usageLimit)'
                         /\ (Cardinality(RedemptionsOf(handler[g].cart)) < coupon.perUserLimit)'
  BY DEF Locked
<1>1. g # h /\ handler'[g] = handler[g]
  BY ShopperFacts
<1>2. At(g, "locked") \/ At(g, "redeeming")
  BY <1>1 DEF At
<1>3. cartLock[handler[g].cart] = g /\ status[handler[g].cart] = "ACTIVE"
  BY <1>2 DEF Locked
<1>4. handler[g].cart \in Carts
  BY <1>2, WorkAt DEF CheckoutWork
<1>5. UNCHANGED <<coupon, couponLock, orders>>
  BY DEF ShopperStep, couponVars
<1>6. cartLock'[handler[g].cart] = g /\ status'[handler[g].cart] = "ACTIVE"
  BY <1>3, <1>4, ShopperFacts, HandlersAssumption
<1>7. At(g, "redeeming")' => At(g, "redeeming")
  BY <1>1 DEF At
<1> QED
  BY <1>1, <1>5, <1>6, <1>7, SameOrders DEF Locked

LEMMA LockedByCheckout ==
    ASSUME TypeOK, Locked, NEW h \in Handlers, CheckoutStep(h)
    PROVE  Locked'
<1>1. CASE ReadBag(h)
  <2>1. \A g \in Handlers \ {h} : handler'[g] = handler[g]
    BY <1>1 DEF ReadBag, Goto, TypeOK
  <2>2. handler'[h].pc = "checkout"
    BY <1>1 DEF ReadBag, Goto, TypeOK
  <2>3. UNCHANGED <<cartLock, status, coupon, couponLock, orders>>
    BY <1>1 DEF ReadBag, KeepCarts, couponVars
  <2> QED
    BY <2>1, <2>2, <2>3, SameOrders DEF Locked, At
<1>2. CASE LockCart(h)
  <2> DEFINE c == handler[h].cart
  <2>1. c \in Carts /\ handler[h] \in CheckoutWork
    BY <1>2, WorkAt DEF LockCart, CheckoutWork
  <2>2. \A g \in Handlers \ {h} : handler'[g] = handler[g]
    BY <1>2 DEF LockCart, TypeOK
  <2>3. handler'[h].pc = "locked" /\ handler'[h].cart = c
    BY <1>2, <2>1 DEF LockCart, TypeOK, CheckoutWork
  <2>4. cartLock'[c] = h /\ \A d \in Carts \ {c} : cartLock'[d] = cartLock[d]
    BY <1>2, <2>1 DEF LockCart, TypeOK, CartTypeOK
  <2>5. UNCHANGED <<status, coupon, couponLock, orders>> /\ status[c] = "ACTIVE"
    BY <1>2 DEF LockCart, KeepCarts, couponVars
  <2>6. ASSUME NEW g \in Handlers \ {h}, At(g, "locked") \/ At(g, "redeeming")
        PROVE  cartLock'[handler[g].cart] = g
    <3>1. cartLock[handler[g].cart] = g
      BY <2>6 DEF Locked
    <3>2. handler[g].cart \in Carts
      BY <2>6, WorkAt DEF CheckoutWork
    <3>3. handler[g].cart # c
      BY <1>2, <3>1, HandlersAssumption DEF LockCart
    <3> QED
      BY <2>4, <3>1, <3>2, <3>3
  <2> QED
    BY <2>2, <2>3, <2>4, <2>5, <2>6, SameOrders DEF Locked, At
<1>3. CASE ValidateAndLock(h)
  <2> DEFINE c == handler[h].cart
  <2>1. handler[h] \in CheckoutWork
    BY <1>3, WorkAt DEF ValidateAndLock
  <2>2. \A g \in Handlers \ {h} : handler'[g] = handler[g]
    BY <1>3 DEF ValidateAndLock, TypeOK
  <2>3. handler'[h].pc = "redeeming" /\ handler'[h].cart = c
    BY <1>3, <2>1 DEF ValidateAndLock, TypeOK, CheckoutWork
  <2>4. UNCHANGED <<cartLock, status, coupon, orders>> /\ couponLock' = h
    BY <1>3 DEF ValidateAndLock, KeepCarts
  <2>5. \A g \in Handlers : ~At(g, "redeeming")
    BY <1>3, HandlersAssumption DEF ValidateAndLock, Locked
  <2>6. cartLock[c] = h /\ status[c] = "ACTIVE"
    BY <1>3 DEF ValidateAndLock, Locked
  <2>7. /\ coupon # Deleted /\ coupon.active
        /\ Cardinality(Redemptions) < coupon.usageLimit
        /\ Cardinality(RedemptionsOf(c)) < coupon.perUserLimit
    BY <1>3 DEF ValidateAndLock
  <2> QED
    BY <2>2, <2>3, <2>4, <2>5, <2>6, <2>7, SameOrders DEF Locked, At
<1>4. CASE PlaceOrder(h)
  <2> DEFINE c == handler[h].cart
  <2>1. c \in Carts /\ handler[h].code \in BOOLEAN
    BY <1>4, WorkAt DEF PlaceOrder, CheckoutWork
  <2>2. \A g \in Handlers \ {h} : handler'[g] = handler[g]
    BY <1>4 DEF PlaceOrder, Goto, TypeOK
  <2>3. handler'[h].pc = "idle"
    BY <1>4 DEF PlaceOrder, Goto, TypeOK, Idle
  <2>4. \A d \in Carts \ {c} : cartLock'[d] = cartLock[d] /\ status'[d] = status[d]
    BY <1>4 DEF PlaceOrder, TypeOK, CartTypeOK
  <2>5. coupon' = coupon /\ couponLock' = IF couponLock = h THEN Nobody ELSE couponLock
    BY <1>4 DEF PlaceOrder
  <2>6. cartLock[c] = h
    BY <1>4 DEF PlaceOrder, Locked
  <2>7. ASSUME NEW g \in Handlers \ {h}, At(g, "locked") \/ At(g, "redeeming")
        PROVE  /\ cartLock'[handler[g].cart] = g
               /\ status'[handler[g].cart] = "ACTIVE"
    <3>1. cartLock[handler[g].cart] = g /\ status[handler[g].cart] = "ACTIVE"
      BY <2>7 DEF Locked
    <3>2. handler[g].cart \in Carts
      BY <2>7, WorkAt DEF CheckoutWork
    <3> QED
      BY <2>4, <2>6, <3>1, <3>2
  <2>8. ASSUME NEW g \in Handlers \ {h}, At(g, "redeeming")
        PROVE  /\ couponLock' = g
               /\ Redemptions' = Redemptions
               /\ RedemptionsOf(handler[g].cart)' = RedemptionsOf(handler[g].cart)
    <3>1. couponLock = g
      BY <2>8 DEF Locked
    <3>2. ~At(h, "redeeming")
      BY <2>8, OneRedeemer
    <3>3. ~handler[h].code
      BY <1>4, <3>2 DEF PlaceOrder
    <3>4. PICK o \in Order : orders' = Append(orders, o) /\ o.redeems = handler[h].code
      BY <1>4, PlacedOrder
    <3>5. ~o.redeems
      BY <3>3, <3>4
    <3>6. Redemptions' = Redemptions /\ \A d : RedemptionsOf(d)' = RedemptionsOf(d)
      BY <3>4, <3>5, OneMoreOrder
    <3>7. RedemptionsOf(handler[g].cart)' = RedemptionsOf(handler[g].cart)
      BY <2>2, <3>6 DEF RedemptionsOf
    <3> QED
      BY <2>5, <3>1, <3>6, <3>7
  <2> QED
    BY <2>2, <2>3, <2>5, <2>7, <2>8 DEF Locked, At
<1> QED
  BY <1>1, <1>2, <1>3, <1>4 DEF CheckoutStep

LEMMA LockedByFailure ==
    ASSUME TypeOK, Locked, NEW h \in Handlers, FailCheckout(h)
    PROVE  Locked'
<1>1. \A g \in Handlers \ {h} : handler'[g] = handler[g]
  BY DEF FailCheckout, FailRequest, Goto, TypeOK
<1>2. handler'[h].pc = "idle"
  BY DEF FailCheckout, FailRequest, Goto, TypeOK, Idle
<1>3. UNCHANGED <<status, coupon, orders>>
  BY DEF FailCheckout, FailRequest, KeepCarts
<1>4. ASSUME NEW g \in Handlers \ {h}, At(g, "locked") \/ At(g, "redeeming")
      PROVE  cartLock'[handler[g].cart] = g
  <2>1. cartLock[handler[g].cart] = g
    BY <1>4 DEF Locked
  <2>2. handler[g].cart \in Carts
    BY <1>4, WorkAt DEF CheckoutWork
  <2> QED
    BY <2>1, <2>2 DEF FailCheckout, FailRequest
<1>5. ASSUME NEW g \in Handlers \ {h}, At(g, "redeeming")
      PROVE  couponLock' = g
  <2>1. couponLock = g
    BY <1>5 DEF Locked
  <2> QED
    BY <2>1 DEF FailCheckout
<1> QED
  BY <1>1, <1>2, <1>3, <1>4, <1>5, SameOrders DEF Locked, At

\* An admin's write waits for the lock: nobody is past the validation.
LEMMA LockedByAdmin ==
    ASSUME TypeOK, Locked, AdminStep
    PROVE  Locked'
<1>1. UNCHANGED <<cartVars, couponLock, orders>> /\ couponLock = Nobody
  BY DEF AdminStep, SetCouponActive, UpdateCoupon, DeleteCoupon
<1>2. \A g \in Handlers : ~At(g, "redeeming")
  BY <1>1, HandlersAssumption DEF Locked
<1> QED
  BY <1>1, <1>2 DEF Locked, At, cartVars

LEMMA StepLocked ==
    ASSUME TypeOK, Locked, [Next]_vars
    PROVE  Locked'
<1>1. CASE UNCHANGED vars
  <2>1. UNCHANGED <<handler, cartLock, status, coupon, couponLock, orders>>
    BY <1>1 DEF vars, cartVars
  <2> QED
    BY <2>1, SameOrders DEF Locked, At
<1>2. CASE Next
  BY <1>2, LockedByShopper, LockedByCheckout, LockedByFailure, LockedByAdmin DEF Next
<1> QED
  BY <1>1, <1>2

-----------------------------------------------------------------------------
(* Sessions *)

LEMMA StepSessions ==
    ASSUME TypeOK, Locked, Sessions, [Next]_vars
    PROVE  Sessions'
<1> DEFINE Left(c) == IF status[c] = "ACTIVE" THEN 1 ELSE 0
<1>0. \A c \in Carts : sessions[c] \in Nat /\ Cardinality(OrdersOf(c)) \in Nat
  BY FiniteOrders DEF TypeOK
<1>1. ASSUME NEW h \in Handlers, ShopperStep(h), NEW c \in Carts
      PROVE  Cardinality(OrdersOf(c)') + Left(c)' <= sessions'[c]
  <2>1. OrdersOf(c)' = OrdersOf(c)
    BY <1>1, SameOrders DEF ShopperStep
  <2>2. sessions'[c] = IF status[c] # "ACTIVE" /\ status'[c] = "ACTIVE"
                       THEN sessions[c] + 1 ELSE sessions[c]
    BY <1>1 DEF ShopperStep, CountSessions, Activated
  <2>3. Cardinality(OrdersOf(c)) + Left(c) <= sessions[c]
    BY DEF Sessions
  <2>4. CASE status[c] # "ACTIVE" /\ status'[c] = "ACTIVE"
    BY <1>0, <2>1, <2>2, <2>3, <2>4
  <2>5. CASE ~(status[c] # "ACTIVE" /\ status'[c] = "ACTIVE")
    BY <1>0, <2>1, <2>2, <2>3, <2>5
  <2> QED
    BY <2>4, <2>5
<1>2. ASSUME UNCHANGED <<orders, status, sessions>>
      PROVE  Sessions'
  BY <1>2, SameOrders DEF Sessions
<1>3. ASSUME NEW h \in Handlers, ReadBag(h) \/ LockCart(h) \/ ValidateAndLock(h)
      PROVE  Sessions'
  BY <1>2, <1>3 DEF ReadBag, LockCart, ValidateAndLock, KeepCarts
<1>4. ASSUME NEW h \in Handlers, PlaceOrder(h)
      PROVE  Sessions'
  <2>1. PICK o \in Order : /\ orders' = Append(orders, o)
                           /\ o.cart = handler[h].cart
                           /\ o.cart \in Carts
    BY <1>4, PlacedOrder
  <2>2. status[o.cart] = "ACTIVE" /\ status'[o.cart] = "CONVERTED"
    BY <1>4, <2>1 DEF PlaceOrder, Locked, TypeOK, CartTypeOK
  <2>3. sessions' = sessions /\ \A c \in Carts \ {o.cart} : status'[c] = status[c]
    BY <1>4, <2>1 DEF PlaceOrder, TypeOK, CartTypeOK
  <2>4. Cardinality(OrdersOf(o.cart)') = Cardinality(OrdersOf(o.cart)) + 1
    BY <2>1, OneMoreOrder
  <2>5. \A c \in Carts \ {o.cart} : OrdersOf(c)' = OrdersOf(c)
    BY <2>1, OneMoreOrder
  <2>6. Cardinality(OrdersOf(o.cart)') + 0 <= sessions'[o.cart]
    BY <1>0, <2>1, <2>2, <2>3, <2>4 DEF Sessions
  <2>7. ASSUME NEW c \in Carts
        PROVE  Cardinality(OrdersOf(c)') + Left(c)' <= sessions'[c]
    <3>1. CASE c = o.cart
      <4>1. OrdersOf(c)' = OrdersOf(o.cart)'
        BY <3>1 DEF OrdersOf
      <4> QED
        BY <2>2, <2>6, <3>1, <4>1
    <3>2. CASE c # o.cart
      BY <2>3, <2>5, <3>2 DEF Sessions
    <3> QED
      BY <3>1, <3>2
  <2> QED
    BY <2>7 DEF Sessions
<1>5. ASSUME NEW h \in Handlers, FailCheckout(h)
      PROVE  Sessions'
  BY <1>2, <1>5 DEF FailCheckout, FailRequest, KeepCarts
<1>6. ASSUME AdminStep
      PROVE  Sessions'
  BY <1>2, <1>6 DEF AdminStep, SetCouponActive, UpdateCoupon, DeleteCoupon, cartVars
<1>7. ASSUME UNCHANGED vars
      PROVE  Sessions'
  BY <1>2, <1>7 DEF vars, cartVars
<1> QED
  BY <1>1, <1>3, <1>4, <1>5, <1>6, <1>7 DEF Next, CheckoutStep, Sessions

-----------------------------------------------------------------------------
(* Results *)

LEMMA InitInv ==
    ASSUME Init
    PROVE  IInv
<1>1. TypeOK
  BY InitTyped
<1>2. Locked
  BY DEF Init, CartInit, Locked, At, Idle
<1>3. Sessions
  <2>1. \A c : OrdersOf(c) = {}
    BY DEF Init, OrdersOf
  <2>2. \A c \in Carts : sessions[c] = IF status[c] = "ACTIVE" THEN 1 ELSE 0
    BY DEF Init
  <2> QED
    BY <2>1, <2>2, FS_EmptySet DEF Sessions
<1> QED
  BY <1>1, <1>2, <1>3 DEF IInv

(* The inductive invariant: types, what a transaction may rely on, and at    *)
(* most one order left to each ACTIVE cart.                                  *)
THEOREM InvariantHolds == Spec => []IInv
<1>1. Init => IInv
  BY InitInv
<1>2. IInv /\ [Next]_vars => IInv'
  BY StepTyped, StepLocked, StepSessions DEF IInv
<1> QED
  BY <1>1, <1>2, PTL DEF Spec

(* However many checkouts of one bag race, a cart gives at most one order    *)
(* each time it became ACTIVE.                                               *)
THEOREM OneOrder == Spec => []OneOrderPerSession
<1>1. IInv => OneOrderPerSession
  BY FiniteOrders DEF IInv, Sessions, OneOrderPerSession, TypeOK
<1> QED
  BY <1>1, InvariantHolds, PTL

LEMMA OnlyPlaceOrderOrders ==
    ASSUME IInv, [Next]_vars, orders' # orders
    PROVE  \E h \in Handlers : PlaceOrder(h)
  BY DEF Next, ShopperStep, CheckoutStep, ReadBag, LockCart, ValidateAndLock, FailCheckout,
         AdminStep, SetCouponActive, UpdateCoupon, DeleteCoupon, vars

(* An order is committed on a cart that is ACTIVE at the commit.             *)
THEOREM OrderedWhileActive == Spec => OrderComesFromActiveCart
<1>1. ASSUME IInv, [Next]_vars, NEW c \in Carts, OrdersOf(c)' # OrdersOf(c)
      PROVE  status[c] = "ACTIVE"
  <2>1. orders' # orders
    BY <1>1, SameOrders
  <2>2. PICK h \in Handlers : PlaceOrder(h)
    BY <1>1, <2>1, OnlyPlaceOrderOrders
  <2>3. TypeOK /\ Locked
    BY <1>1 DEF IInv
  <2>4. PICK o \in Order : orders' = Append(orders, o) /\ o.cart = handler[h].cart
    BY <2>2, <2>3, PlacedOrder
  <2>5. c = o.cart
    BY <1>1, <2>3, <2>4, OneMoreOrder
  <2> QED
    BY <2>2, <2>3, <2>4, <2>5 DEF PlaceOrder, Locked
<1>2. IInv /\ [Next]_vars => [\A c \in Carts : OrdersOf(c)' # OrdersOf(c) => status[c] = "ACTIVE"]_vars
  BY <1>1
<1> QED
  BY <1>2, InvariantHolds, PTL DEF Spec, OrderComesFromActiveCart

(* A redemption is only committed of an active coupon, within the limits of  *)
(* that moment, for any number of customers, checkouts and edits.            *)
THEOREM CouponLimitsKept == Spec => CouponKeepsItsLimits
<1> DEFINE WithinLimits ==
      Redemptions' # Redemptions =>
          /\ coupon # Deleted
          /\ coupon.active
          /\ Cardinality(Redemptions') <= coupon.usageLimit
          /\ \A u \in Users : RedemptionsOf(u)' # RedemptionsOf(u) =>
                Cardinality(RedemptionsOf(u)') <= coupon.perUserLimit
<1>1. ASSUME IInv, [Next]_vars, Redemptions' # Redemptions
      PROVE  WithinLimits
  <2>1. orders' # orders
    BY <1>1, SameOrders
  <2>2. PICK h \in Handlers : PlaceOrder(h)
    BY <1>1, <2>1, OnlyPlaceOrderOrders
  <2>3. TypeOK /\ Locked
    BY <1>1 DEF IInv
  <2>4. PICK o \in Order : /\ orders' = Append(orders, o)
                           /\ o.cart = handler[h].cart
                           /\ o.redeems = handler[h].code
    BY <2>2, <2>3, PlacedOrder
  <2>5. o.redeems
    BY <1>1, <2>3, <2>4, OneMoreOrder DEF Order
  <2>6. At(h, "redeeming")
    BY <2>2, <2>4, <2>5 DEF PlaceOrder
  <2>7. /\ coupon # Deleted /\ coupon.active
        /\ Cardinality(Redemptions) < coupon.usageLimit
        /\ Cardinality(RedemptionsOf(o.cart)) < coupon.perUserLimit
    BY <2>3, <2>4, <2>6 DEF Locked
  <2>8. coupon.usageLimit \in Nat /\ coupon.perUserLimit \in Nat
    <3>1. coupon \in Coupon
      BY <2>3, <2>7 DEF TypeOK
    <3>2. 1..MaxLimit \subseteq Nat
      BY CheckoutAssumption
    <3> QED
      BY <3>1, <3>2 DEF Coupon
  <2>9. Cardinality(Redemptions') <= coupon.usageLimit
    BY <2>3, <2>4, <2>5, <2>7, <2>8, OneMoreOrder, FiniteOrders
  <2>10. ASSUME NEW u \in Users, RedemptionsOf(u)' # RedemptionsOf(u)
         PROVE  Cardinality(RedemptionsOf(u)') <= coupon.perUserLimit
    <3>1. u = o.cart
      BY <2>3, <2>4, <2>10, OneMoreOrder
    <3>2. Cardinality(RedemptionsOf(o.cart)') <= coupon.perUserLimit
      BY <2>3, <2>4, <2>5, <2>7, <2>8, OneMoreOrder, FiniteOrders
    <3>3. RedemptionsOf(u)' = RedemptionsOf(o.cart)'
      BY <3>1 DEF RedemptionsOf
    <3> QED
      BY <3>2, <3>3
  <2> QED
    BY <2>7, <2>9, <2>10
<1>2. IInv /\ [Next]_vars => [WithinLimits]_vars
  BY <1>1
<1> QED
  BY <1>2, InvariantHolds, PTL DEF Spec, CouponKeepsItsLimits
=============================================================================
