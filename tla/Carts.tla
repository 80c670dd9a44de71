------------------------------- MODULE Carts -------------------------------
(* Bags (modules/cart).  A user has one cart for life (Cart.userId is        *)
(* unique), which is reactivated after each order; a guest's cart is used    *)
(* once.  Nothing here runs in a transaction: a request resolves its cart,   *)
(* reads it and writes it with an await between each two, so several tabs of *)
(* one customer interleave.  A request that is refused writes nothing: being *)
(* refused is not taking the step.                                           *)
EXTENDS Naturals, FiniteSets

CONSTANTS
    Users,    \* accounts; the one cart of a user is named for its user
    Guests,   \* carts guests may create (bound)
    Variants,
    Handlers, \* requests served at the same time
    Editors,  \* those of them that may change a bag (bound)
    Returning,\* users whose bag, left from an earlier visit, nobody changes (bound)
    Scenes,   \* the carts that one behaviour is about (bound)
    Shelf,    \* the most the inventory has ever shown of a variant
    MaxRows   \* bound on the CartItem rows ever inserted

ASSUME CartsAssumption ==
    /\ Users \cap Guests = {}
    /\ Editors \subseteq Handlers
    /\ Returning \subseteq Users
    /\ Scenes \subseteq SUBSET (Users \cup Guests)
    /\ Shelf \in Nat \ {0}
    /\ MaxRows \in Nat
    /\ IsFiniteSet(Returning) /\ Cardinality(Returning) <= MaxRows

Carts == Users \cup Guests

Nobody == "nobody"
ASSUME HandlersAssumption == Nobody \notin Handlers

VARIABLES
    status,   \* Cart.status; "NONE" before the row exists, "ABSENT" for ever
    code,     \* Cart.couponCode is set
    rows,     \* CartItem
    lastRow,  \* ids given to CartItem rows so far
    cartLock, \* whose transaction holds the lock of the Cart row
    handler   \* what each request has read and still has to do

cartVars == <<status, code, rows, lastRow, cartLock, handler>>

-----------------------------------------------------------------------------
CartStatuses == {"ACTIVE", "MERGED", "CONVERTED"}
Ids == 1 .. MaxRows
Row == [id : Ids, cart : Carts, variant : Variants, quantity : 1 .. Shelf]

\* Where a handler stands, with what it read that its next writes use; an id
\* of 0 is a row that was not found.
Idle == [pc |-> "idle"]
CartWork ==
    [pc : {"find", "create", "activate", "coupon", "revalidate"}, cart : Users]
      \cup [pc : {"ready"}, cart : Carts]
      \cup [pc : {"add"}, cart : Carts, variant : Variants, id : {0} \cup Ids, quantity : 1 .. Shelf]
      \cup [pc : {"edit"}, row : Row]
      \cup [pc : {"changeSet"}, id : Ids, target : Ids, quantity : 1 .. Shelf]
      \cup [pc : {"changeRemove"}, id : Ids]
      \cup [pc : {"repoint"}, row : Row, variant : Variants, quantity : 1 .. Shelf]
      \cup [pc : {"changeCap"}, id : Ids, quantity : 1 .. Shelf]
      \cup [pc : {"merge"}, cart : Users, guest : Guests]
      \cup [pc : {"copy"}, cart : Users, guest : Guests, todo : SUBSET Row]
      \cup [pc : {"copyInto"}, cart : Users, guest : Guests, todo : SUBSET Row,
            variant : Variants, id : {0} \cup Ids, quantity : 1 .. Shelf]
      \cup [pc : {"cap"}, todo : SUBSET Row]

At(h, pc) == handler[h].pc = pc
Goto(h, work) == handler' = [handler EXCEPT ![h] = work]

Items(c) == {r \in rows : r.cart = c}
Exists(id) == \E r \in rows : r.id = id
\* findItemByVariant: the line's id and quantity, 0 when there is none.
LineOf(c, v) == {r \in Items(c) : r.variant = v}
IdOf(c, v) == IF LineOf(c, v) = {} THEN 0 ELSE (CHOOSE r \in LineOf(c, v) : TRUE).id
QuantityOf(c, v) == IF LineOf(c, v) = {} THEN 0 ELSE (CHOOSE r \in LineOf(c, v) : TRUE).quantity
Lesser(m, n) == IF m < n THEN m ELSE n

-----------------------------------------------------------------------------
(* Writes.  A write of one row that is gone throws (P2025), an insert or a   *)
(* change of variant that meets @@unique([cartId, variantId]) too (P2002):   *)
(* then FailRequest.  Writing the Cart row, or inserting a row that refers   *)
(* to it, waits for a transaction that locked it.                            *)

SetItemQuantity(id, n) ==
    /\ Exists(id)
    /\ rows' = {IF r.id = id THEN [r EXCEPT !.quantity = n] ELSE r : r \in rows}
    /\ UNCHANGED lastRow

SetItemVariant(row, v) ==
    /\ Exists(row.id)
    /\ IdOf(row.cart, v) \in {0, row.id}
    /\ rows' = {IF r.id = row.id THEN [r EXCEPT !.variant = v] ELSE r : r \in rows}
    /\ UNCHANGED lastRow

DeleteItem(id) ==
    /\ Exists(id)
    /\ rows' = {r \in rows : r.id # id}
    /\ UNCHANGED lastRow

InsertItem(c, v, n) ==
    /\ LineOf(c, v) = {}
    /\ cartLock[c] = Nobody
    /\ lastRow < MaxRows
    /\ lastRow' = lastRow + 1
    /\ rows' = rows \cup {[id |-> lastRow + 1, cart |-> c, variant |-> v, quantity |-> n]}

\* The line was found when it was looked for, or was not.
SetOrInsert(id, c, v, n) == IF id = 0 THEN InsertItem(c, v, n) ELSE SetItemQuantity(id, n)

KeepRows == UNCHANGED <<rows, lastRow>>
KeepCarts == UNCHANGED <<status, code>>

-----------------------------------------------------------------------------
(* GetOrCreateCartUseCase *)

\* findActiveCartByUserId, or the guest's cart of the cookie.
ResolveActiveCart(h, c) ==
    /\ At(h, "idle")
    /\ status[c] = "ACTIVE"
    /\ Goto(h, [pc |-> "ready", cart |-> c])
    /\ KeepRows /\ KeepCarts /\ UNCHANGED cartLock

\* A guest without a usable cookie gets a new cart.
CreateGuestCart(h, c) ==
    /\ At(h, "idle")
    /\ c \in Guests
    /\ status[c] = "NONE"
    /\ status' = [status EXCEPT ![c] = "ACTIVE"]
    /\ Goto(h, [pc |-> "ready", cart |-> c])
    /\ KeepRows /\ UNCHANGED <<code, cartLock>>

MissActiveCart(h, c) ==
    /\ At(h, "idle")
    /\ c \in Users
    /\ status[c] \in {"NONE", "CONVERTED", "MERGED"}
    /\ Goto(h, [pc |-> "find", cart |-> c])
    /\ KeepRows /\ KeepCarts /\ UNCHANGED cartLock

\* findCartByUserId, whatever its status is by now; reactivateCart first
\* deletes the items.
ClearCart(h) ==
    /\ At(h, "find")
    /\ LET c == handler[h].cart IN
         IF status[c] = "NONE"
         THEN KeepRows /\ Goto(h, [pc |-> "create", cart |-> c])
         ELSE /\ rows' = rows \ Items(c)
              /\ Goto(h, [pc |-> "activate", cart |-> c])
              /\ UNCHANGED lastRow
    /\ KeepCarts /\ UNCHANGED cartLock

CreateUserCart(h) ==
    /\ At(h, "create")
    /\ LET c == handler[h].cart IN
         /\ status[c] = "NONE"
         /\ status' = [status EXCEPT ![c] = "ACTIVE"]
         /\ Goto(h, [pc |-> "ready", cart |-> c])
    /\ KeepRows /\ UNCHANGED <<code, cartLock>>

ActivateCart(h) ==
    /\ At(h, "activate")
    /\ LET c == handler[h].cart IN
         /\ cartLock[c] = Nobody
         /\ status' = [status EXCEPT ![c] = "ACTIVE"]
         /\ code' = [code EXCEPT ![c] = FALSE]
         /\ Goto(h, [pc |-> "ready", cart |-> c])
    /\ KeepRows /\ UNCHANGED cartLock

-----------------------------------------------------------------------------
(* AddItemUseCase, UpdateItemQuantityUseCase, RemoveItemUseCase *)

\* The stock shown (at most Shelf) and the line are read before the write.
ReadForAdd(h, v, n) ==
    /\ At(h, "ready")
    /\ LET c == handler[h].cart
           sum == QuantityOf(c, v) + n
       IN /\ sum <= Shelf
          /\ Goto(h, [pc |-> "add", cart |-> c, variant |-> v, id |-> IdOf(c, v), quantity |-> sum])
    /\ KeepRows /\ KeepCarts /\ UNCHANGED cartLock

WriteAdd(h) ==
    /\ At(h, "add")
    /\ SetOrInsert(handler[h].id, handler[h].cart, handler[h].variant, handler[h].quantity)
    /\ Goto(h, Idle)
    /\ KeepCarts /\ UNCHANGED cartLock

\* findItem(cartId, itemId), first step of every edit of a line.
ReadItem(h, r) ==
    /\ At(h, "ready")
    /\ r \in Items(handler[h].cart)
    /\ Goto(h, [pc |-> "edit", row |-> r])
    /\ KeepRows /\ KeepCarts /\ UNCHANGED cartLock

UpdateItemQuantity(h, n) ==
    /\ At(h, "edit")
    /\ SetItemQuantity(handler[h].row.id, n)
    /\ Goto(h, Idle)
    /\ KeepCarts /\ UNCHANGED cartLock

RemoveItem(h) ==
    /\ At(h, "edit")
    /\ DeleteItem(handler[h].row.id)
    /\ Goto(h, Idle)
    /\ KeepCarts /\ UNCHANGED cartLock

-----------------------------------------------------------------------------
(* ChangeItemVariantUseCase *)

\* The stock shown of the new variant, and the line that holds it already.
ReadChangeTarget(h, v, available) ==
    /\ At(h, "edit")
    /\ LET row == handler[h].row
           c == row.cart
       IN /\ v # row.variant
          /\ Goto(h, IF LineOf(c, v) = {}
                     THEN [pc |-> "repoint", row |-> row, variant |-> v,
                           quantity |-> Lesser(row.quantity, available)]
                     ELSE [pc |-> "changeSet", id |-> row.id, target |-> IdOf(c, v),
                           quantity |-> Lesser(QuantityOf(c, v) + row.quantity, available)])
    /\ KeepRows /\ KeepCarts /\ UNCHANGED cartLock

\* Another line holds that variant: the two become one.
SetTargetQuantity(h) ==
    /\ At(h, "changeSet")
    /\ SetItemQuantity(handler[h].target, handler[h].quantity)
    /\ Goto(h, [pc |-> "changeRemove", id |-> handler[h].id])
    /\ KeepCarts /\ UNCHANGED cartLock

RemoveMergedItem(h) ==
    /\ At(h, "changeRemove")
    /\ DeleteItem(handler[h].id)
    /\ Goto(h, Idle)
    /\ KeepCarts /\ UNCHANGED cartLock

RepointItem(h) ==
    /\ At(h, "repoint")
    /\ LET w == handler[h] IN
         /\ SetItemVariant(w.row, w.variant)
         /\ Goto(h, IF w.quantity = w.row.quantity THEN Idle
                    ELSE [pc |-> "changeCap", id |-> w.row.id, quantity |-> w.quantity])
    /\ KeepCarts /\ UNCHANGED cartLock

CapRepointedItem(h) ==
    /\ At(h, "changeCap")
    /\ SetItemQuantity(handler[h].id, handler[h].quantity)
    /\ Goto(h, Idle)
    /\ KeepCarts /\ UNCHANGED cartLock

-----------------------------------------------------------------------------
(* ApplyCouponUseCase, RemoveCouponUseCase *)

\* getCart and the preview, which only decide whether the code is stored.
PreviewCoupon(h) ==
    /\ At(h, "ready")
    /\ handler[h].cart \in Users
    /\ Items(handler[h].cart) # {}
    /\ Goto(h, [pc |-> "coupon", cart |-> handler[h].cart])
    /\ KeepRows /\ KeepCarts /\ UNCHANGED cartLock

SetCouponCode(h, pc, set) ==
    /\ At(h, pc)
    /\ handler[h].cart \in Users
    /\ cartLock[handler[h].cart] = Nobody
    /\ code' = [code EXCEPT ![handler[h].cart] = set]
    /\ Goto(h, Idle)
    /\ KeepRows /\ UNCHANGED <<status, cartLock>>

ApplyCoupon(h) == SetCouponCode(h, "coupon", TRUE)
RemoveCoupon(h) == SetCouponCode(h, "ready", FALSE)

-----------------------------------------------------------------------------
(* MergeGuestCartUseCase, once the user's own cart is resolved *)

FindGuestCart(h, g) ==
    /\ At(h, "ready")
    /\ handler[h].cart \in Users
    /\ g \in Guests
    /\ status[g] = "ACTIVE"
    /\ Goto(h, [pc |-> "merge", cart |-> handler[h].cart, guest |-> g])
    /\ KeepRows /\ KeepCarts /\ UNCHANGED cartLock

FindGuestItems(h) ==
    /\ At(h, "merge")
    /\ Goto(h, [pc |-> "copy", cart |-> handler[h].cart, guest |-> handler[h].guest,
                todo |-> Items(handler[h].guest)])
    /\ KeepRows /\ KeepCarts /\ UNCHANGED cartLock

\* Mutant: quantities are added up, whatever the stock.
AddedQuantity(account, guest) == account + guest

\* resolveMergedQuantity: the higher of the two.
MergedQuantity(account, guest) == IF account > guest THEN account ELSE guest

\* findItemByVariant, whose quantity the write will use.
FindMergeTarget(h, item) ==
    /\ At(h, "copy")
    /\ LET w == handler[h]
           v == item.variant
       IN /\ item \in w.todo
          /\ Goto(h, [pc |-> "copyInto", cart |-> w.cart, guest |-> w.guest,
                      todo |-> w.todo \ {item}, variant |-> v, id |-> IdOf(w.cart, v),
                      quantity |-> MergedQuantity(QuantityOf(w.cart, v), item.quantity)])
    /\ KeepRows /\ KeepCarts /\ UNCHANGED cartLock

CopyGuestItem(h) ==
    /\ At(h, "copyInto")
    /\ LET w == handler[h] IN
         /\ SetOrInsert(w.id, w.cart, w.variant, w.quantity)
         /\ Goto(h, [pc |-> "copy", cart |-> w.cart, guest |-> w.guest, todo |-> w.todo])
    /\ KeepCarts /\ UNCHANGED cartLock

\* Mutant: the write of a locked Cart row does not wait.
MarkLockedCartMerged(h) ==
    /\ At(h, "copy")
    /\ LET w == handler[h] IN
         /\ w.todo = {}
         /\ status' = [status EXCEPT ![w.guest] = "MERGED"]
         /\ Goto(h, [pc |-> "revalidate", cart |-> w.cart])
    /\ KeepRows /\ UNCHANGED <<code, cartLock>>

\* markCartMerged, whatever the guest's cart has become meanwhile.
MarkCartMerged(h) ==
    /\ At(h, "copy")
    /\ LET w == handler[h] IN
         /\ w.todo = {}
         /\ cartLock[w.guest] = Nobody
         /\ status' = [status EXCEPT ![w.guest] = "MERGED"]
         /\ Goto(h, [pc |-> "revalidate", cart |-> w.cart])
    /\ KeepRows /\ UNCHANGED <<code, cartLock>>

\* revalidateAgainstLiveStock: the items and their stock, then one write each.
ReadMergedItems(h) ==
    /\ At(h, "revalidate")
    /\ Goto(h, [pc |-> "cap", todo |-> Items(handler[h].cart)])
    /\ KeepRows /\ KeepCarts /\ UNCHANGED cartLock

CapMergedItem(h, item, available) ==
    /\ At(h, "cap")
    /\ item \in handler[h].todo
    /\ IF available = 0 THEN DeleteItem(item.id)
       ELSE IF item.quantity > available THEN SetItemQuantity(item.id, available)
       ELSE KeepRows
    /\ Goto(h, [pc |-> "cap", todo |-> handler[h].todo \ {item}])
    /\ KeepCarts /\ UNCHANGED cartLock

EndMerge(h) ==
    /\ At(h, "cap")
    /\ handler[h].todo = {}
    /\ Goto(h, Idle)
    /\ KeepRows /\ KeepCarts /\ UNCHANGED cartLock

-----------------------------------------------------------------------------
\* A request that throws, or whose process dies, stops where it is; what it
\* locked is released.
FailRequest(h) ==
    /\ ~At(h, "idle")
    /\ Goto(h, Idle)
    /\ cartLock' = [c \in Carts |-> IF cartLock[c] = h THEN Nobody ELSE cartLock[c]]
    /\ KeepRows /\ KeepCarts

\* A returning user's bag holds one line and a coupon code; a cart outside the
\* scene is left out of the behaviour.
CartInit ==
    /\ lastRow = Cardinality(Returning)
    /\ \E scene \in Scenes :
         /\ status = [c \in Carts |-> IF c \notin scene THEN "ABSENT"
                                     ELSE IF c \in Returning THEN "ACTIVE" ELSE "NONE"]
         /\ code = [c \in Carts |-> c \in Returning \cap scene]
         /\ rows \in SUBSET [id : Ids, cart : Returning \cap scene, variant : Variants, quantity : {1}]
         /\ \A c \in Returning \cap scene : Cardinality(Items(c)) = 1
         /\ \A r, q \in rows : r.id = q.id => r = q
         /\ \A r \in rows : r.id <= lastRow
    /\ cartLock = [c \in Carts |-> Nobody]
    /\ handler = [h \in Handlers |-> Idle]

ResolveStep(h) ==
    \/ \E c \in Carts : ResolveActiveCart(h, c) \/ CreateGuestCart(h, c) \/ MissActiveCart(h, c)
    \/ ClearCart(h) \/ CreateUserCart(h) \/ ActivateCart(h)

EditStep(h) ==
    \/ \E v \in Variants, n \in 1 .. Shelf : ReadForAdd(h, v, n)
    \/ WriteAdd(h)
    \/ \E r \in rows : ReadItem(h, r)
    \/ \E n \in 1 .. Shelf : UpdateItemQuantity(h, n)
    \/ RemoveItem(h)
    \/ \E v \in Variants, n \in 1 .. Shelf : ReadChangeTarget(h, v, n)
    \/ SetTargetQuantity(h) \/ RemoveMergedItem(h) \/ RepointItem(h) \/ CapRepointedItem(h)
    \/ PreviewCoupon(h) \/ ApplyCoupon(h) \/ RemoveCoupon(h)

\* The lines a merge has still to copy or to check.
Todo(h) == IF At(h, "copy") \/ At(h, "cap") THEN handler[h].todo ELSE {}

MergeStep(h) ==
    \/ \E g \in Guests : FindGuestCart(h, g)
    \/ FindGuestItems(h)
    \/ \E r \in Todo(h) : FindMergeTarget(h, r)
    \/ CopyGuestItem(h) \/ MarkCartMerged(h) \/ ReadMergedItems(h)
    \/ \E r \in Todo(h), n \in 0 .. Shelf : CapMergedItem(h, r, n)
    \/ EndMerge(h)

MayEdit(h) == h \in Editors /\ ~(At(h, "ready") /\ handler[h].cart \in Returning)
CartStep(h) == ResolveStep(h) \/ (MayEdit(h) /\ (EditStep(h) \/ MergeStep(h)))

CartTypeOK ==
    /\ status \in [Carts -> CartStatuses \cup {"NONE", "ABSENT"}]
    /\ code \in [Carts -> BOOLEAN]
    /\ rows \subseteq Row
    /\ lastRow \in 0 .. MaxRows
    /\ cartLock \in [Carts -> Handlers \cup {Nobody}]
=============================================================================
