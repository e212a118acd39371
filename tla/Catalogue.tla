------------------------------- MODULE Catalogue ------------------------------
(* The products of a tenant and their pictures (presentation/services/product   *)
(* .service.ts, modules/commercial-assets, the quotas of TenantQuotaService).   *)
(* A request is one transaction: what it writes to Product and ProductImage     *)
(* and the advisory locks it takes end with it.  The pictures themselves are    *)
(* stored by a provider, and the rows about them are written by transactions    *)
(* of their own that nothing undoes.                                            *)
EXTENDS Naturals, FiniteSets

CONSTANTS
    Products, ProductNames, Pictures,
    NoPicture,
    VariantKeys,    \* colour and size of a variant
    Clerks,         \* requests at work at once
    MaxProducts,    \* Tenant.maxProducts
    MaxPictures,    \* Tenant.maxMainImagesPerProduct
    MaxVariants,    \* Tenant.maxVariantsPerProduct
    MaxStorage,     \* Tenant.maxStorageBytes, each picture as it is sent counted as one
    MaxEdits        \* bound on requests

\* A plan has room for something of everything.
ASSUME CatalogueAssumption ==
    /\ {MaxProducts, MaxPictures, MaxVariants, MaxStorage} \subseteq Nat \ {0} /\ MaxEdits \in Nat
    /\ NoPicture \notin Pictures
    /\ IsFiniteSet(Products) /\ IsFiniteSet(Pictures) /\ IsFiniteSet(Clerks)

VARIABLES
    shelf,      \* Product, ProductImage and ProductVariant, committed
    asset,      \* CommercialAsset.status
    bytes,      \* CommercialAsset.sizeBytes
    stored,     \* pictures that the provider has
    edit,       \* the request of a clerk
    edits,
    revived     \* history: products set active by an update that was not asked to

catalogueVars == <<shelf, asset, bytes, stored, edit, edits, revived>>

Absent == [live |-> FALSE, active |-> FALSE, name |-> CHOOSE n \in ProductNames : TRUE,
           pictures |-> {}, batch |-> 0, sold |-> {}, variants |-> {}]

OnShelf(row) == [live |-> TRUE, active |-> row.active, name |-> row.name,
                 pictures |-> {}, batch |-> 0, sold |-> {}, variants |-> {}]
Resting == [stage |-> "idle"]

\* Nothing on the shelf but one product, shown with a picture.
CatalogueInit ==
    /\ \E p \in Products, n \in ProductNames, a \in Pictures, k \in VariantKeys :
          /\ shelf = [q \in Products |-> IF q # p THEN Absent ELSE
                [OnShelf([active |-> TRUE, name |-> n]) EXCEPT !.pictures = {a}, !.sold = {k}, !.variants = {k}]]
          /\ asset = [b \in Pictures |-> IF b = a THEN "ACTIVE" ELSE "none"]
          /\ bytes = [b \in Pictures |-> IF b = a THEN 1 ELSE 0]
          /\ stored = {a}
    /\ edit = [r \in Clerks |-> Resting]
    /\ edits = 0 /\ revived = {}

InStage(r, stage) == edit[r].stage = stage
Holds(r, lock) == ~InStage(r, "idle") /\ lock \in edit[r].locks
Free(r, lock) == \A q \in Clerks \ {r} : ~Holds(q, lock)
MoveTo(r, stage) == edit' = [edit EXCEPT ![r].stage = stage]

\* A request that throws is answered with an error, and what it had written is
\* kept all the same: the product that it inserted, without pictures and variants.
Written(r) == edit[r].written

Shelf(r, pictures, sold) == [shelf EXCEPT ![edit[r].product] =
    [live |-> TRUE, active |-> edit[r].row.active, name |-> edit[r].row.name, pictures |-> pictures,
     batch |-> IF pictures = @.pictures THEN @.batch ELSE @.batch + 1,
     sold |-> sold, variants |-> @.variants \union sold]]

TurnedDown(r) ==
    /\ edit' = [edit EXCEPT ![r] = Resting]
    /\ shelf' = IF Written(r) THEN Shelf(r, {}, {}) ELSE shelf
    /\ UNCHANGED <<bytes, stored, edits, revived>>

-----------------------------------------------------------------------------
(* Requests.                                                                  *)

\* What the client sends: `name' and `active' are what the row shall be, `asked'
\* the fields it names; `keep' are pictures of the page the client was looking
\* at and `file' one more.
Start(r, request) ==
    /\ InStage(r, "idle") /\ edits < MaxEdits
    /\ edits' = edits + 1
    /\ edit' = [edit EXCEPT ![r] = request]
    /\ UNCHANGED <<shelf, asset, bytes, stored, revived>>

Request(p, kind, stage, row, asked) ==
    [stage |-> stage, kind |-> kind, product |-> p, row |-> row, asked |-> asked,
     seen |-> shelf[p], keep |-> {}, sell |-> {}, file |-> FALSE, fresh |-> NoPicture, gone |-> NoPicture,
     drop |-> {}, written |-> FALSE, locks |-> {}]

\* createProduct takes the place before anything else.
StartCreate(r) ==
    \E p \in Products, n \in ProductNames, file \in BOOLEAN, sell \in SUBSET VariantKeys \ {{}} :
        /\ ~shelf[p].live /\ \A q \in Clerks : ~InStage(q, "idle") => edit[q].product # p
        /\ Start(r, [Request(p, "create", "place", [name |-> n, active |-> TRUE], {"active", "name"})
                       EXCEPT !.file = file, !.sell = sell])

\* updateProduct reads the row first; the fields that are not named are written
\* back as they were read.
StartUpdate(r) ==
    \E p \in Products : shelf[p].live /\
        \/ Start(r, Request(p, "update", "named", [name |-> shelf[p].name, active |-> shelf[p].active], {}))
        \/ \E n \in ProductNames :
              Start(r, Request(p, "update", "named", [name |-> n, active |-> shelf[p].active], {"name"}))
        \/ \E active \in BOOLEAN :
              Start(r, Request(p, "update", IF active /\ ~shelf[p].active THEN "place" ELSE "named",
                               [name |-> shelf[p].name, active |-> active], {"active"}))
        \/ \E keep \in SUBSET shelf[p].pictures, file \in BOOLEAN :
              Start(r, [Request(p, "update", "named", [name |-> shelf[p].name, active |-> shelf[p].active], {"pictures"})
                          EXCEPT !.keep = keep, !.file = file])
        \/ \E sell \in SUBSET VariantKeys \ {{}} :
              Start(r, [Request(p, "update", "named", [name |-> shelf[p].name, active |-> shelf[p].active], {"variants"})
                          EXCEPT !.sell = sell])

StartDelete(r) == \E p \in Products :
    shelf[p].live /\ Start(r, Request(p, "delete", "write", [name |-> shelf[p].name, active |-> FALSE], {}))

\* deleteImageFromCloudinary: the pictures are gone before their rows.
StartDrop(r) == \E p \in Products : \E a \in shelf[p].pictures :
    Start(r, [Request(p, "drop", "remove", [name |-> shelf[p].name, active |-> shelf[p].active], {})
                EXCEPT !.drop = {a}])

-----------------------------------------------------------------------------
(* The plan of the tenant.                                                    *)

OnSale(S) == {p \in Products : S[p].live /\ S[p].active}

PlaceFree(r) == Free(r, <<"products">>)

TakePlace(r) ==
    /\ InStage(r, "place") /\ PlaceFree(r)
    /\ \/ /\ Cardinality(OnSale(shelf)) < MaxProducts
          /\ edit' = [edit EXCEPT ![r].stage = "named", ![r].locks = @ \union {<<"products">>}]
          /\ UNCHANGED <<shelf, asset, bytes, stored, edits, revived>>
       \/ Cardinality(OnSale(shelf)) >= MaxProducts /\ TurnedDown(r) /\ UNCHANGED asset

Taken(r) == \E p \in Products \ {edit[r].product} : shelf[p].live /\ shelf[p].name = edit[r].row.name

CheckName(r) ==
    /\ InStage(r, "named")
    /\ \/ /\ "name" \in edit[r].asked => ~Taken(r)
          /\ MoveTo(r, IF edit[r].kind = "create" \/ "variants" \in edit[r].asked THEN "variants"
                    ELSE IF "pictures" \in edit[r].asked THEN "pictures" ELSE "write")
          /\ UNCHANGED <<shelf, asset, bytes, stored, edits, revived>>
       \/ "name" \in edit[r].asked /\ Taken(r) /\ TurnedDown(r) /\ UNCHANGED asset

\* A mutant: requests for one product do not wait for each other.
LockOfRequest(r, kind) == <<kind, r>>

\* Pictures, and variants, of one product are replaced by one request after the
\* other; a product that is being created has number 0.
LockOf(r, kind) ==
    <<kind, IF edit[r].kind = "create" THEN "new" ELSE edit[r].product>>

\* What an update reads behind the lock is still so when it writes.
TakeVariants(r) ==
    /\ InStage(r, "variants") /\ Free(r, LockOf(r, "variants"))
    /\ \/ /\ Cardinality(edit[r].sell) <= MaxVariants
          /\ edit' = [edit EXCEPT ![r].stage = IF edit[r].kind = "create" THEN "pictures" ELSE "write",
                                 ![r].locks = @ \union {LockOf(r, "variants")},
                                 ![r].seen = shelf[edit[r].product]]
          /\ UNCHANGED <<shelf, asset, bytes, stored, edits, revived>>
       \/ Cardinality(edit[r].sell) > MaxVariants /\ TurnedDown(r) /\ UNCHANGED asset

\* A mutant: what is kept is not counted again.
WantedNew(r) == IF edit[r].file THEN 1 ELSE 0

Wanted(r) == Cardinality(edit[r].keep) + WantedNew(r)

FitsAlbum(r) == Wanted(r) <= MaxPictures

TakeAlbum(r) ==
    /\ InStage(r, "pictures") /\ Free(r, LockOf(r, "pictures"))
    /\ \/ /\ FitsAlbum(r)
          /\ edit' = [edit EXCEPT
                ![r].stage = IF edit[r].kind = "update" /\ edit[r].file THEN "upload"
                             ELSE IF edit[r].kind = "update" THEN "remove" ELSE "write",
                ![r].locks = @ \union {LockOf(r, "pictures")},
                ![r].drop = IF edit[r].kind = "create" THEN {} ELSE shelf[edit[r].product].pictures \ edit[r].keep]
          /\ UNCHANGED <<shelf, asset, bytes, stored, edits, revived>>
       \/ ~FitsAlbum(r) /\ TurnedDown(r) /\ UNCHANGED asset

-----------------------------------------------------------------------------
(* CommercialAssetService: transactions of their own.                         *)

Counted(status, n) == {a \in Pictures : asset[a] \in status /\ bytes[a] >= n}
BytesOf(status) == Cardinality(Counted(status, 1)) + Cardinality(Counted(status, 2))

\* A mutant: what is being uploaded is not counted.
UsedByActive == BytesOf({"ACTIVE"})

Used == BytesOf({"UPLOADING", "ACTIVE"})

\* Which picture is sent makes no difference.
Unseen == {a \in Pictures : asset[a] = "none"}

\* Under a lock of the tenant: the bytes that are about to be sent are reserved.
Reserve(r) ==
    /\ InStage(r, "upload")
    /\ \/ /\ Used < MaxStorage
          /\ Unseen # {}
          /\ LET a == CHOOSE b \in Unseen : TRUE IN
             /\ asset' = [asset EXCEPT ![a] = "UPLOADING"]
             /\ bytes' = [bytes EXCEPT ![a] = 1]
             /\ edit' = [edit EXCEPT ![r].stage = "send", ![r].fresh = a]
          /\ UNCHANGED <<shelf, stored, edits, revived>>
       \/ Used >= MaxStorage /\ TurnedDown(r) /\ UNCHANGED asset

Send(r) ==
    /\ InStage(r, "send")
    /\ stored' = stored \union {edit[r].fresh}
    /\ MoveTo(r, "sent")
    /\ UNCHANGED <<shelf, asset, bytes, edits, revived>>

\* The provider says what the renditions of the picture take together: less than
\* what was sent, as much, or more.  Without the lock, and without another look at
\* the plan, that becomes its size.
Activate(r) ==
    /\ InStage(r, "sent")
    /\ asset' = [asset EXCEPT ![edit[r].fresh] = "ACTIVE"]
    /\ \E size \in 0..2 : bytes' = [bytes EXCEPT ![edit[r].fresh] = size]
    /\ MoveTo(r, IF edit[r].kind = "create" THEN "done" ELSE "remove")
    /\ UNCHANGED <<shelf, stored, edits, revived>>

\* The provider refuses, or the row cannot be updated although it took the
\* picture: the bytes are free again either way.
SendFails(r) ==
    /\ InStage(r, "send") \/ InStage(r, "sent")
    /\ asset' = [asset EXCEPT ![edit[r].fresh] = "FAILED"]
    /\ TurnedDown(r)

\* deleteByUrl: first the picture, then its row.
Removable(r) == {a \in edit[r].drop : asset[a] = "ACTIVE"}

Remove(r) ==
    /\ InStage(r, "remove")
    /\ \E a \in Removable(r) :
          /\ stored' = stored \ {a}
          /\ edit' = [edit EXCEPT ![r].stage = "removed", ![r].gone = a]
    /\ UNCHANGED <<shelf, asset, bytes, edits, revived>>

Forget(r) ==
    /\ InStage(r, "removed")
    /\ asset' = [asset EXCEPT ![edit[r].gone] = IF @ = "ACTIVE" THEN "DELETED" ELSE @]
    /\ MoveTo(r, "remove")
    /\ UNCHANGED <<shelf, bytes, stored, edits, revived>>

-----------------------------------------------------------------------------
(* The rows of the product.                                                   *)

\* Another request has written a row that this one would write, or its name, and
\* has not ended: this one waits for it.
Waits(r) == \E q \in Clerks \ {r} :
    /\ ~InStage(q, "idle") /\ Written(q)
    /\ edit[q].product = edit[r].product \/ edit[q].row.name = edit[r].row.name

Removed(r) == InStage(r, "write") \/ (InStage(r, "remove") /\ Removable(r) = {})

\* The unique index of the names decides, whatever was checked before.  A mutant
\* trusts the check.
NameTrusted(r) == FALSE

NameClash(r) == Taken(r)

Write(r) ==
    /\ Removed(r) /\ ~Waits(r)
    /\ edit[r].kind # "create" => shelf[edit[r].product].live
    /\ edit[r].kind \in {"create", "update"} => ~NameClash(r)
    /\ edit' = [edit EXCEPT ![r].written = TRUE,
                           ![r].stage = IF edit[r].kind = "create" /\ edit[r].file THEN "upload" ELSE "done"]
    /\ UNCHANGED <<shelf, asset, bytes, stored, edits, revived>>

Pictured(r) == edit[r].keep \union ({edit[r].fresh} \ {NoPicture})

\* An update of the pictures replaces all their rows; deleteImage removes the
\* rows that it read, not those that were written since.
Shown(r) ==
    CASE edit[r].kind = "create" \/ "pictures" \in edit[r].asked -> Pictured(r)
      [] edit[r].kind = "drop" /\ shelf[edit[r].product].batch = edit[r].seen.batch ->
            shelf[edit[r].product].pictures \ edit[r].drop
      [] OTHER -> shelf[edit[r].product].pictures

\* Variants that are not sent are no longer sold; their rows stay.
Sold(r) == IF edit[r].kind = "create" \/ "variants" \in edit[r].asked THEN edit[r].sell ELSE shelf[edit[r].product].sold

Activated(r) == edit[r].row.active /\ edit[r].kind \in {"create", "update"}

Finish(r) ==
    /\ InStage(r, "done")
    /\ LET p == edit[r].product IN
       /\ shelf' = CASE edit[r].kind = "delete" -> [shelf EXCEPT ![p] = Absent]
                     [] edit[r].kind = "drop" -> [shelf EXCEPT ![p].pictures = Shown(r)]
                     [] OTHER -> Shelf(r, Shown(r), Sold(r))
       /\ revived' = IF ~Activated(r) THEN revived \ (IF edit[r].kind = "drop" THEN {} ELSE {p})
                     ELSE IF shelf[p].active \/ Holds(r, <<"products">>) THEN revived
                     ELSE revived \union {p}
    /\ edit' = [edit EXCEPT ![r] = Resting]
    /\ UNCHANGED <<asset, bytes, stored, edits>>

\* The process dies, the client hangs up, the database refuses a statement (the
\* name, a reference to the product, a product that is gone): the rows of the
\* request are undone, what was done to the pictures is not.
Undo(r) ==
    /\ ~InStage(r, "idle")
    /\ edit' = [edit EXCEPT ![r] = Resting]
    /\ UNCHANGED <<shelf, asset, bytes, stored, edits, revived>>

CatalogueNext == \E r \in Clerks :
    \/ StartCreate(r) \/ StartUpdate(r) \/ StartDelete(r) \/ StartDrop(r)
    \/ TakePlace(r) \/ CheckName(r) \/ TakeAlbum(r) \/ TakeVariants(r)
    \/ Reserve(r) \/ Send(r) \/ Activate(r) \/ SendFails(r) \/ Remove(r) \/ Forget(r)
    \/ Write(r) \/ Finish(r) \/ Undo(r)

CatalogueSpec == CatalogueInit /\ [][CatalogueNext]_catalogueVars

-----------------------------------------------------------------------------
CatalogueTypeOK ==
    /\ shelf \in [Products -> [live : BOOLEAN, active : BOOLEAN, name : ProductNames,
                               pictures : SUBSET Pictures, batch : 0..MaxEdits,
                               sold : SUBSET VariantKeys, variants : SUBSET VariantKeys]]
    /\ asset \in [Pictures -> {"none", "UPLOADING", "ACTIVE", "FAILED", "DELETED"}]
    /\ bytes \in [Pictures -> 0..2] /\ stored \subseteq Pictures /\ revived \subseteq Products /\ edits \in 0..MaxEdits

\* The active products fit the plan.  Only an update that writes back a flag it
\* read before the product was deactivated goes beyond it.
ActiveWithinPlan == Cardinality(OnSale(shelf) \ revived) <= MaxProducts

\* Two requests for the pictures of one product do not add up.
PicturesWithinPlan == \A p \in Products : Cardinality(shelf[p].pictures) <= MaxPictures

\* So are its variants, and no row of a variant is inserted twice: those that a
\* request found behind its lock are all there are.
VariantsWithinPlan == \A p \in Products : Cardinality(shelf[p].sold) <= MaxVariants

VariantsAreSeen == \A r \in Clerks :
    InStage(r, "write") /\ "variants" \in edit[r].asked /\ shelf[edit[r].product].live
       => edit[r].seen.variants = shelf[edit[r].product].variants

\* No upload is admitted beside what is stored and what other uploads have
\* reserved, so the tenant goes beyond its plan only by what the renditions of
\* pictures add that were on their way when the last one was admitted: one for each
\* request, and none for those that have yet to add theirs.
OnTheWay == {r \in Clerks : edit[r].stage \in {"send", "sent"}}

StorageHeld ==
    BytesOf({"UPLOADING", "ACTIVE"}) + Cardinality(OnTheWay) <= MaxStorage + Cardinality(Clerks)

\* Two products never have one name, though each request reads before it writes.
NamesDiffer == \A p, q \in Products : (shelf[p].live /\ shelf[q].live /\ shelf[p].name = shelf[q].name) => p = q

\* The provider has no picture that the tenant has no row of: one that was never
\* reserved, or one that is said to be deleted.
OnTheBooks == \A a \in stored : asset[a] \in {"UPLOADING", "ACTIVE", "FAILED"}

\* What is on sale fits the plan and what is stored goes beyond it only by what
\* was being sent, however the editions of two clerks overlap, fail and are undone.
ShelvesHold == ActiveWithinPlan /\ PicturesWithinPlan /\ VariantsWithinPlan /\ VariantsAreSeen /\ StorageHeld /\ NamesDiffer /\ OnTheBooks
=============================================================================
