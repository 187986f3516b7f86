------------------------------ MODULE Products ------------------------------
(***************************************************************************)
(* product-service: products and their variants                            *)
(* (product/services/service.go).  Managers edit the products of a tenant; *)
(* the storefront shows those with status ACTIVE.                          *)
(*                                                                         *)
(* UpdateProduct reads the row, counts the variants if the product is to   *)
(* be activated, and writes the whole row back, in three statements without *)
(* a transaction.  AddVariant and UpdateVariant use one, at READ COMMITTED  *)
(* and without row locks: what they read may be old when they commit.      *)
(* Slugs and SKUs are unique in the schema; a request that breaks this is  *)
(* refused and changes nothing, like any other that stops half way.        *)
(***************************************************************************)
EXTENDS Integers, FiniteSets

CONSTANTS
  Product, Variant,   \* ids of the rows that may be created
  Editor,             \* requests of managers that may be in progress at the same time
  Unborn, Removed,    \* an id without a row: not yet created, or deleted
  Keep,               \* a field a PATCH leaves out
  NoEdit

VARIABLES
  product,     \* product[p]: the status in p's row
  variant,     \* variant[v]: the row of v, its product and is_default
  editing,     \* editing[e]: what request e is doing
  overlapped   \* requests during which another one has changed a row

productVars == <<product, variant, editing, overlapped>>

Status == {"DRAFT", "ACTIVE", "ARCHIVED"}

VariantRow == [product : Product, isDefault : BOOLEAN]

\* The fields of the requests that matter: the status, and is_default.
UpdateProductRequest == [status : Status \cup {Keep}]
CreateVariantRequest == [isDefault : BOOLEAN]
UpdateVariantRequest == [isDefault : BOOLEAN \cup {Keep}]

Edit ==
  [op : {"update"}, step : {"count", "write"}, product : Product, status : Status]
    \cup [op : {"add"}, product : Product, body : CreateVariantRequest]
    \cup [op : {"patch"}, product : Product, variant : Variant,
          row : BOOLEAN, body : UpdateVariantRequest]

ASSUME ProductsAssumption ==
  /\ Keep \notin Status /\ Keep \notin BOOLEAN
  /\ NoEdit \notin Edit
  /\ Unborn # Removed /\ {Unborn, Removed} \cap (Status \cup VariantRow) = {}

ProductsInit ==
  /\ product = [p \in Product |-> Unborn]
  /\ variant = [v \in Variant |-> Unborn]
  /\ editing = [e \in Editor |-> NoEdit]
  /\ overlapped = {}

-----------------------------------------------------------------------------
Rows(row) == {x \in DOMAIN row : row[x] \notin {Unborn, Removed}}

ListByProduct(p) == {v \in Rows(variant) : variant[v].product = p}

\* ProductRepository.List with a status in its filter.
ListProducts(status) == {p \in Rows(product) : product[p] = status}

\* The storefront: ListPublished and GetPublished.
Published == ListProducts("ACTIVE")

\* What GetProduct answers: the row, and the variants read after it.
Detail(p) == [status |-> product[p], variants |-> ListByProduct(p)]

\* The request ends, and with it its overlaps; the others now overlap its change.
Done(e) ==
  /\ editing' = [editing EXCEPT ![e] = NoEdit]
  /\ overlapped' = (overlapped \cup {f \in Editor : editing[f] # NoEdit}) \ {e}

BeginEdit(e, doing) ==
  /\ editing' = [editing EXCEPT ![e] = doing]
  /\ UNCHANGED <<product, variant, overlapped>>

Refused(e) ==
  /\ editing' = [editing EXCEPT ![e] = NoEdit]
  /\ overlapped' = overlapped \ {e}
  /\ UNCHANGED <<product, variant>>

CreateProduct(e, p) ==
  /\ editing[e] = NoEdit
  /\ product[p] = Unborn
  /\ product' = [product EXCEPT ![p] = "DRAFT"]
  /\ Done(e)
  /\ UNCHANGED variant

\* ProductRepository.GetByID, and the fields of the request put over the row.
UpdateProduct(e, p, body) ==
  /\ editing[e] = NoEdit
  /\ p \in Rows(product)
  /\ BeginEdit(e, [op |-> "update", product |-> p,
               step |-> IF body.status = "ACTIVE" THEN "count" ELSE "write",
               status |-> IF body.status = Keep THEN product[p] ELSE body.status])

NeverEmpty(p) == TRUE

\* ErrActivateNeedsVariant unless CountByProduct finds a variant.
HasVariant(p) == ListByProduct(p) # {}

CountByProduct(e) ==
  /\ editing[e] # NoEdit
  /\ editing[e].op = "update" /\ editing[e].step = "count"
  /\ IF HasVariant(editing[e].product)
       THEN BeginEdit(e, [editing[e] EXCEPT !.step = "write"])
       ELSE Refused(e)

\* ProductRepository.Update: every column, with the status as it was read.
WriteProduct(e) ==
  /\ editing[e] # NoEdit
  /\ editing[e].op = "update" /\ editing[e].step = "write"
  /\ editing[e].product \in Rows(product)
  /\ product' = [product EXCEPT ![editing[e].product] = editing[e].status]
  /\ Done(e)
  /\ UNCHANGED variant

\* ON DELETE CASCADE takes the variants with the product.
DeleteProduct(e, p) ==
  /\ editing[e] = NoEdit
  /\ p \in Rows(product)
  /\ product' = [product EXCEPT ![p] = Removed]
  /\ variant' = [v \in Variant |-> IF v \in ListByProduct(p) THEN Removed ELSE variant[v]]
  /\ Done(e)

\* VariantRepository.ClearDefault, for all variants of the product but one.
ClearDefault(p, others) ==
  [v \in Variant |-> IF v \in ListByProduct(p) \ others
                       THEN [variant[v] EXCEPT !.isDefault = FALSE] ELSE variant[v]]

AddVariant(e, p, body) ==
  /\ editing[e] = NoEdit
  /\ p \in Rows(product)
  /\ BeginEdit(e, [op |-> "add", product |-> p, body |-> body])

\* ClearDefault and INSERT in one transaction; the product must still exist.
InsertVariant(e, v) ==
  /\ editing[e] # NoEdit
  /\ editing[e].op = "add"
  /\ editing[e].product \in Rows(product)
  /\ variant[v] = Unborn
  /\ LET row == [product |-> editing[e].product, isDefault |-> editing[e].body.isDefault]
     IN  variant' = [(IF row.isDefault THEN ClearDefault(row.product, {}) ELSE variant)
                       EXCEPT ![v] = row]
  /\ Done(e)
  /\ UNCHANGED product

\* The transaction of UpdateVariant starts: VariantRepository.GetByID.
UpdateVariant(e, v, body) ==
  /\ editing[e] = NoEdit
  /\ v \in Rows(variant)
  /\ BeginEdit(e, [op |-> "patch", product |-> variant[v].product, variant |-> v,
               row |-> variant[v].isDefault, body |-> body])

\* applyVariantPatch.
PatchedDefault(row, body) == IF body.isDefault = Keep THEN row ELSE body.isDefault

\* ... and ends: ClearDefault if the row, read or patched, is the default; Update.
WriteVariant(e) ==
  /\ editing[e] # NoEdit
  /\ editing[e].op = "patch"
  /\ editing[e].variant \in Rows(variant)
  /\ LET isDefault == PatchedDefault(editing[e].row, editing[e].body)
     IN  variant' = [(IF isDefault THEN ClearDefault(editing[e].product, {editing[e].variant}) ELSE variant)
                       EXCEPT ![editing[e].variant].isDefault = isDefault]
  /\ Done(e)
  /\ UNCHANGED product

\* Nothing is asked about the status of the product.
DeleteVariant(e, v) ==
  /\ editing[e] = NoEdit
  /\ v \in Rows(variant)
  /\ variant' = [variant EXCEPT ![v] = Removed]
  /\ Done(e)
  /\ UNCHANGED product

\* A statement fails, finds no row or breaks a constraint, or the client goes away.
EditingStops(e) == editing[e] # NoEdit /\ Refused(e)

-----------------------------------------------------------------------------
ProductRequest(e, p) ==
  \/ CreateProduct(e, p)
  \/ \E body \in UpdateProductRequest : UpdateProduct(e, p, body)
  \/ DeleteProduct(e, p)

VariantRequest(e) ==
  \/ \E p \in Product, body \in CreateVariantRequest : AddVariant(e, p, body)
  \/ \E v \in Variant, body \in UpdateVariantRequest : UpdateVariant(e, v, body)
  \/ \E v \in Variant : DeleteVariant(e, v)

ProductsNext ==
  \E e \in Editor :
    \/ \E p \in Product : ProductRequest(e, p)
    \/ VariantRequest(e)
    \/ CountByProduct(e)
    \/ WriteProduct(e)
    \/ \E v \in Variant : InsertVariant(e, v)
    \/ WriteVariant(e)
    \/ EditingStops(e)

ProductsSpec == ProductsInit /\ [][ProductsNext]_productVars

-----------------------------------------------------------------------------
(***************************************************************************)
(* Properties.                                                             *)
(***************************************************************************)

DefaultsOf(p) == {v \in ListByProduct(p) : variant[v].isDefault}

\* The variables have their types; a variant's product exists, with one default at most.
ProductsTypeOK ==
  /\ product \in [Product -> Status \cup {Unborn, Removed}]
  /\ variant \in [Variant -> VariantRow \cup {Unborn, Removed}]
  /\ editing \in [Editor -> Edit \cup {NoEdit}]
  /\ overlapped \subseteq {e \in Editor : editing[e] # NoEdit}
  /\ \A v \in Rows(variant) : variant[v].product \in Rows(product)
  /\ \A p \in Product : Cardinality(DefaultsOf(p)) <= 1

Bare == {p \in Published : Detail(p).variants = {}}

\* Request e changes a row in this step and ends.
Changes(e) == editing[e] # NoEdit /\ editing'[e] = NoEdit /\ <<product, variant>>' # <<product, variant>>

VariantsDeleted == {v \in Rows(variant) : variant'[v] = Removed}

NamesDefault(e) == editing[e].op \in {"add", "patch"} /\ editing[e].body.isDefault # Keep

(***************************************************************************)
(* ErrActivateNeedsVariant: "a product needs at least one variant before   *)
(* it can be activated", and the default is the variant last asked for.    *)
(* Both are decided on rows read earlier, so a request that was overlapped *)
(* by another may leave a product on sale with nothing to buy, or move the *)
(* default without naming it.  Nothing else does, except the deletion of   *)
(* the variant itself, which asks for neither.                             *)
(***************************************************************************)
OnlyOverlapsSpoilProducts ==
  [][/\ Bare' \subseteq Bare \/ VariantsDeleted # {} \/ \E e \in overlapped : Changes(e)
     /\ \A p \in Product : DefaultsOf(p)' # DefaultsOf(p)
          => \/ VariantsDeleted # {}
             \/ \E e \in Editor : Changes(e) /\ (e \in overlapped \/ NamesDefault(e))]_productVars
=============================================================================
