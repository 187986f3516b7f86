------------------------------ MODULE Taxonomy ------------------------------
(***************************************************************************)
(* product-service: the categories of a tenant, the attributes products    *)
(* inherit from them (attributes/, category/), and what one product stores *)
(* of both: its category links, the options of its variants and its specs. *)
(*                                                                         *)
(* SetCategories checks, deletes and inserts in three statements without a *)
(* transaction.  Options and specs are written in a transaction, but the   *)
(* categories and attributes they are checked against are only read.       *)
(* Foreign keys cascade: a category takes its attributes with it, an       *)
(* attribute its values, and both the options and specs that name them.    *)
(* Names, codes, slugs, positions and the parents of categories are left   *)
(* out; the product and its variants stay (Products deletes them).         *)
(***************************************************************************)
EXTENDS FiniteSets

CONSTANTS
  Category, Attribute, Value,   \* ids of the rows that may be created
  ProductVariant,               \* the variants of the product
  Clerk,                        \* requests of managers in progress at the same time
  New, Erased,                  \* an id without a row: not yet created, or deleted
  NoTask

VARIABLES
  category,    \* category[c]: "row", or no row
  attribute,   \* attribute[a]: the row of a, its category and role
  value,       \* value[x]: the attribute that offers the choice x
  links,       \* product_categories of the product
  options,     \* options[v]: product_variant_options of v, pairs of attribute and value
  specs,       \* product_specs of the product: the attributes with a value
  task,        \* task[k]: what request k is doing
  disturbed    \* requests during which another one has changed a table

rows == <<category, attribute, value, links, options, specs>>
taxonomyVars == <<rows, task, disturbed>>

Role == {"VARIANT", "SPEC"}

AttributeRow == [category : Category, role : Role]

\* One value per attribute, as the primary key of product_variant_options has it.
OptionSets == {S \in SUBSET (Attribute \X Value) : \A s, t \in S : s[1] = t[1] => s = t}

Task ==
  [op : {"categories"}, step : {"delete", "insert"}, ids : SUBSET Category]
    \cup [op : {"options"}, variant : ProductVariant, set : OptionSets]
    \cup [op : {"specs"}, set : SUBSET Attribute]
    \cup [op : {"attribute"}, id : Attribute, row : AttributeRow]

ASSUME TaxonomyAssumption ==
  /\ {New, Erased} \cap Attribute = {} /\ {New, Erased} \cap AttributeRow = {}
  /\ "row" \notin {New, Erased} /\ New # Erased
  /\ NoTask \notin Task

TaxonomyInit ==
  /\ category = [c \in Category |-> New]
  /\ attribute = [a \in Attribute |-> New]
  /\ value = [x \in Value |-> New]
  /\ links = {}
  /\ options = [v \in ProductVariant |-> {}]
  /\ specs = {}
  /\ task = [k \in Clerk |-> NoTask]
  /\ disturbed = {}

-----------------------------------------------------------------------------
Alive(table) == {i \in DOMAIN table : table[i] \notin {New, Erased}}

\* Repository.ListByCategories: the attributes of the product's categories.
ListByCategories(ids) == {a \in Alive(attribute) : attribute[a].category \in ids}

WithRole(role) == {a \in ListByCategories(links) : attribute[a].role = role}

\* enrich: the axes, and the options and specs whose attribute is still one of the product's.
Shown(v) ==
  [axes |-> WithRole("VARIANT"),
   options |-> {o \in options[v] : o[1] \in ListByCategories(links)},
   specs |-> specs \cap ListByCategories(links)]

Busy == {k \in Clerk : task[k] # NoTask}

\* Request k changes rows in this step; its task goes on or ends.
Writing(k, next) ==
  /\ task' = [task EXCEPT ![k] = next]
  /\ disturbed' = (disturbed \cup (Busy \ {k})) \cap {j \in Clerk : task'[j] # NoTask}

Reading(k, next) ==
  /\ task' = [task EXCEPT ![k] = next]
  /\ UNCHANGED <<rows, disturbed>>

TaskStops(k) ==
  /\ task[k] # NoTask
  /\ task' = [task EXCEPT ![k] = NoTask]
  /\ disturbed' = disturbed \ {k}
  /\ UNCHANGED rows

\* ON DELETE CASCADE, from attributes and values to options and specs.
Cascade(attrs, values) ==
  /\ attribute' = [a \in Attribute |-> IF a \in attrs THEN Erased ELSE attribute[a]]
  /\ value' = [x \in Value |-> IF x \in values \/ value[x] \in attrs THEN Erased ELSE value[x]]
  /\ options' = [v \in ProductVariant |->
                   {o \in options[v] : o[1] \notin attrs /\ o[2] \notin values}]
  /\ specs' = specs \ attrs

CreateCategory(k, c) ==
  /\ category[c] = New
  /\ category' = [category EXCEPT ![c] = "row"]
  /\ Writing(k, NoTask)
  /\ UNCHANGED <<attribute, value, links, options, specs>>

DeleteCategory(k, c) ==
  /\ c \in Alive(category)
  /\ category' = [category EXCEPT ![c] = Erased]
  /\ links' = links \ {c}
  /\ Cascade(ListByCategories({c}), {})
  /\ Writing(k, NoTask)

\* The category is looked up first; the foreign key answers the same if it has gone.
CreateAttribute(k, a, row) ==
  /\ attribute[a] = New
  /\ row.category \in Alive(category)
  /\ attribute' = [attribute EXCEPT ![a] = row]
  /\ Writing(k, NoTask)
  /\ UNCHANGED <<category, value, links, options, specs>>

\* load reads the row; a patch without a role keeps the one it read.
UpdateAttribute(k, a, role) ==
  /\ a \in Alive(attribute)
  /\ Reading(k, [op |-> "attribute", id |-> a, row |-> [attribute[a] EXCEPT !.role = role]])

WriteAttribute(k) ==
  /\ task[k] # NoTask
  /\ task[k].op = "attribute"
  /\ task[k].id \in Alive(attribute)
  /\ attribute' = [attribute EXCEPT ![task[k].id].role = task[k].row.role]
  /\ Writing(k, NoTask)
  /\ UNCHANGED <<category, value, links, options, specs>>

DeleteAttribute(k, a) ==
  /\ a \in Alive(attribute)
  /\ Cascade({a}, {})
  /\ Writing(k, NoTask)
  /\ UNCHANGED <<category, links>>

AddValue(k, x, a) ==
  /\ value[x] = New
  /\ a \in Alive(attribute)
  /\ value' = [value EXCEPT ![x] = a]
  /\ Writing(k, NoTask)
  /\ UNCHANGED <<category, attribute, links, options, specs>>

DeleteValue(k, x) ==
  /\ x \in Alive(value)
  /\ Cascade({}, {x})
  /\ Writing(k, NoTask)
  /\ UNCHANGED <<category, links>>

\* SetCategories: CountExisting finds every id among the tenant's categories.
SetCategories(k, ids) ==
  /\ ids \subseteq Alive(category)
  /\ Reading(k, [op |-> "categories", step |-> "delete", ids |-> ids])

\* SetForProduct, first statement; with no ids it is the only one.
UnlinkAll(k) ==
  /\ task[k] # NoTask
  /\ task[k].op = "categories" /\ task[k].step = "delete"
  /\ links' = {}
  /\ Writing(k, IF task[k].ids = {} THEN NoTask ELSE [task[k] EXCEPT !.step = "insert"])
  /\ UNCHANGED <<category, attribute, value, options, specs>>

\* ... and the second, ON CONFLICT DO NOTHING; the foreign key wants every category.
LinkEach(k) ==
  /\ task[k] # NoTask
  /\ task[k].op = "categories" /\ task[k].step = "insert"
  /\ task[k].ids \subseteq Alive(category)
  /\ links' = links \cup task[k].ids
  /\ Writing(k, NoTask)
  /\ UNCHANGED <<category, attribute, value, options, specs>>

\* resolveVariantOptions: every option names an axis of the product's categories.
ResolveOptions(k, v, set) ==
  /\ {o[1] : o \in set} \subseteq WithRole("VARIANT")
  /\ Reading(k, [op |-> "options", variant |-> v, set |-> set])

\* SetForVariant: the composite foreign key wants each value among the attribute's.
WriteOptions(k) ==
  /\ task[k] # NoTask
  /\ task[k].op = "options"
  /\ \A o \in task[k].set : value[o[2]] = o[1]
  /\ options' = [options EXCEPT ![task[k].variant] = task[k].set]
  /\ Writing(k, NoTask)
  /\ UNCHANGED <<category, attribute, value, links, specs>>

AnyAttribute(set) == set \subseteq Alive(attribute)

\* SetSpecs reads the display attributes of the product's categories.
SpecAttributes(set) == set \subseteq WithRole("SPEC")

SetSpecs(k, set) ==
  /\ SpecAttributes(set)
  /\ Reading(k, [op |-> "specs", set |-> set])

\* SpecRepository.Replace; the foreign key wants the attributes to exist.
ReplaceSpecs(k) ==
  /\ task[k] # NoTask
  /\ task[k].op = "specs"
  /\ task[k].set \subseteq Alive(attribute)
  /\ specs' = task[k].set
  /\ Writing(k, NoTask)
  /\ UNCHANGED <<category, attribute, value, links, options>>

-----------------------------------------------------------------------------
CategoryRequest(k) ==
  \E c \in Category : CreateCategory(k, c) \/ DeleteCategory(k, c)

AttributeRequest(k) ==
  \E a \in Attribute :
    \/ \E row \in AttributeRow : CreateAttribute(k, a, row)
    \/ \E role \in Role : UpdateAttribute(k, a, role)
    \/ DeleteAttribute(k, a)
    \/ \E x \in Value : AddValue(k, x, a)

CatalogRequest(k) ==
  \/ \E ids \in SUBSET Category : SetCategories(k, ids)
  \/ \E v \in ProductVariant, set \in OptionSets : ResolveOptions(k, v, set)
  \/ \E set \in SUBSET Attribute : SetSpecs(k, set)

TaskStep(k) ==
  \/ WriteAttribute(k)
  \/ UnlinkAll(k)
  \/ LinkEach(k)
  \/ WriteOptions(k)
  \/ ReplaceSpecs(k)
  \/ TaskStops(k)

TaxonomyNext ==
  \E k \in Clerk :
    \/ /\ task[k] = NoTask
       /\ \/ CategoryRequest(k)
          \/ AttributeRequest(k)
          \/ \E x \in Value : DeleteValue(k, x)
          \/ CatalogRequest(k)
    \/ TaskStep(k)

TaxonomySpec == TaxonomyInit /\ [][TaxonomyNext]_taxonomyVars

-----------------------------------------------------------------------------
(***************************************************************************)
(* Properties.                                                             *)
(***************************************************************************)

\* The variables have their types, and every stored reference has its row.
TaxonomyTypeOK ==
  /\ category \in [Category -> {"row", New, Erased}]
  /\ attribute \in [Attribute -> AttributeRow \cup {New, Erased}]
  /\ value \in [Value -> Attribute \cup {New, Erased}]
  /\ options \in [ProductVariant -> OptionSets]
  /\ task \in [Clerk -> Task \cup {NoTask}] /\ disturbed \subseteq Busy
  /\ links \subseteq Alive(category)
  /\ \A a \in Alive(attribute) : attribute[a].category \in Alive(category)
  /\ \A x \in Alive(value) : value[x] \in Alive(attribute)
  /\ \A v \in ProductVariant : \A o \in options[v] : value[o[2]] = o[1]
  /\ specs \subseteq Alive(attribute)

\* Request k, of kind op, changes rows with its last statement.
Answers(k, op) == task[k] # NoTask /\ task[k].op = op /\ task'[k] = NoTask /\ rows' # rows

(***************************************************************************)
(* SetForProduct "replaces the product's category links with exactly       *)
(* categoryIDs"; resolveVariantOptions "checks each names a VARIANT axis   *)
(* defined for the product's categories"; specs are their SPEC attributes. *)
(* When such a request is answered, this is so, and the product's page     *)
(* shows all that was stored, unless another request changed a table since *)
(* it began.  (Two SetCategories can leave the union of both sets; one     *)
(* whose category is deleted after the check leaves none.)                 *)
(***************************************************************************)
OnlyOverlapsMisplaceProducts ==
  [][\A k \in Clerk \ disturbed :
       /\ Answers(k, "categories") => links' = task[k].ids
       /\ Answers(k, "options") =>
            \A v \in ProductVariant : v = task[k].variant =>
              /\ Shown(v)'.options = task[k].set
              /\ {o[1] : o \in options'[v]} \subseteq Shown(v)'.axes
       /\ Answers(k, "specs") =>
            \A v \in ProductVariant :
              /\ Shown(v)'.specs = task[k].set
              /\ specs' \cap Shown(v)'.axes = {}]_taxonomyVars
=============================================================================
