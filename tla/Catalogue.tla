-------------------------------- MODULE Catalogue --------------------------------
(***************************************************************************)
(* The category tree and the products filed in it (category.service.ts,     *)
(* category.repository.ts, product.service.ts, product.repository.ts).      *)
(*                                                                          *)
(* A request reads what it checks in statements of their own and writes     *)
(* afterwards. Deleting a category is soft while something depends on it;   *)
(* a hard deletion makes the database clear every reference to the row.     *)
(* What a seller browses is computed in two ways: the tree with its totals  *)
(* walks up from the products, a listing walks down from the category.      *)
(***************************************************************************)
EXTENDS Integers, FiniteSets, Functions, FiniteSetsExt

CONSTANTS
    Categories,     \* rows of Categories
    StoreCategories,    \* those that some store lists or has as its primary category
    Articles,       \* rows of Products
    Editors,        \* requests of administrators and sellers
    NoCategory

ASSUME CatalogueConstants ==
    /\ IsFiniteSet(Categories) /\ IsFiniteSet(Articles)
    /\ StoreCategories \subseteq Categories /\ NoCategory \notin Categories

VARIABLES
    category,       \* absent, live or (soft-)deleted, and the parent
    article,        \* whether the product exists and isActive; its category
    edit,           \* the requests
    catalogueRaced  \* ghost: two requests overlapped

catalogueVars == <<category, article, edit, catalogueRaced>>

Resting == [pc |-> "idle", on |-> NoCategory, to |-> NoCategory]
Rows == {c \in Categories : category[c].state # "absent"}
LiveCategories == {c \in Categories : category[c].state = "live"}
LiveChildren(cs) == {c \in LiveCategories : category[c].parent \in cs}

\* A request reads (and remembers what it is about), or ends.
Reads(e, pc, on, to) ==
    /\ edit[e].pc = "idle"
    /\ edit' = [edit EXCEPT ![e] = [pc |-> pc, on |-> on, to |-> to]]
    /\ catalogueRaced' = (catalogueRaced \/ \E f \in Editors \ {e} : edit[f].pc # "idle")
    /\ UNCHANGED <<category, article>>
Ends(e) == edit' = [edit EXCEPT ![e] = Resting] /\ UNCHANGED catalogueRaced

-----------------------------------------------------------------------------
(* The tree. *)

\* createCategory looks the parent up by its id, soft-deleted or not ...
CreateCategoryRead(e, c, parent) ==
    /\ category[c].state = "absent" /\ \A f \in Editors : edit[f].on # c
    /\ parent \in Rows \cup {NoCategory}
    /\ Reads(e, "creating", c, parent)

\* ... and the insert fails when it is gone by then.
CreateCategoryWrite(e) ==
    LET c == edit[e].on
        parent == edit[e].to
    IN  /\ edit[e].pc = "creating"
        /\ category' = IF parent \in Rows \cup {NoCategory}
                       THEN [category EXCEPT ![c] = [state |-> "live", parent |-> parent]]
                       ELSE category
        /\ Ends(e)
        /\ UNCHANGED article

\* What keeps a category from a hard deletion.
HasDependencies(c) ==
    \/ LiveChildren({c}) # {} \/ c \in StoreCategories
    \/ \E a \in Articles : article[a].category = c

DeleteCategoryRead(e, c) ==
    /\ c \in Rows
    /\ Reads(e, IF HasDependencies(c) THEN "hiding" ELSE "deleting", c, NoCategory)

\* softDeleteCategory
HideCategory(e) ==
    LET c == edit[e].on
    IN  /\ edit[e].pc = "hiding"
        /\ category' = IF c \in Rows THEN [category EXCEPT ![c].state = "deleted"] ELSE category
        /\ Ends(e)
        /\ UNCHANGED article

\* hardDeleteCategory: ON DELETE SET NULL detaches sub-categories and products.
DeleteCategory(e) ==
    LET c == edit[e].on
        Detached(ref) == IF ref = c THEN NoCategory ELSE ref
    IN  /\ edit[e].pc = "deleting"
        /\ category' = [d \in Categories |->
                          IF d = c THEN [state |-> "absent", parent |-> NoCategory]
                          ELSE [category[d] EXCEPT !.parent = Detached(@)]]
        /\ article' = [a \in Articles |-> [article[a] EXCEPT !.category = Detached(@)]]
        /\ Ends(e)

-----------------------------------------------------------------------------
(* The products. *)

\* assertCategoryIsLeaf
IsLeaf(c) == c \in LiveCategories /\ LiveChildren({c}) = {}

\* createProduct: the leaf check is made before the transaction ...
AddRead(e, a, c) ==
    /\ article[a].state = "absent" /\ \A f \in Editors : edit[f].on # a
    /\ IsLeaf(c)
    /\ Reads(e, "adding", a, c)

\* A product's category is connected, unless its row is gone by then: the
\* transaction fails.
Connect(a, state, c) ==
    article' = IF c \in Rows THEN [article EXCEPT ![a] = [state |-> state, category |-> c]]
               ELSE article

\* ... that inserts the product, its stock and its images.
AddWrite(e) ==
    /\ edit[e].pc = "adding"
    /\ Connect(edit[e].on, "active", edit[e].to)
    /\ Ends(e)
    /\ UNCHANGED category

\* updateProduct with a category, checked in the same way ...
RefileRead(e, a, c) ==
    /\ article[a].state # "absent"
    /\ IsLeaf(c)
    /\ Reads(e, "refiling", a, c)

\* ... and written with the other fields and the stock.
RefileWrite(e) ==
    /\ edit[e].pc = "refiling"
    /\ Connect(edit[e].on, article[edit[e].on].state, edit[e].to)
    /\ Ends(e)
    /\ UNCHANGED category

\* deleteProduct takes a product off sale, updateProduct may put it back.
ToggleArticle(a) ==
    /\ article[a].state # "absent"
    /\ article' = [article EXCEPT ![a].state = IF @ = "active" THEN "inactive" ELSE "active"]
    /\ UNCHANGED <<category, edit, catalogueRaced>>

-----------------------------------------------------------------------------
(* What a seller browses. *)

\* getDescendantCategoryIds: breadth first through the live sub-categories. The
\* walk has at most one round for each category.
Descendants(c) ==
    LET below[n \in 0..Cardinality(Categories)] ==
            IF n = 0 THEN {c} ELSE below[n - 1] \cup LiveChildren(below[n - 1])
    IN  below[Cardinality(Categories)]

\* getAncestorClosure: the live rows among `ids` and, above them, the live parents.
AncestorClosure(ids) ==
    LET above[n \in 0..Cardinality(Categories)] ==
            IF n = 0 THEN ids \cap LiveCategories
            ELSE above[n - 1] \cup {p \in LiveCategories : \E c \in above[n - 1] : category[c].parent = p}
    IN  above[Cardinality(Categories)]

\* getUsedCategoryCounts
DirectCount(c) == Cardinality({a \in Articles : article[a].state = "active" /\ article[a].category = c})

\* getMyCategories: the nodes of the tree and the roll-up of their counts
Nodes == AncestorClosure({article[a].category : a \in {b \in Articles : article[b].state = "active"}})
TotalCount(c) ==
    LET rolled[n \in 0..Cardinality(Categories)] ==
            [d \in Nodes |-> DirectCount(d) +
                IF n = 0 THEN 0
                ELSE SumFunctionOnSet(rolled[n - 1], {k \in Nodes : category[k].parent = d})]
    IN  rolled[Cardinality(Categories)][c]

\* getMyProducts and getAllProducts filtered by a category
Listing(c) == {a \in Articles : article[a].state = "active" /\ article[a].category \in Descendants(c)}

-----------------------------------------------------------------------------
CatalogueInit ==
    /\ category = [c \in Categories |-> [state |-> "absent", parent |-> NoCategory]]
    /\ article = [a \in Articles |-> [state |-> "absent", category |-> NoCategory]]
    /\ edit = [e \in Editors |-> Resting]
    /\ catalogueRaced = FALSE

CatalogueStep(editors, cs) ==
    \/ \E e \in editors :
          \/ CreateCategoryWrite(e) \/ HideCategory(e) \/ DeleteCategory(e)
          \/ AddWrite(e) \/ RefileWrite(e)
          \/ \E c \in cs :
                \/ DeleteCategoryRead(e, c)
                \/ \E p \in Categories \cup {NoCategory} : CreateCategoryRead(e, c, p)
                \/ \E a \in Articles : AddRead(e, a, c) \/ RefileRead(e, a, c)
    \/ \E a \in Articles : ToggleArticle(a)

CatalogueNext == CatalogueStep(Editors, Categories)

CatalogueSpec == CatalogueInit /\ [][CatalogueNext]_catalogueVars

-----------------------------------------------------------------------------
\* Every variable keeps its type, and references name rows that exist.
CatalogueTypeOK ==
    /\ \A c \in Categories :
          /\ category[c].state \in {"absent", "live", "deleted"}
          /\ category[c].parent \in Rows \cup {NoCategory}
    /\ \A a \in Articles :
          /\ article[a].state \in {"absent", "active", "inactive"}
          /\ article[a].category \in Rows \cup {NoCategory}

\* The number beside a category in the seller's tree is the number of products
\* its listing shows, whatever was hidden, deleted or refiled: the roll-up along
\* parents (getMyCategories) and the walk down (getMyProducts) agree.
CountsMatchListings == \A c \in Nodes : TotalCount(c) = Cardinality(Listing(c))

\* A deletion that no other request overlaps takes no product out of its
\* category and no live sub-category from under its parent.
NothingIsDetached ==
    [][~catalogueRaced' =>
          /\ \A a \in Articles : article[a].category # NoCategory => article'[a].category # NoCategory
          /\ \A c \in LiveCategories : c \in LiveCategories' => category'[c].parent = category[c].parent
      ]_catalogueVars

\* The tree, the totals and the listings agree.
CatalogueAgrees == CatalogueTypeOK /\ CountsMatchListings
=============================================================================
