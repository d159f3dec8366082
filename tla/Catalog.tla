-------------------------------- MODULE Catalog --------------------------------
(***************************************************************************)
(* Products, variants and their facets, catalog.service.ts: a column such  *)
(* as the concentration is kept a second time as a facet of the item, next *)
(* to the facets that a caller sends.  Each call is one transaction that   *)
(* starts by writing the item's row, and so calls for an item follow each  *)
(* other; one that sends facets only takes no such lock, and the property  *)
(* says nothing of the items that were sent facets.  A value stands for    *)
(* all the spellings that normalizeFacetValue makes equal.                 *)
(***************************************************************************)
EXTENDS Requests

CONSTANTS Items,       \* products and variants
          ScopeOf,     \* "product" or "variant"
          FacetValues, \* values of columns and facets
          Explicit,    \* the sets of facets, <<key, value>>, that callers send
          Definable    \* the keys that callers define themselves

ASSUME CatalogAssumption ==
  /\ ScopeOf \in [Items -> {"product", "variant"}]
  /\ None \notin FacetValues \cup {"", "product", "variant"} /\ "" \notin FacetValues

VARIABLES columns,  \* per item, the columns that are also facets
          tags,     \* per item, its facets
          scopes,   \* facet definitions: the scope of each defined key
          handMade  \* history: the items that were ever sent facets

catalog == <<columns, tags, scopes, handMade>>

Derived(scope) == IF scope = "product" THEN {"brand", "concentration"} ELSE {"size"}
AutoCreated(scope) == IF scope = "product" THEN {"brand", "concentration", "sex"}
                                           ELSE {"size", "packaging"}
KeysOf(facets) == {t[1] : t \in facets}
FacetKeys == Definable \cup KeysOf(UNION Explicit) \cup Derived("product") \cup Derived("variant")

CatalogInit ==
  /\ columns = [i \in Items |-> None]
  /\ tags = [i \in Items |-> {}]
  /\ scopes = [k \in FacetKeys |-> None]
  /\ handMade = {}

(* mergeFacetInputs: what the caller sends hides the column.               *)
Merge(explicit, derived) ==
  explicit \cup {t \in derived : t[1] \notin KeysOf(explicit)}

(* resolveFacetDefinitions                                                 *)
Usable(facets, scope) ==
  \A k \in KeysOf(facets) : \/ scopes[k] = scope
                            \/ scopes[k] = None /\ k \in AutoCreated(scope)
Define(facets, scope) ==
  scopes' = [k \in FacetKeys |-> IF k \in KeysOf(facets) THEN scope ELSE scopes[k]]

(* What deleteMany of mode "keys" leaves.                                  *)
MutantOther(i, facets) == tags[i]  \* the old values are not deleted
Other(i, facets) == {t \in tags[i] : t[1] \notin KeysOf(facets)}

(* applyProductFacets, applyVariantFacets                                  *)
Apply(i, facets, kept) ==
  /\ Usable(facets, ScopeOf[i])
  /\ Define(facets, ScopeOf[i])
  /\ tags' = [tags EXCEPT ![i] = kept \cup facets]

FromColumns(values) == {<<k, values[k]>> : k \in {k \in DOMAIN values : values[k] \in FacetValues}}

(* The columns of a request; a brand is connected and never emptied.       *)
Sent(i) == {row \in [Derived(ScopeOf[i]) -> FacetValues \cup {"", None}] :
              "brand" \in DOMAIN row => row["brand"] # ""}

CreateItem(i) ==
  /\ columns[i] = None
  /\ \E row \in Sent(i), explicit \in Explicit \cup {{}} :
       /\ columns' = [columns EXCEPT ![i] = row]
       /\ Apply(i, Merge(explicit, FromColumns(row)), {})
       /\ handMade' = IF explicit = {} THEN handMade ELSE handMade \cup {i}

(* updateProduct, updateVariant without facets: only the facets of the     *)
(* columns in the request are replaced.                                    *)
UpdateItem(i) ==
  /\ columns[i] # None
  /\ \E row \in Sent(i) :
       /\ columns' = [columns EXCEPT ![i] =
            [k \in DOMAIN row |-> IF row[k] = None THEN columns[i][k] ELSE row[k]]]
       /\ Apply(i, FromColumns(row), Other(i, FromColumns(row)))
  /\ UNCHANGED handMade

(* ... with facets, which replace all of the item's.                       *)
ReplaceFacets(i) ==
  /\ columns[i] # None
  /\ \E row \in Sent(i), explicit \in Explicit \cup {{}} :
       /\ columns' = [columns EXCEPT ![i] =
            [k \in DOMAIN row |-> IF row[k] = None THEN columns[i][k] ELSE row[k]]]
       /\ Apply(i, Merge(explicit, FromColumns(row)), {})
  /\ handMade' = handMade \cup {i}

CreateFacetDefinition(k, scope) ==
  /\ scopes[k] = None
  /\ scopes' = [scopes EXCEPT ![k] = scope]
  /\ UNCHANGED <<columns, tags, handMade>>

CatalogNext ==
  \/ \E i \in Items : CreateItem(i) \/ UpdateItem(i) \/ ReplaceFacets(i)
  \/ \E k \in Definable, scope \in {"product", "variant"} : CreateFacetDefinition(k, scope)

(* However an item was created and edited, a column that has a value is    *)
(* shown by exactly one facet, that value, unless the item was ever sent   *)
(* facets of its own (the "keys" mode of applyProductFacets).              *)
FacetsFollowColumns ==
  \A i \in Items \ handMade : columns[i] # None =>
    \A k \in DOMAIN columns[i] : columns[i][k] \in FacetValues =>
      {t \in tags[i] : t[1] = k} = {<<k, columns[i][k]>>}
================================================================================
