------------------------------- MODULE MCShop -------------------------------
(***************************************************************************)
(* The services around the order: row locks, cart, store configuration,    *)
(* returns, subscriptions, catalogue, the guard of management routes and   *)
(* the migrator.                                                           *)
(* Each component answers with what the others may say, so no two of these *)
(* modules share a variable; a behaviour follows one of them, and the      *)
(* others wait in their initial state.                                     *)
(***************************************************************************)
EXTENDS StockLocks, Cart, Settings, Returns, Subscriptions, Products, Taxonomy, CategoryTree,
        Showcase, Access, Migrations, TLC

VARIABLE part   \* the component this behaviour follows

MCOffer == {[price |-> 1, currency |-> "USD"], [price |-> 2, currency |-> "EUR"]}

MCTax == {[bps |-> 875, inclusive |-> FALSE], [bps |-> 875, inclusive |-> TRUE]}

MCRateBody == {[amount |-> 500, freeOver |-> 1000, active |-> TRUE]}

MCRatePatch == {"active" :> FALSE}

\* Fifteen per cent, once; and a fixed amount, from the second day on.
MCCouponBody ==
  {[code |-> "welcome", kind |-> "PERCENT", value |-> 15, minOrder |-> 0, max |-> 1,
    starts |-> Unset, ends |-> Unset, active |-> TRUE, redeemed |-> 0],
   [code |-> "welcome", kind |-> "FIXED", value |-> 1200, minOrder |-> 1100, max |-> Unset,
    starts |-> 2, ends |-> Unset, active |-> TRUE, redeemed |-> 0]}

MCCouponPatch == {"value" :> 101, "active" :> FALSE}

MCOrdered == "a" :> [units |-> 1, price |-> 1]

MCPlan == [interval : {"MONTH", "YEAR"}, active : {TRUE}] \cup [interval : {"YEAR"}, active : {FALSE}]

MCLength == [MONTH |-> 1, YEAR |-> 2]

\* One set of ids serves all components, and one set of requests (Worker).
Symmetry == Permutations(Worker) \cup Permutations(Variant)

ShopInit ==
  /\ part \in {"locks", "cart", "settings", "returns", "subscriptions",
              "products", "taxonomy", "tree", "showcase", "access", "migrations"}
  /\ LocksInit
  /\ CartInit
  /\ SettingsInit
  /\ ReturnInit
  /\ SubscriptionInit
  /\ ProductsInit
  /\ TaxonomyInit
  /\ ShowcaseInit
  /\ AccessInit
  /\ MigrationsInit
  /\ TreeInit
  /\ part # "returns" => method = Nothing
  /\ part # "access" => standing = NotMember

Follow(name) == part = name /\ UNCHANGED part

ShopNext ==
  \/ /\ Follow("locks") /\ LocksNext
     /\ UNCHANGED <<cartVars, settingsVars, returnVars, subscriptionVars,
                    productVars, taxonomyVars, showcaseVars, accessVars,
                    migrationVars, treeVars>>
  \/ /\ Follow("cart") /\ CartNext
     /\ UNCHANGED <<lockVars, settingsVars, returnVars, subscriptionVars,
                    productVars, taxonomyVars, showcaseVars, accessVars,
                    migrationVars, treeVars>>
  \/ /\ Follow("settings") /\ SettingsNext
     /\ UNCHANGED <<lockVars, cartVars, returnVars, subscriptionVars,
                    productVars, taxonomyVars, showcaseVars, accessVars,
                    migrationVars, treeVars>>
  \/ /\ Follow("returns") /\ ReturnNext
     /\ UNCHANGED <<lockVars, cartVars, settingsVars, subscriptionVars,
                    productVars, taxonomyVars, showcaseVars, accessVars,
                    migrationVars, treeVars>>
  \/ /\ Follow("subscriptions") /\ SubscriptionNext
     /\ UNCHANGED <<lockVars, cartVars, settingsVars, returnVars,
                    productVars, taxonomyVars, showcaseVars, accessVars,
                    migrationVars, treeVars>>
  \/ /\ Follow("products") /\ ProductsNext
     /\ UNCHANGED <<lockVars, cartVars, settingsVars, returnVars,
                    subscriptionVars, taxonomyVars, showcaseVars, accessVars,
                    migrationVars, treeVars>>
  \/ /\ Follow("taxonomy") /\ TaxonomyNext
     /\ UNCHANGED <<lockVars, cartVars, settingsVars, returnVars,
                    subscriptionVars, productVars, showcaseVars, accessVars,
                    migrationVars, treeVars>>
  \/ /\ Follow("showcase") /\ ShowcaseNext
     /\ UNCHANGED <<lockVars, cartVars, settingsVars, returnVars,
                    subscriptionVars, productVars, taxonomyVars, accessVars,
                    migrationVars, treeVars>>
  \/ /\ Follow("access") /\ AccessNext
     /\ UNCHANGED <<lockVars, cartVars, settingsVars, returnVars,
                    subscriptionVars, productVars, taxonomyVars, showcaseVars,
                    migrationVars, treeVars>>
  \/ /\ Follow("migrations") /\ MigrationsNext
     /\ UNCHANGED <<lockVars, cartVars, settingsVars, returnVars,
                    subscriptionVars, productVars, taxonomyVars, showcaseVars,
                    accessVars, treeVars>>
  \/ /\ Follow("tree") /\ TreeNext
     /\ UNCHANGED <<lockVars, cartVars, settingsVars, returnVars,
                    subscriptionVars, productVars, taxonomyVars, showcaseVars,
                    accessVars, migrationVars>>

shopVars ==
  <<part, lockVars, cartVars, settingsVars, returnVars, subscriptionVars, productVars,
    taxonomyVars, showcaseVars, accessVars, migrationVars, treeVars>>

ShopSpec == ShopInit /\ [][ShopNext]_shopVars

\* The type invariant of the component that is followed (the others stay where they start).
ShopTypeOK ==
  CASE part = "locks" -> LocksTypeOK
    [] part = "cart" -> CartTypeOK
    [] part = "settings" -> SettingsTypeOK
    [] part = "returns" -> ReturnTypeOK
    [] part = "subscriptions" -> SubscriptionTypeOK
    [] part = "products" -> ProductsTypeOK
    [] part = "taxonomy" -> TaxonomyTypeOK
    [] part = "showcase" -> ShowcaseTypeOK
    [] part = "access" -> AccessTypeOK
    [] part = "migrations" -> MigrationsTypeOK
    [] part = "tree" -> TreeTypeOK
=============================================================================
