------------------------------- MODULE Catalogue -------------------------------
(***************************************************************************)
(* The platform's prices (item-pricing.service.ts): the nightly epoch      *)
(* prices every catalogue item from its vendors' live prices, then the     *)
(* bags and bundles from the items, and caches the prices in the rows;     *)
(* catalogue, bag and bundle handlers read a row and save all of it; the   *)
(* quotes of order-quote.service.ts read the cache.  Prices are in kobo, 0 *)
(* for null.  A single bag and a single bundle stand for all.              *)
(***************************************************************************)
EXTENDS Requests, SequencesExt

CONSTANTS
  CatalogueItems, Everyday,   \* Everyday: the items a bag may hold
  Asked,                      \* what vendors ask for an item: sequences of prices
  Rates,                      \* WashPoints per naira
  Capacities, Promos,         \* bag sizes; per cent off the bundle
  Quantities                  \* items in the bundle and their number
CONSTANTS ChargePercent, ChargeFlat, IroningPercent, PricePercentile

VARIABLES
  asked,      \* prices of the item in the sheets in force of verified vendors
  rate,       \* conversion_rates in force
  entry,      \* catalogue_items
  listed,     \* price last appended to platform_price_list, by item
  bag, bundle,
  upToDate,   \* "yes": the cache is what the vendors' prices make it; or the
              \* handler that will make it so, if nothing intervenes; or "no"
  unlisted    \* items whose history lost a row

catalogueVars == <<asked, rate, entry, listed, bag, bundle, upToDate, unlisted>>

Entry   == [status : {"none", "active", "inactive"}, available : BOOLEAN, price : Nat, points : Nat]
NoEntry == [status |-> "none", available |-> FALSE, price |-> 0, points |-> 0]

CatalogueInit ==
  /\ asked \in [CatalogueItems -> Asked]
  /\ rate = CHOOSE r \in Rates : \A s \in Rates : r <= s
  /\ entry \in [CatalogueItems -> {NoEntry, [NoEntry EXCEPT !.status = "active"]}]
  /\ listed = [i \in CatalogueItems |-> 0]
  /\ bag = [capacity |-> CHOOSE c \in Capacities : TRUE, price |-> 0, points |-> 0]
  /\ bundle = [promo |-> 0, price |-> 0, points |-> 0]
  /\ upToDate = "no" /\ unlisted = {}

-----------------------------------------------------------------------------
Rounded(n, d)   == (2 * n + d) \div (2 * d)          \* Math.round(n / d)
Points(price)   == Rounded(price * rate, 100)
Charged(base)   == Rounded(base * (100 + ChargePercent), 100) + ChargeFlat
Ironed(price)   == Rounded(price * (100 + IroningPercent), 100)

(* percentileValue: interpolation between two neighbours of sorted prices. *)
Percentile(prices) ==
  LET s == SortSeq(prices, <)
      index == PricePercentile * (Len(s) - 1)
      lower == s[1 + index \div 100]
      upper == s[1 + (index + 99) \div 100]
  IN Rounded(100 * lower + (index % 100) * (upper - lower), 100)

Price(prices) == IF prices = <<>> THEN 0 ELSE Charged(Percentile(prices))

(* Prices of the items of s that are active and have one.                  *)
PricesOf(s, price) ==
  LET sold == SetToSeq({i \in s : entry[i].status = "active" /\ price[i] > 0})
  IN [k \in DOMAIN sold |-> price[sold[k]]]
Cached == [i \in CatalogueItems |-> entry[i].price]

BagPrice(price, capacity) ==
  LET prices == PricesOf(Everyday, price)
  IN IF prices = <<>> THEN 0 ELSE Percentile(prices) * capacity

TwiceMedian(counts) ==
  LET s == SortSeq(counts, <) IN s[(Len(s) + 1) \div 2] + s[(Len(s) + 2) \div 2]

BundlePrice(price, promo) ==
  LET prices == PricesOf(DOMAIN Quantities, price)
      chosen == SetToSeq(DOMAIN Quantities)
      base   == Rounded(Percentile(prices) * TwiceMedian([k \in DOMAIN chosen |-> Quantities[chosen[k]]]), 2)
  IN IF prices = <<>> THEN 0 ELSE Rounded(base * (100 - promo), 100)

(* A nightly epoch: the rows and the prices it has read, what is left.     *)
EpochCall == [ pc : {"epoch"}, listing : SUBSET CatalogueItems, todo : SUBSET CatalogueItems,
               rows : [CatalogueItems -> Entry], price : [CatalogueItems -> Nat],
               points : [CatalogueItems -> Nat] ]

ASSUME CatalogueConstantsOK ==
  /\ IsFiniteSet(CatalogueItems)
  /\ Everyday \subseteq CatalogueItems /\ DOMAIN Quantities \subseteq CatalogueItems
  /\ Rates \subseteq Nat /\ \E r \in Rates : \A s \in Rates : r <= s
  /\ IroningPercent \in Nat /\ \A prices \in Asked : Price(prices) \in Nat
  /\ Procs \cap {"yes", "no"} = {} /\ NoCall \notin EpochCall

-----------------------------------------------------------------------------
Alone(p) == \A q \in Procs \ {p} : call[q] = NoCall

(* A handler that brings the cache up to date when it runs alone.          *)
Refreshes(p, may) == upToDate' = IF Alone(p) /\ may THEN p ELSE "no"
Refreshed(p)      == upToDate' = IF upToDate = p THEN "yes" ELSE "no"

(* Vendors' sheets, and their standing, change (VendorPricing).            *)
VendorsAsk(i, prices) ==
  /\ OneStep /\ prices # asked[i]
  /\ asked' = [asked EXCEPT ![i] = prices] /\ upToDate' = "no"
  /\ UNCHANGED <<rate, entry, listed, bag, bundle, unlisted>>

RateChanges(r) ==
  /\ OneStep /\ r # rate
  /\ rate' = r /\ upToDate' = "no"
  /\ UNCHANGED <<asked, entry, listed, bag, bundle, unlisted>>

(* createItem, and the suggestion of a vendor that is approved.            *)
CreateItem(i) ==
  /\ OneStep /\ entry[i].status = "none"
  /\ entry' = [entry EXCEPT ![i] = [NoEntry EXCEPT !.status = "active"]] /\ upToDate' = "no"
  /\ UNCHANGED <<asked, rate, listed, bag, bundle, unlisted>>

UpdateItem(p, i, status) ==
  /\ entry[i].status # "none"
  /\ Begin(p, [pc |-> "item", id |-> i, row |-> [entry[i] EXCEPT !.status = status], read |-> entry[i]])
  /\ upToDate' = "no"
  /\ UNCHANGED <<asked, rate, entry, listed, bag, bundle, unlisted>>

SaveItem(p) ==
  /\ At(p, "item")
  /\ LET c == call[p] IN
       /\ entry' = [entry EXCEPT ![c.id] = c.row]
       /\ unlisted' = unlisted \cup {i \in {c.id} : entry[i] # c.read}
  /\ End(p)
  /\ UNCHANGED <<asked, rate, listed, bag, bundle, upToDate>>

-----------------------------------------------------------------------------
(* recomputeAll reads the vendors' prices, the rate and all items ...      *)
StartEpoch(p) ==
  /\ Begin(p, [pc |-> "epoch", listing |-> {}, todo |-> {i \in CatalogueItems : entry[i].status # "none"},
            rows |-> entry, price |-> [i \in CatalogueItems |-> Price(asked[i])],
            points |-> [i \in CatalogueItems |-> Points(Price(asked[i]))]])
  /\ Refreshes(p, TRUE)
  /\ UNCHANGED <<asked, rate, entry, listed, bag, bundle, unlisted>>

Repriced(c, i) ==
  [c.rows[i] EXCEPT !.price = c.price[i], !.points = c.points[i],
                    !.available = c.rows[i].status = "active" /\ c.price[i] > 0]

(* Mutant of PriceItem: an item whose price is unchanged is passed over.   *)
PriceChangedItem(p, i) ==
  /\ At(p, "epoch") /\ call[p].listing = {} /\ i \in call[p].todo
  /\ LET c == call[p] IN
     IF c.rows[i].price = c.price[i]
     THEN GotoState(p, [c EXCEPT !.todo = @ \ {i}]) /\ UNCHANGED <<entry, unlisted>>
     ELSE /\ entry' = [entry EXCEPT ![i] = Repriced(c, i)]
          /\ unlisted' = unlisted \cup {j \in {i} : entry[j] # c.rows[j]}
          /\ GotoState(p, [c EXCEPT !.todo = @ \ {i}, !.listing = {j \in {i} : c.price[j] > 0}])
  /\ UNCHANGED <<asked, rate, listed, bag, bundle, upToDate>>

(* ... saves them one after the other, each as it was read but for its     *)
(* price, and appends the prices that changed to the history.              *)
PriceItem(p, i) ==
  /\ At(p, "epoch") /\ call[p].listing = {} /\ i \in call[p].todo
  /\ LET c == call[p] IN
       /\ entry' = [entry EXCEPT ![i] = Repriced(c, i)]
       /\ unlisted' = unlisted \cup {j \in {i} : entry[j] # c.rows[j]}
       /\ GotoState(p, [c EXCEPT !.todo = @ \ {i},
                                 !.listing = {j \in {i} : c.rows[j].price # c.price[j] /\ c.price[j] > 0}])
  /\ UNCHANGED <<asked, rate, listed, bag, bundle, upToDate>>

ListPrice(p, i) ==
  /\ At(p, "epoch") /\ i \in call[p].listing
  /\ listed' = [listed EXCEPT ![i] = call[p].price[i]]
  /\ unlisted' = unlisted \cup {j \in {i} : entry[j].price # call[p].price[j]}
  /\ GotoState(p, [call[p] EXCEPT !.listing = {}])
  /\ UNCHANGED <<asked, rate, entry, bag, bundle, upToDate>>

(* recomputeBags and recomputeBundles: the prices are read, then saved     *)
(* with the row.                                                           *)
PriceBag(p) ==
  /\ At(p, "priceBag") \/ (At(p, "epoch") /\ call[p].todo = {} /\ call[p].listing = {})
  /\ LET price == BagPrice(Cached, bag.capacity) IN
     GotoState(p, [pc |-> "saveBag", epoch |-> At(p, "epoch"),
                   row |-> [bag EXCEPT !.price = price, !.points = Points(price)]])
  /\ UNCHANGED catalogueVars

SaveBag(p) ==
  /\ At(p, "saveBag")
  /\ bag' = call[p].row
  /\ IF call[p].epoch THEN Goto(p, "priceBundle") /\ UNCHANGED upToDate
                      ELSE End(p) /\ Refreshed(p)
  /\ UNCHANGED <<asked, rate, entry, listed, bundle, unlisted>>

PriceBundle(p) ==
  /\ At(p, "priceBundle")
  /\ LET price == BundlePrice(Cached, bundle.promo) IN
     GotoState(p, [pc |-> "saveBundle", row |-> [bundle EXCEPT !.price = price, !.points = Points(price)]])
  /\ UNCHANGED catalogueVars

SaveBundle(p) ==
  /\ At(p, "saveBundle")
  /\ bundle' = call[p].row
  /\ End(p) /\ Refreshed(p)
  /\ UNCHANGED <<asked, rate, entry, listed, bag, unlisted>>

(* Saving a bag or a bundle reprices it.                                   *)
UpdateBag(p, capacity) ==
  /\ Begin(p, [pc |-> "editBag", row |-> [bag EXCEPT !.capacity = capacity]])
  /\ Refreshes(p, upToDate = "yes")
  /\ UNCHANGED <<asked, rate, entry, listed, bag, bundle, unlisted>>

SaveBagEdit(p) ==
  /\ At(p, "editBag")
  /\ bag' = call[p].row
  /\ Goto(p, "priceBag")
  /\ UNCHANGED <<asked, rate, entry, listed, bundle, upToDate, unlisted>>

UpdateBundle(p, promo) ==
  /\ Begin(p, [pc |-> "editBundle", row |-> [bundle EXCEPT !.promo = promo]])
  /\ Refreshes(p, upToDate = "yes")
  /\ UNCHANGED <<asked, rate, entry, listed, bag, bundle, unlisted>>

SaveBundleEdit(p) ==
  /\ At(p, "editBundle")
  /\ bundle' = call[p].row
  /\ Goto(p, "priceBundle")
  /\ UNCHANGED <<asked, rate, entry, listed, bag, upToDate, unlisted>>

PricingDies(p) ==
  /\ call[p] # NoCall
  /\ unlisted' = IF At(p, "epoch") THEN unlisted \cup call[p].listing ELSE unlisted
  /\ Dies(p) /\ upToDate' = "no"
  /\ UNCHANGED <<asked, rate, entry, listed, bag, bundle>>

CatalogueNext ==
  \/ \E i \in CatalogueItems : CreateItem(i) \/ \E prices \in Asked : VendorsAsk(i, prices)
  \/ \E r \in Rates : RateChanges(r)
  \/ \E p \in Procs :
       \/ \E i \in CatalogueItems : \/ \E status \in {"active", "inactive"} : UpdateItem(p, i, status)
                                    \/ PriceItem(p, i) \/ ListPrice(p, i)
       \/ SaveItem(p) \/ StartEpoch(p)
       \/ PriceBag(p) \/ SaveBag(p) \/ PriceBundle(p) \/ SaveBundle(p)
       \/ \E c \in Capacities : UpdateBag(p, c)
       \/ \E m \in Promos : UpdateBundle(p, m)
       \/ SaveBagEdit(p) \/ SaveBundleEdit(p) \/ PricingDies(p)

CatalogueSpec == RequestsInit /\ CatalogueInit /\ [][CatalogueNext]_<<catalogueVars, requestVars>>

-----------------------------------------------------------------------------
(* order-quote.service.ts, what a customer is charged: 0 when the order is *)
(* refused.  Items are converted when quoted, bags and bundles were before.*)
QuoteItem(i) ==
  IF entry[i].status = "active" /\ entry[i].available /\ entry[i].price > 0
  THEN Points(Ironed(entry[i].price)) ELSE 0
QuoteBag    == bag.points
QuoteBundle == bundle.points

(* What it should be, from the vendors' prices and nothing else.           *)
Fair == [i \in CatalogueItems |-> Price(asked[i])]

CatalogueTypeOK ==
  /\ asked \in [CatalogueItems -> Asked] /\ rate \in Rates
  /\ entry \in [CatalogueItems -> Entry]
  /\ listed \in [CatalogueItems -> Nat] /\ bag \in [capacity : Capacities, price : Nat, points : Nat]
  /\ bundle \in [promo : Promos \cup {0}, price : Nat, points : Nat]
  /\ upToDate \in Procs \cup {"yes", "no"} /\ unlisted \subseteq CatalogueItems

(* The prices customers pay are cached three deep: once an epoch has run    *)
(* without interference, and whatever bags and bundles were edited after    *)
(* it one at a time, every quote is what the vendors' prices of the moment  *)
(* make it, and an item's price is the last of its history.                 *)
QuotesAreCurrent ==
  upToDate = "yes" =>
    /\ \A i \in CatalogueItems :
         /\ QuoteItem(i) = IF entry[i].status = "active" THEN Points(Ironed(Fair[i])) ELSE 0
         /\ i \notin unlisted /\ entry[i].price > 0 => listed[i] = entry[i].price
    /\ QuoteBag = Points(BagPrice(Fair, bag.capacity))
    /\ QuoteBundle = Points(BundlePrice(Fair, bundle.promo))
==============================================================================
