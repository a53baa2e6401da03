------------------------------- MODULE Catalog -------------------------------
(***************************************************************************)
(* The questions the catalogue tools answer (tools/catalog.py, catalog/):  *)
(* which country or region the user means, and which plans the platform    *)
(* sells there.  Every tool reads the catalogue anew, so what a question   *)
(* meets is whatever the platform lists by then.  The user's words are     *)
(* compared without regard to case and spacing; the platform's keep their  *)
(* case, and lose their padding, for keys and paths are made of them.      *)
(***************************************************************************)
EXTENDS FiniteSets, Integers, Sequences

CONSTANTS Countries,      \* the records the platform may list as countries
          Regions,        \* ... as regions
          Plans,          \* ... as plans of a destination
          MaxListed,      \* bound: records listed at once
          Criteria,       \* what the user may ask of a plan
          Limits,         \* how many plans may be asked for
          DefaultLimit, MaxLimit,   \* DEFAULT_BUNDLE_LIMIT, MAX_BUNDLE_LIMIT
          None            \* an absent field or argument

Unlimited == -1   \* the allowance of an unlimited plan

Term == {"x", "y"}
Query == Term \cup {"unknown"}   \* what the user may ask for
Case == {"Plain", "UPPER"}
Text == (Term \X Case) \cup {None}   \* as clean_text leaves it: None was a placeholder

\* An ISO code is compared only, a region's code also goes into a path: it may
\* have spaces that clean_text takes off.
Country == [guid : ({"g1", "g2"} \X {"Plain"}) \cup {None}, iso2 : Term \cup {None},
            iso3 : Term \cup {None}, name : Text, alternative : Term \cup {None}]
Region == [code : (Term \X Case \X {"bare", "padded"}) \cup {None}, name : Text]
Plan == [readable : BOOLEAN, active : BOOLEAN, price : Nat \cup {None},
         data : Nat \cup {Unlimited, None}, days : Nat \cup {None}]

\* BundleFilters, and how to sort.
Criterion == [price : Nat \cup {None}, data : Nat \cup {None}, days : Nat \cup {None},
              unlimited : BOOLEAN, sort : {"price", "data", "validity", None}]

CatalogAssumption ==
  /\ None \notin Int
  /\ Countries \subseteq Country /\ Regions \subseteq Region /\ Plans \subseteq Plan
  /\ Criteria \subseteq Criterion
  /\ MaxListed \in Nat /\ MaxLimit \in Nat /\ DefaultLimit \in 1..MaxLimit
  /\ Limits \subseteq Int \cup {None}

VARIABLES
  subject,   \* what the platform lists here: countries, regions or a place's plans
  list,      \* the platform: the records, in its order
  answer     \* what a tool just answered

vars == <<subject, list, answer>>

-----------------------------------------------------------------------------
(* Which country, which region (catalog/resolution.py).                    *)

\* The name falls back to a code, and to "Unknown".
Upper(term) == <<term, "UPPER">>
Nameless == <<"unknown", "Plain">>
CountryName(c) == CASE c.name # None -> c.name
                    [] c.name = None /\ c.iso3 # None -> Upper(c.iso3)
                    [] c.name = None /\ c.iso3 = None /\ c.iso2 # None -> Upper(c.iso2)
                    [] OTHER -> Nameless
CountryMatches(c, level, query) ==
  query = CASE level = 1 -> c.iso2 [] level = 2 -> c.iso3
            [] level = 3 -> CountryName(c)[1] [] level = 4 -> c.alternative
CountryKey(c) == IF c.guid # None THEN c.guid ELSE CountryName(c)

\* Region.code is the platform's own code in upper case.
HasCode(r) == r.code # None
RegionCode(r) == Upper(r.code[1])
RegionName(r) == CASE r.name # None -> r.name
                   [] r.name = None /\ HasCode(r) -> RegionCode(r)
                   [] OTHER -> Nameless
CodeIs(r, query) == HasCode(r) /\ RegionCode(r)[1] = query
NameIs(r, query) == RegionName(r)[1] = query
RegionMatches_NameFirst(r, level, query) == IF level = 1 THEN NameIs(r, query) ELSE CodeIs(r, query)
RegionMatches(r, level, query) == IF level = 1 THEN CodeIs(r, query) ELSE NameIs(r, query)
RegionKey(r) == IF HasCode(r) THEN RegionCode(r) ELSE RegionName(r)

Matches(record, level, query) ==
  IF subject = "countries" THEN CountryMatches(record, level, query) ELSE RegionMatches(record, level, query)
KeyOf(record) == IF subject = "countries" THEN CountryKey(record) ELSE RegionKey(record)

\* resolve_in: the first field in which anything matches decides; records with
\* one key are one place, and more than one place is for the user to choose.
Matching(level, query) == {i \in DOMAIN list : Matches(list[i], level, query)}
Resolved(levels, query) ==
  LET hits  == {l \in levels : Matching(l, query) # {}}
      level == CHOOSE l \in hits : \A m \in hits : l <= m
      found == Matching(level, query)
      first == CHOOSE i \in found : \A j \in found : i <= j
  IN CASE hits = {} -> [kind |-> "not_found", at |-> 0]
       [] hits # {} /\ Cardinality({KeyOf(list[i]) : i \in found}) > 1 -> [kind |-> "ambiguous", at |-> 0]
       [] OTHER -> [kind |-> "place", at |-> first]

ResolvedCountry_ByName(query) == Resolved({3, 4}, query)
ResolvedCountry(query) == Resolved(1..4, query)
ResolvedRegion(query) == Resolved(1..2, query)

\* list_countries and list_regions try every field of every record.
ExactCountries(query) ==
  {i \in DOMAIN list : \E level \in 1..4 : CountryMatches(list[i], level, query)}
ExactRegions(query) == {i \in DOMAIN list : NameIs(list[i], query) \/ CodeIs(list[i], query)}

\* Region.api_code: what goes into the path of /bundles/by-region is the listed
\* code, cleaned; nothing is asked of a region without one.
AskedFor(r) == IF HasCode(r) THEN <<r.code[1], r.code[2], "bare">> ELSE None

-----------------------------------------------------------------------------
(* Which plans (catalog/selection.py).                                     *)

\* A record that cannot be read is skipped, an inactive plan is not offered.
\* The cruise catalogue is read as one record and has to be readable throughout;
\* the plans of a place, a country or a region, are read one by one.
Destinations == {"place", "cruise"}
Fails(where) == where = "cruise" /\ \E i \in DOMAIN list : ~list[i].readable
Offered == {i \in DOMAIN list : list[i].readable /\ list[i].active}

AtLeast(value, least) == least # None => value # None /\ (value = Unlimited \/ value >= least)
Qualifies(plan, c) ==
  /\ c.unlimited => plan.data = Unlimited
  /\ c.price # None => plan.price # None /\ plan.price <= c.price
  /\ AtLeast(plan.data, c.data)
  /\ AtLeast(plan.days, c.days)
IsEmpty(c) == c.price = None /\ c.data = None /\ c.days = None /\ ~c.unlimited

\* sort_bundles' keys, smallest first: nothing known goes last, which for a
\* validity is the same as none.
SortsBy_UnknownFirst(plan, sort) ==
  CASE sort = "price" -> IF plan.price = None THEN <<0, 0>> ELSE <<0, plan.price>>
    [] sort = "data" -> CASE plan.data = Unlimited -> <<0, 0>> [] plan.data = None -> <<2, 0>>
                          [] OTHER -> <<1, 0 - plan.data>>
    [] sort = "validity" -> IF plan.days = None THEN <<1, 0>> ELSE <<1, 0 - plan.days>>
    [] OTHER -> <<0, 0>>
SortsBy(plan, sort) ==
  CASE sort = "price" -> IF plan.price = None THEN <<1, 0>> ELSE <<0, plan.price>>
    [] sort = "data" -> CASE plan.data = Unlimited -> <<0, 0>> [] plan.data = None -> <<2, 0>>
                          [] OTHER -> <<1, 0 - plan.data>>
    [] sort = "validity" -> IF plan.days = None THEN <<1, 0>> ELSE <<1, 0 - plan.days>>
    [] OTHER -> <<0, 0>>
Before(k1, k2) == k1[1] < k2[1] \/ (k1[1] = k2[1] /\ k1[2] < k2[2])

\* The sort is stable: equal keys keep the platform's order.
Ahead(sort, i, j) ==
  LET ki == SortsBy(list[i], sort)  kj == SortsBy(list[j], sort)
  IN Before(ki, kj) \/ (ki = kj /\ i < j)
Rank(sort, matched, i) == Cardinality({j \in matched : Ahead(sort, j, i)}) + 1

\* clamp_limit
Least(a, b) == IF a < b THEN a ELSE b
Size(limit) == IF limit = None THEN DefaultLimit
               ELSE IF limit < 1 THEN 1 ELSE Least(limit, MaxLimit)

\* _bundle_result: where in the platform's list the plans to show are.
Bundles(where, c, limit) ==
  LET matched == {i \in Offered : Qualifies(list[i], c)}
      Says(kind, shown) == [kind |-> kind, shown |-> shown]
  IN CASE Fails(where) -> Says("invalid_backend_response", {})
       [] ~Fails(where) /\ matched # {} ->
            Says("plans", {i \in matched : Rank(c.sort, matched, i) <= Size(limit)})
       [] ~Fails(where) /\ matched = {} ->
            Says(IF Offered # {} /\ ~IsEmpty(c) THEN "nothing_matches" ELSE "none_sold", {})

-----------------------------------------------------------------------------
(* The tools.                                                              *)

Records == [countries |-> Countries, regions |-> Regions, plans |-> Plans]

CountryAnswer(query) ==
  [by |-> "country", query |-> query, found |-> ResolvedCountry(query), exact |-> ExactCountries(query)]
RegionAnswer(query) ==
  LET found == ResolvedRegion(query) IN
  [by |-> "region", query |-> query, found |-> found, exact |-> ExactRegions(query),
   asked |-> IF found.kind = "place" THEN AskedFor(list[found.at]) ELSE None]
PlansAnswer(where, c, limit) ==
  [by |-> "bundles", where |-> where, criterion |-> c, limit |-> limit, result |-> Bundles(where, c, limit)]
Silent == [by |-> "nobody"]

TypeOK ==
  /\ subject \in DOMAIN Records
  /\ list \in Seq(Records[subject]) /\ Len(list) <= MaxListed
  /\ answer.by \in {"nobody", "country", "region", "bundles"}

Init == subject \in DOMAIN Records /\ list = <<>> /\ answer = Silent

\* The platform lists another record.
Lists(record) ==
  /\ answer = Silent /\ Len(list) < MaxListed
  /\ list' = Append(list, record)
  /\ UNCHANGED <<subject, answer>>

Answers(said) ==
  /\ answer = Silent
  /\ answer' = said
  /\ UNCHANGED <<subject, list>>

\* list_countries and find_bundles_by_country, asked about the same words.
AsksCountry(query) == subject = "countries" /\ Answers(CountryAnswer(query))

\* list_regions and find_bundles_by_region, asked about the same words.
AsksRegion(query) == subject = "regions" /\ Answers(RegionAnswer(query))

\* The plans of a country or a region, or for cruises.
AsksPlans(where, c, limit) == subject = "plans" /\ Answers(PlansAnswer(where, c, limit))

\* The next question starts from a fresh read.
Heard ==
  /\ answer # Silent
  /\ answer' = Silent
  /\ UNCHANGED <<subject, list>>

Next ==
  \/ \E record \in Records[subject] : Lists(record)
  \/ \E query \in Query : AsksCountry(query) \/ AsksRegion(query)
  \/ \E where \in Destinations, c \in Criteria, limit \in Limits : AsksPlans(where, c, limit)
  \/ Heard

Spec == Init /\ [][Next]_vars

-----------------------------------------------------------------------------
(* Properties.                                                             *)

\* The country list and the plan search read the user's words apart, one by
\* field and one at once: what the list shows as an exact match is never said
\* not to exist by the search, and the search goes to a country of that list.
ToolsAgreeOnCountry ==
  answer.by = "country" =>
    /\ answer.found.kind = "not_found" <=> answer.exact = {}
    /\ answer.found.kind = "place" => answer.found.at \in answer.exact

\* "Pass each region on to find_bundles_by_region by its region_code from this
\* result ... it is the platform's own stable identifier and is safer than a
\* name" (tools/catalog.py): what the region list shows as an exact match the
\* plan search does not deny, and it goes to a region of that list; and a listed
\* code always decides, for the region with that code, though another region or
\* several have the same word for a name; and no other region answers to the
\* code, cleaned, that is asked for.
ToolsAgreeOnRegion ==
  answer.by = "region" =>
    LET coded == {i \in DOMAIN list : CodeIs(list[i], answer.query)} IN
    /\ answer.found.kind = "not_found" <=> answer.exact = {}
    /\ answer.found.kind = "place" => answer.found.at \in answer.exact
    /\ coded # {} => answer.found.kind = "place" /\ answer.found.at \in coded
    /\ \A i \in DOMAIN list :
         answer.found.kind = "place" /\ HasCode(list[i]) /\ list[i].code = answer.asked =>
           RegionKey(list[i]) = RegionKey(list[answer.found.at])

\* Cheaper, more data, valid for longer; what is known before what is not.
MoreThan(a, b) == a # None /\ (b = None \/ (b # Unlimited /\ (a = Unlimited \/ a > b)))
BetterBy(sort, p, q) ==
  CASE sort = "price"    -> p.price # None /\ (q.price = None \/ p.price < q.price)
    [] sort = "data"     -> MoreThan(p.data, q.data)
    [] sort = "validity" -> p.days # None /\ MoreThan(p.days, IF q.days = None THEN 0 ELSE q.days)
    [] OTHER             -> FALSE

\* What is said of the plans, when they can be read, is true: none is missing
\* that is sold and meets the user's wishes, unless the answer is full of plans
\* at least as good; all shown are sold and meet them; "none is sold" means just
\* that.
PlansAnswerIsTrue ==
  answer.by = "bundles" /\ ~Fails(answer.where) =>
    LET c == answer.criterion
        shown == answer.result.shown
        Meets(p) == /\ c.unlimited => p.data = Unlimited
                    /\ c.price # None => p.price \in 0..c.price
                    /\ c.data # None => p.data = Unlimited \/ (p.data \in Nat /\ p.data >= c.data)
                    /\ c.days # None => p.days \in Nat /\ p.days >= c.days
        good == {i \in Offered : Meets(list[i])}
    IN /\ shown \subseteq good
       /\ answer.result.kind = "none_sold" => Offered = {}
       /\ answer.result.kind # "plans" => good = {}
       /\ good \ shown # {} => Cardinality(shown) = Size(answer.limit)
       /\ \A i \in good \ shown, j \in shown : ~BetterBy(c.sort, list[i], list[j])
=============================================================================
