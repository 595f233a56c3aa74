---------------------------- MODULE GenerationProofs ----------------------------
(* Proofs about Generation: the Model Catalog is never without a Model, a  *)
(* refresh that is offered something succeeds, and one that fails leaves   *)
(* the cache file alone; a request names the last failure, and what is     *)
(* accepted of an answer is what was promised.  All for any Providers,     *)
(* Models, cache files, answers and limits.                                *)
EXTENDS Generation, FiniteSetTheorems, TLAPS

-----------------------------------------------------------------------------
(* Catalogs as values. *)

(* What normalize() gives back when it does not fail. *)
Normal(catalog, source) ==
  /\ catalog = [source |-> source, providers |-> Providers, models |-> catalog.models]
  /\ catalog.models # {} /\ Distinct(catalog.models)
  /\ \A model \in catalog.models :
       Sound(model) /\ ~model.protocol /\ model.provider \in Providers

LEMMA NormalizeGives ==
  ASSUME NEW value, NEW source, ~IsInvalid(normalize(value, source))
  PROVE  Normal(normalize(value, source), source) /\ normalize(value, source).models = value.models
<1>1. ~(\/ ~ value.providers \subseteq Providers
        \/ value.providers = {} \/ value.models = {} \/ ~Distinct(value.models)
        \/ \E model \in value.models :
             ~Sound(model) \/ model.protocol \/ model.provider \notin Providers)
  BY DEF normalize, IsInvalid, Invalid
<1>2. normalize(value, source)
        = [source |-> source, providers |-> Providers, models |-> value.models]
  BY <1>1 DEF normalize
<1> QED BY <1>1, <1>2 DEF Normal

(* A catalog whose parts are right is not refused. *)
LEMMA NormalizeAccepts ==
  ASSUME NEW value, NEW source, source # "invalid",
         value.providers \subseteq Providers, value.providers # {},
         value.models # {}, Distinct(value.models),
         \A model \in value.models : Sound(model) /\ ~model.protocol /\ model.provider \in Providers
  PROVE  ~IsInvalid(normalize(value, source))
<1>1. normalize(value, source)
        = [source |-> source, providers |-> Providers, models |-> value.models]
  BY DEF normalize
<1> QED BY <1>1 DEF IsInvalid

LEMMA BundledIsNormal == Normal(Bundled, "bundled")
<1> DEFINE value == [providers |-> Providers, models |-> BundledModels]
<1>1. Providers # {}
  BY BundleAssumption
<1>2. /\ value.providers \subseteq Providers /\ value.providers # {}
      /\ value.models # {} /\ Distinct(value.models)
      /\ \A model \in value.models :
           Sound(model) /\ ~model.protocol /\ model.provider \in Providers
  BY <1>1, BundleAssumption
<1> HIDE DEF value
<1>3. ~IsInvalid(normalize(value, "bundled"))
  BY <1>2, NormalizeAccepts
<1>4. Normal(normalize(value, "bundled"), "bundled")
  BY <1>3, NormalizeGives
<1> QED BY <1>4 DEF Bundled, value

(* get() answers with a catalog, whatever the file holds. *)
LEMMA GetIsNormal ==
  ASSUME NEW file
  PROVE  \E source : Normal(get(file), source)
<1> DEFINE cached == IF file.kind = "file" /\ isCacheFile(file)
                     THEN normalize(file, "cache") ELSE Invalid
<1>1. CASE IsInvalid(cached)
  BY <1>1, BundledIsNormal DEF get
<1>2. CASE ~IsInvalid(cached)
  <2>1. cached = normalize(file, "cache")
    BY <1>2 DEF IsInvalid, Invalid
  <2>2. Normal(cached, "cache")
    BY <1>2, <2>1, NormalizeGives
  <2> QED BY <1>2, <2>2 DEF get
<1> QED BY <1>1, <1>2

LEMMA NormalOffers ==
  ASSUME NEW catalog, NEW source, Normal(catalog, source)
  PROVE  /\ catalog.providers = Providers
         /\ \E model \in catalog.models :
              requireEligibleModel(catalog, [provider |-> model.provider, id |-> model.id])
<1>1. catalog.providers = Providers
  BY DEF Normal
<1>2. PICK model \in catalog.models : TRUE
  BY DEF Normal
<1>3. model.provider \in Providers /\ eligible(model)
  BY <1>2 DEF Normal, Sound, OfText, eligible
<1>4. requireEligibleModel(catalog, [provider |-> model.provider, id |-> model.id])
  BY <1>1, <1>2, <1>3 DEF requireEligibleModel
<1> QED BY <1>1, <1>4

(* What the adapter takes, the store takes: its rules for text are wider. *)
LEMMA SoundIsStoring ==
  ASSUME NEW model, Sound(model)
  PROVE  Storing(model)
BY DEF Sound, Storing, safeText, isSafeText

(* What the store writes of a catalog, get() reads back. *)
LEMMA ReadsBack ==
  ASSUME NEW catalog, Normal(catalog, "cache")
  PROVE  Storable(catalog) /\ get(CacheFile(catalog.providers, catalog.models)) = catalog
<1> DEFINE file == CacheFile(catalog.providers, catalog.models)
<1>1. /\ catalog.source = "cache" /\ catalog.providers = Providers
      /\ catalog = [source |-> "cache", providers |-> Providers, models |-> catalog.models]
  BY DEF Normal
<1>2. /\ file.kind = "file" /\ file.version = 2
      /\ file.providers = Providers /\ file.models = catalog.models
  BY <1>1 DEF CacheFile
<1>3. isCacheFile(file)
  BY <1>2, SoundIsStoring DEF Normal, isCacheFile
<1>4. Storable(catalog)
  BY <1>1, <1>3 DEF Storable
<1>5. normalize(file, "cache")
        = [source |-> "cache", providers |-> Providers, models |-> catalog.models]
  <2>1. Providers # {}
    BY BundleAssumption
  <2> HIDE DEF file
  <2> QED BY <1>2, <2>1 DEF Normal, normalize
<1>6. get(file) = catalog
  <2> HIDE DEF file
  <2>1. normalize(file, "cache") = catalog /\ ~IsInvalid(catalog)
    BY <1>1, <1>5 DEF IsInvalid
  <2> QED BY <1>2, <1>3, <2>1 DEF get
<1> QED BY <1>4, <1>6

-----------------------------------------------------------------------------
(* Answers of models.dev. *)

(* What fromUpstream() lets through is a catalog of the cache. *)
LEMMA UpstreamIsNormal ==
  ASSUME NEW upstream, ~IsInvalid(fromUpstream(upstream))
  PROVE  Normal(fromUpstream(upstream), "cache")
<1> DEFINE value == [providers |-> Providers,
                     models |-> UNION {ModelsOf(p, upstream[p]) : p \in Providers}]
<1>1. fromUpstream(upstream) = normalize(value, "cache")
  BY DEF fromUpstream, IsInvalid, Invalid
<1> HIDE DEF value
<1> QED BY <1>1, NormalizeGives

(* The Models taken of one Provider are sound, of that Provider, and no    *)
(* two have one ID.                                                        *)
LEMMA ModelsAreSound ==
  ASSUME NEW p \in Providers, NEW candidates,
         \A c, d \in candidates : c.id = d.id => c = d
  PROVE  /\ \A model \in ModelsOf(p, candidates) :
              Sound(model) /\ ~model.protocol /\ model.provider = p
         /\ Distinct(ModelsOf(p, candidates))
<1> DEFINE Taken(c) ==
      [provider |-> p, id |-> c.id, form |-> "plain", text |-> TRUE, protocol |-> FALSE,
       status |-> IF c.status = "none" THEN "active" ELSE c.status,
       cost |-> IF c.cost = "bad" THEN "none" ELSE c.cost]
<1>1. ASSUME NEW model \in ModelsOf(p, candidates)
      PROVE  \E c \in candidates : isTextGenerationCandidate(c) /\ model = Taken(c)
  BY DEF ModelsOf
<1>2. ASSUME NEW model \in ModelsOf(p, candidates)
      PROVE  Sound(model) /\ ~model.protocol /\ model.provider = p
  <2>1. PICK c \in candidates : isTextGenerationCandidate(c) /\ model = Taken(c)
    BY <1>1
  <2>2. /\ model.form = "plain" /\ model.text = TRUE /\ model.protocol = FALSE
        /\ model.provider = p /\ model.cost # "bad"
        /\ model.status = IF c.status = "none" THEN "active" ELSE c.status
    BY <2>1
  <2>3. model.status \in Statuses
    BY <2>1, <2>2 DEF isTextGenerationCandidate, Statuses
  <2> QED BY <2>2, <2>3 DEF Sound, OfText, safeText
<1>3. ASSUME NEW a \in ModelsOf(p, candidates), NEW b \in ModelsOf(p, candidates), a.id = b.id
      PROVE  a = b
  <2>1. PICK c \in candidates : a = Taken(c)
    BY <1>1
  <2>2. PICK d \in candidates : b = Taken(d)
    BY <1>1
  <2>3. c.id = d.id
    BY <2>1, <2>2, <1>3
  <2> QED BY <2>1, <2>2, <2>3
<1> QED BY <1>2, <1>3 DEF Distinct

(* One Model that can be used is enough for the answer to be used. *)
LEMMA GoodIsTaken ==
  ASSUME NEW upstream \in Upstreams, Good(upstream)
  PROVE  ~IsInvalid(fromUpstream(upstream))
<1> DEFINE models == UNION {ModelsOf(p, upstream[p]) : p \in Providers}
           value == [providers |-> Providers, models |-> models]
<1>1. Providers \subseteq DOMAIN upstream
  BY DEF Good
<1>2. \A p \in Providers : \A c, d \in upstream[p] : c.id = d.id => c = d
  BY <1>1, UpstreamAssumption
<1>3. ASSUME NEW p \in Providers
      PROVE  /\ \A model \in ModelsOf(p, upstream[p]) :
                  Sound(model) /\ ~model.protocol /\ model.provider = p
             /\ Distinct(ModelsOf(p, upstream[p]))
  BY <1>2, ModelsAreSound
<1>4. \A model \in models : Sound(model) /\ ~model.protocol /\ model.provider \in Providers
  BY <1>3
<1>5. ASSUME NEW a \in models, NEW b \in models, a.provider = b.provider, a.id = b.id
      PROVE  a = b
  <2>1. PICK p \in Providers : a \in ModelsOf(p, upstream[p])
    OBVIOUS
  <2>2. PICK q \in Providers : b \in ModelsOf(q, upstream[q])
    OBVIOUS
  <2>3. a.provider = p /\ b.provider = q
    BY <2>1, <2>2, <1>3
  <2>4. p = q
    BY <2>3, <1>5
  <2> QED BY <2>1, <2>2, <2>4, <1>3, <1>5 DEF Distinct
<1>6. models # {}
  <2>1. PICK p \in Providers : \E c \in upstream[p] : isTextGenerationCandidate(c) /\ safeText(c.form)
    BY DEF Good
  <2>2. PICK c \in upstream[p] : isTextGenerationCandidate(c) /\ safeText(c.form)
    BY <2>1
  <2>3. ModelsOf(p, upstream[p]) # {}
    BY <2>2 DEF ModelsOf
  <2> QED BY <2>3
<1>7. /\ value.providers = Providers /\ value.providers # {}
      /\ value.models = models
  BY BundleAssumption
<1>8. fromUpstream(upstream) = normalize(value, "cache")
  BY <1>1 DEF fromUpstream
<1>9. Distinct(value.models)
  BY <1>5, <1>7 DEF Distinct
<1> HIDE DEF models, value
<1>10. ~IsInvalid(normalize(value, "cache"))
  BY <1>4, <1>6, <1>7, <1>9, NormalizeAccepts
<1> QED BY <1>8, <1>10

-----------------------------------------------------------------------------
(* Steps. *)

IsLister(l) ==
  l = [place |-> l.place, filter |-> l.filter, found |-> l.found,
       late |-> l.late, offered |-> l.offered, listed |-> l.listed]

(* A refresh that has an answer has a catalog that will be read back; what *)
(* was offered was found; and the last catalog that was stored is the one  *)
(* get() answers with.                                                     *)
CatalogInv ==
  /\ IsLister(lister)
  /\ lister.place = "store" => Normal(lister.found, "cache")
  /\ lister.offered => Normal(lister.found, "cache")
  /\ ~IsInvalid(refreshed) => get(cache) = refreshed

LEMMA CatalogInit == Init => CatalogInv
BY DEF Init, CatalogInv, IsLister, IsInvalid, Invalid

(* A step of the lister but the ones below changes only where it is.       *)
LEMMA PlaceStep ==
  ASSUME CatalogInv, IsLister(lister'), lister'.place # "store",
         lister'.found = lister.found, lister'.offered = lister.offered,
         UNCHANGED <<cache, refreshed>>
  PROVE  CatalogInv'
BY DEF CatalogInv

LEMMA CatalogStep ==
  ASSUME CatalogInv, [Next]_vars
  PROVE  CatalogInv' /\ (cache' # cache => lister.place = "store" /\ lister'.place = "models")
<1>1. ASSUME UNCHANGED <<cache, refreshed, lister>>
      PROVE  CatalogInv' /\ cache' = cache
  BY <1>1 DEF CatalogInv
<1>2. CASE UNCHANGED vars
  BY <1>1, <1>2 DEF vars
<1>3. CASE \/ \E a \in Asks, selected \in Models : Ask(a, selected)
           \/ RequireEligibleModel \/ FindConnection
           \/ \E p \in Providers : Connect(p) \/ Disconnect(p)
           \/ \E status \in Failures : ProviderFails(status)
           \/ /\ ask.place = "call"
              /\ \E value \in Values(ask.kind) : ProviderAnswers(value)
  <2>1. UNCHANGED <<cache, refreshed, lister>>
    BY <1>3 DEF Ask, RequireEligibleModel, FindConnection, Connect, Disconnect, ProviderFails, ProviderAnswers
  <2> QED BY <1>1, <2>1
<1>4. ASSUME NEW refresh \in BOOLEAN, NEW filter, ListModels(refresh, filter)
      PROVE  CatalogInv' /\ cache' = cache
  <2>1. /\ IsLister(lister') /\ lister'.place \in {"refused", "fetch", "models"}
        /\ lister'.found = lister.found /\ lister'.offered = lister.offered
        /\ UNCHANGED <<cache, refreshed>>
    BY <1>4 DEF ListModels, CatalogInv, IsLister
  <2> QED BY <2>1, PlaceStep
<1>5. CASE FetchFails \/ TimedOut \/ Listed
  <2>1. /\ IsLister(lister') /\ lister'.place \in {"failed", "listed"}
        /\ lister'.found = lister.found /\ lister'.offered = lister.offered
        /\ UNCHANGED <<cache, refreshed>>
    BY <1>5 DEF FetchFails, TimedOut, Listed, CatalogInv, IsLister
  <2> QED BY <2>1, PlaceStep
<1>6. ASSUME NEW upstream \in Upstreams, FetchedLate(upstream)
      PROVE  CatalogInv' /\ cache' = cache
  <2>1. /\ IsLister(lister') /\ lister'.place = lister.place
        /\ lister'.found = lister.found /\ lister'.offered = lister.offered
        /\ UNCHANGED <<cache, refreshed>>
    BY <1>6 DEF FetchedLate, CatalogInv, IsLister
  <2> QED BY <2>1 DEF CatalogInv
<1>7. ASSUME NEW upstream \in Upstreams, Fetched(upstream)
      PROVE  CatalogInv' /\ cache' = cache
  <2> DEFINE found == fromUpstream(upstream)
  <2>1. /\ IsLister(lister')
        /\ lister'.found = found /\ lister'.offered = Good(upstream)
        /\ lister'.place = IF IsInvalid(found) THEN "failed" ELSE "store"
        /\ UNCHANGED <<cache, refreshed>>
    BY <1>7 DEF Fetched, CatalogInv, IsLister
  <2>2. lister'.place = "store" => Normal(lister'.found, "cache")
    BY <2>1, UpstreamIsNormal
  <2>3. Good(upstream) => Normal(lister'.found, "cache")
    BY <2>1, GoodIsTaken, UpstreamIsNormal
  <2> QED BY <2>1, <2>2, <2>3 DEF CatalogInv
<1>8. ASSUME NEW ok \in BOOLEAN, Replace(ok)
      PROVE  CatalogInv' /\ (cache' # cache => lister.place = "store" /\ lister'.place = "models")
  <2> DEFINE stored == ok /\ Storable(lister.found)
  <2>1. /\ lister.place = "store" /\ IsLister(lister')
        /\ lister'.found = lister.found /\ lister'.offered = lister.offered
        /\ lister'.place = IF stored THEN "models" ELSE "failed"
        /\ cache' = IF stored THEN CacheFile(lister.found.providers, lister.found.models) ELSE cache
        /\ refreshed' = IF stored THEN lister.found ELSE refreshed
    BY <1>8 DEF Replace, CatalogInv, IsLister
  <2>2. CASE ~stored
    BY <2>1, <2>2, PlaceStep
  <2>3. CASE stored
    <3>1. Normal(lister.found, "cache")
      BY <2>1 DEF CatalogInv
    <3>2. get(cache') = refreshed'
      BY <2>1, <2>3, <3>1, ReadsBack
    <3> QED BY <2>1, <2>3, <3>1, <3>2 DEF CatalogInv
  <2> QED BY <2>2, <2>3
<1> QED BY <1>2, <1>3, <1>4, <1>5, <1>6, <1>7, <1>8 DEF Next

LEMMA CatalogInvariant == Spec => []CatalogInv
BY CatalogInit, CatalogStep, PTL DEF Spec

-----------------------------------------------------------------------------
(* Theorems. *)

(* ModelCatalogAdapter.get() answers with a catalog of every supported     *)
(* Provider and a Model that can be selected, whatever is in the cache     *)
(* file, and with the refreshed one after a refresh.                       *)
THEOREM CatalogSurvivesAnyFile == Spec => []CatalogSurvives
<1>1. ASSUME CatalogInv PROVE CatalogSurvives
  <2>1. PICK source : Normal(get(cache), source)
    BY GetIsNormal
  <2>2. /\ get(cache).providers = Providers
        /\ \E model \in get(cache).models :
             requireEligibleModel(get(cache), [provider |-> model.provider, id |-> model.id])
    BY <2>1, NormalOffers
  <2> QED BY <1>1, <2>2 DEF CatalogSurvives, CatalogInv
<1> QED BY <1>1, CatalogInvariant, PTL

(* refresh() does not refuse an answer of models.dev in which one Model    *)
(* can be used, nor does the store what refresh() found.                   *)
THEOREM RefreshAlwaysWorks == Spec => []RefreshWorks
<1>1. ASSUME CatalogInv PROVE RefreshWorks
  <2>1. Normal(lister.found, "cache") => ~IsInvalid(lister.found) /\ Storable(lister.found)
    <3>1. Normal(lister.found, "cache") => lister.found.source = "cache"
      BY DEF Normal
    <3> QED BY <3>1, ReadsBack DEF IsInvalid
  <2> QED BY <1>1, <2>1 DEF RefreshWorks, CatalogInv
<1> QED BY <1>1, CatalogInvariant, PTL

(* A refresh that ran out of time or failed never writes the cache file,   *)
(* however late its answer comes.                                          *)
THEOREM FailedRefreshWritesNothing == Spec => FailedRefreshKeepsCache
<1>1. CatalogInv /\ [Next]_vars => 
        [cache' # cache => lister.place = "store" /\ lister'.place = "models"]_vars
  BY CatalogStep
<1> QED BY <1>1, CatalogInvariant, PTL DEF Spec, FailedRefreshKeepsCache

-----------------------------------------------------------------------------
(* A request to a Provider. *)

(* The parts of a request once there is one. *)
IsAsk(a) ==
  /\ a = [kind |-> a.kind, wanted |-> a.wanted, sense |-> a.sense, known |-> a.known,
          place |-> a.place, selected |-> a.selected, failures |-> a.failures,
          result |-> a.result, reason |-> a.reason]
  /\ a.kind \in {"suggest", "draft", "describe"} /\ a.sense # ""

(* Until the Provider has answered or failed for good, every failure so    *)
(* far was one to retry after, and there are no more than retries.         *)
Trying(a) ==
  /\ a.failures \in Seq(Retryable) /\ Len(a.failures) <= MaxRetries
  /\ a.reason = "none"

NamesLast(a) ==
  a.reason # "none" =>
    /\ a.reason = providerFailureReason(Last(a.failures))
    /\ \A i \in DOMAIN a.failures : i < Len(a.failures) => a.failures[i] \in Retryable
    /\ Last(a.failures) \in Retryable => Len(a.failures) = MaxRetries + 1

SensesFit(result) ==
  /\ Len(result.senses) <= SenseLimit
  /\ \A i, j \in DOMAIN result.senses : i # j => result.senses[i].folded # result.senses[j].folded
  /\ \A i \in DOMAIN result.senses : result.senses[i].definition = "short"

Promised(a) ==
  LET result == a.result[1] IN
  IF a.kind = "suggest"
  THEN SensesFit(result)
  ELSE /\ {d.type : d \in ToSet(result.descriptions)} = ToSet(a.wanted)
       /\ \A d \in ToSet(result.descriptions) : d.text # ""
       /\ result.sense # "" /\ (a.sense # "none" => result.sense = a.sense)
       /\ a.kind = "describe" => result.duplicate \in a.known \cup {"none"}

AskInv ==
  ask.place # "begin" =>
    /\ IsAsk(ask)
    /\ ask.place \in {"model", "connection", "call"} => Trying(ask)
    /\ ask.place = "failed" => NamesLast(ask)
    /\ ask.place = "done" => Promised(ask)

(* As many elements as places: no element twice. *)
LEMMA UniqueIsInjective ==
  ASSUME NEW n \in Nat, NEW s, DOMAIN s = 1..n, s = [i \in 1..n |-> s[i]],
         Cardinality(ToSet(s)) = n
  PROVE  \A i, j \in 1..n : i # j => s[i] # s[j]
<1>1. IsFiniteSet(1..n) /\ Cardinality(1..n) = n
  BY FS_Interval
<1>2. s \in Surjection(1..n, ToSet(s))
  BY DEF Surjection, ToSet
<1>3. s \in Injection(1..n, ToSet(s))
  BY <1>1, <1>2, FS_Surjection
<1> QED BY <1>3 DEF Injection, IsInjective

LEMMA OfOne ==
  ASSUME NEW x, NEW s, s = <<x>>
  PROVE  s # <<>> /\ s[1] = x
OBVIOUS

(* parseSenses() and suggestSenses(). *)
LEMMA SuggestedSenses ==
  ASSUME NEW value \in Values("suggest"), ~value.malformed,
         parseSenses(value) # <<>>, suggestSenses(parseSenses(value)[1]) # <<>>,
         NEW result, result = suggestSenses(parseSenses(value)[1])[1]
  PROVE  SensesFit(result)
<1> DEFINE S == [name : STRING, folded : STRING, definition : {"", "short", "long"}]
           n == IF Len(value.senses) < SenseLimit THEN Len(value.senses) ELSE SenseLimit
           first == SubSeq(value.senses, 1, n)
           folded == [i \in DOMAIN first |-> Folded(first[i])]
<1>1. value.senses \in Seq(S)
  BY ValuesAssumption
<1>2. n \in Nat /\ n <= SenseLimit /\ n <= Len(value.senses)
  <2>1. Len(value.senses) \in Nat
    <3> HIDE DEF S
    <3> QED BY <1>1
  <2> QED BY <2>1, LimitsAssumption
<1>3. first \in Seq(S) /\ Len(first) = n /\ DOMAIN first = 1..n
  <2> HIDE DEF n, S
  <2> QED BY <1>1, <1>2
<1>4. /\ parseSenses(value) = <<[senses |-> first]>>
      /\ \A i \in DOMAIN first : first[i].name # "" /\ first[i].definition \notin {"", "long"}
      /\ IsUnique(folded)
  BY DEF parseSenses
<1> HIDE DEF first
<1>5. parseSenses(value)[1] = [senses |-> first]
  BY <1>4, OfOne
<1>6. PICK parsed : parsed = [senses |-> first]
  OBVIOUS
<1>7. suggestSenses(parsed) = <<parsed>> /\ parsed.senses = first
  BY <1>5, <1>6 DEF suggestSenses
<1>8. suggestSenses(parsed)[1] = parsed
  BY <1>7, OfOne
<1>9. \A i \in DOMAIN first : first[i].definition = "short"
  <2>1. \A i \in DOMAIN first : first[i] \in S
    <3> HIDE DEF S, n
    <3> QED BY <1>2, <1>3
  <2>2. \A x \in S : x.definition \in {"", "short", "long"}
    OBVIOUS
  <2> HIDE DEF S
  <2> QED BY <1>4, <2>1, <2>2
<1>10. ASSUME NEW i \in DOMAIN first, NEW j \in DOMAIN first, i # j
       PROVE  first[i].folded # first[j].folded
  <2>1. DOMAIN folded = 1..n /\ folded = [k \in 1..n |-> folded[k]] /\ Len(folded) = n
    <3> HIDE DEF n, S
    <3>1. DOMAIN folded = 1..n /\ folded = [k \in 1..n |-> folded[k]]
      BY <1>3
    <3>2. folded = [k \in 1..n |-> Folded(first[k])]
      BY <1>3
    <3> HIDE DEF folded
    <3>3. Len(folded) = n
      BY <1>2, <3>2
    <3> QED BY <3>1, <3>3
  <2>2. Cardinality(ToSet(folded)) = n
    BY <1>4, <2>1 DEF IsUnique
  <2>3. folded[i] # folded[j]
    <3> HIDE DEF folded, n
    <3>1. \A k, l \in 1..n : k # l => folded[k] # folded[l]
      BY <1>2, <2>1, <2>2, UniqueIsInjective
    <3> QED BY <1>3, <1>10, <3>1
  <2> QED BY <2>3 DEF Folded
<1>11. result.senses = first
  BY <1>5, <1>6, <1>7, <1>8
<1> HIDE DEF n
<1> QED BY <1>2, <1>3, <1>9, <1>10, <1>11 DEF SensesFit

(* Descriptions that cover what is wanted are of the types asked for. *)
LEMMA CoversExactly ==
  ASSUME NEW descriptions, NEW wanted, Covers(descriptions, wanted)
  PROVE  /\ {d.type : d \in ToSet(descriptions)} = ToSet(wanted)
         /\ \A d \in ToSet(descriptions) : d.text # ""
<1>1. {d.type : d \in ToSet(descriptions)} = TypesOf(descriptions)
  BY DEF ToSet, TypesOf
<1>2. TypesOf(descriptions) \subseteq ToSet(wanted)
  BY DEF Covers, TypesOf
<1>3. \A d \in ToSet(descriptions) : d.text # ""
  BY DEF Covers, ToSet
<1> QED BY <1>1, <1>2, <1>3 DEF Covers

LEMMA DraftKept ==
  ASSUME NEW value, NEW a, a.sense # "",
         NEW result, parseDraft(value, a) # <<>>, generateDescriptions(parseDraft(value, a)[1], a) # <<>>,
         result = generateDescriptions(parseDraft(value, a)[1], a)[1]
  PROVE  /\ Covers(result.descriptions, a.wanted)
         /\ result.sense # "" /\ (a.sense # "none" => result.sense = a.sense)
<1>1. PICK parsed : parsed = parseDraft(value, a)[1]
  OBVIOUS
<1>2. generateDescriptions(parsed, a) = <<parsed>>
  BY <1>1 DEF generateDescriptions
<1>3. generateDescriptions(parsed, a)[1] = parsed
  BY <1>2, OfOne
<1>4. Covers(parsed.descriptions, a.wanted) /\ parsed.sense # "" /\ a.sense \in {"none", parsed.sense}
  BY <1>1 DEF generateDescriptions
<1> QED BY <1>1, <1>3, <1>4

LEMMA ProposalKept ==
  ASSUME NEW value, NEW a, a.sense # "",
         NEW result, parseProposal(value, a) # <<>>, createProposal(parseProposal(value, a)[1], a) # <<>>,
         result = createProposal(parseProposal(value, a)[1], a)[1]
  PROVE  /\ Covers(result.descriptions, a.wanted)
         /\ result.sense # "" /\ (a.sense # "none" => result.sense = a.sense)
         /\ result.duplicate \in a.known \cup {"none"}
<1>1. PICK parsed : parsed = parseProposal(value, a)[1]
  OBVIOUS
<1>2. createProposal(parsed, a) = <<parsed>>
  BY <1>1 DEF createProposal
<1>3. createProposal(parsed, a)[1] = parsed
  BY <1>2, OfOne
<1>4. /\ Covers(parsed.descriptions, a.wanted)
      /\ a.sense = "none" => parsed.sense # "" /\ parsed.duplicate \in a.known \cup {"none"}
  BY <1>1 DEF createProposal
<1>5. a.sense # "none" => parsed.sense = a.sense /\ parsed.duplicate = "none"
  BY <1>1 DEF parseProposal
<1> QED BY <1>1, <1>3, <1>4, <1>5

(* What is accepted of an answer is what was promised. *)
LEMMA AcceptedIsPromised ==
  ASSUME NEW a, IsAsk(a), a.place = "done", NEW value \in Values(a.kind),
         a.result = Accepted(value, a), a.result # <<>>
  PROVE  Promised(a)
<1>1. ~value.malformed
  BY DEF Accepted
<1>2. CASE a.kind = "suggest"
  <2>1. parseSenses(value) # <<>> /\ Accepted(value, a) = suggestSenses(parseSenses(value)[1])
    BY Zenon, <1>1, <1>2 DEF Accepted
  <2>2. PICK result : result = suggestSenses(parseSenses(value)[1])[1]
    OBVIOUS
  <2>3. value \in Values("suggest") /\ suggestSenses(parseSenses(value)[1]) # <<>>
    BY <1>2, <2>1
  <2>4. SensesFit(result)
    BY <1>1, <2>1, <2>2, <2>3, SuggestedSenses
  <2>5. a.result[1] = result
    BY <2>1, <2>2
  <2> QED BY <1>2, <2>4, <2>5 DEF Promised
<1>3. CASE a.kind = "draft"
  <2>1. /\ parseDraft(value, a) # <<>>
        /\ Accepted(value, a) = generateDescriptions(parseDraft(value, a)[1], a)
    BY <1>1, <1>3 DEF Accepted
  <2>2. PICK result : result = generateDescriptions(parseDraft(value, a)[1], a)[1]
    OBVIOUS
  <2>3. a.sense # "" /\ a.result[1] = result /\ generateDescriptions(parseDraft(value, a)[1], a) # <<>>
    BY <2>1, <2>2 DEF IsAsk
  <2>4. /\ Covers(result.descriptions, a.wanted)
        /\ result.sense # "" /\ (a.sense # "none" => result.sense = a.sense)
    BY SMT, ZenonT(60), <2>1, <2>2, <2>3, DraftKept
  <2> QED BY <1>3, <2>3, <2>4, CoversExactly DEF Promised
<1>4. CASE a.kind = "describe"
  <2>1. /\ parseProposal(value, a) # <<>>
        /\ Accepted(value, a) = createProposal(parseProposal(value, a)[1], a)
    BY <1>1, <1>4 DEF Accepted
  <2>2. PICK result : result = createProposal(parseProposal(value, a)[1], a)[1]
    OBVIOUS
  <2>3. a.sense # "" /\ a.result[1] = result /\ createProposal(parseProposal(value, a)[1], a) # <<>>
    BY <2>1, <2>2 DEF IsAsk
  <2>4. /\ Covers(result.descriptions, a.wanted)
        /\ result.sense # "" /\ (a.sense # "none" => result.sense = a.sense)
        /\ result.duplicate \in a.known \cup {"none"}
    BY <2>1, <2>2, <2>3, ProposalKept
  <2> QED BY <1>4, <2>3, <2>4, CoversExactly DEF Promised
<1> QED BY <1>2, <1>3, <1>4 DEF IsAsk

(* After the last failure the reason is that of the last failure. *)
LEMMA LastIsNamed ==
  ASSUME NEW failures \in Seq(Retryable), Len(failures) <= MaxRetries, NEW status \in Failures,
         ~(status \in Retryable /\ Len(Append(failures, status)) <= MaxRetries),
         NEW a, a.failures = Append(failures, status),
         a.reason = providerFailureReason(findApiCallError(Thrown(a.failures)))
  PROVE  NamesLast(a)
<1>1. PICK n \in Nat : n = Len(failures)
  OBVIOUS
<1>2. /\ Append(failures, status) \in Seq(Failures) /\ Len(Append(failures, status)) = n + 1
      /\ Append(failures, status)[n + 1] = status
      /\ \A i \in 1..n : Append(failures, status)[i] = failures[i]
  BY <1>1 DEF Retryable
<1>3. DOMAIN a.failures = 1..(n + 1) /\ Len(a.failures) = n + 1 /\ Last(a.failures) = status
  BY <1>2 DEF Last
<1>4. findApiCallError(Thrown(a.failures)) = status
  <2>1. CASE n = 0
    <3>1. Thrown(a.failures).kind = "call" /\ Thrown(a.failures).statuses = a.failures
      BY <1>3, <2>1 DEF Thrown
    <3>2. Head(a.failures) = status
      BY <1>2, <2>1
    <3> QED BY <3>1, <3>2 DEF findApiCallError
  <2>2. CASE n # 0
    <3>1. Thrown(a.failures).kind = "retry" /\ Thrown(a.failures).statuses = a.failures
      BY <1>1, <1>3, <2>2 DEF Thrown
    <3> QED BY <1>3, <3>1 DEF findApiCallError
  <2> QED BY <2>1, <2>2
<1>5. \A i \in DOMAIN a.failures : i < n + 1 => a.failures[i] \in Retryable
  BY <1>1, <1>2, <1>3
<1>6. status \in Retryable => n + 1 = MaxRetries + 1
  BY <1>1, <1>2, LimitsAssumption
<1> QED BY <1>3, <1>4, <1>5, <1>6 DEF NamesLast

LEMMA AskInit == Init => AskInv
BY DEF Init, AskInv

LEMMA AskStep ==
  ASSUME AskInv, [Next]_vars
  PROVE  AskInv'
<1>1. CASE UNCHANGED ask
  BY <1>1 DEF AskInv, IsAsk, Trying, NamesLast, Promised
<1>2. ASSUME NEW a \in Asks, NEW selected \in Models, Ask(a, selected)
      PROVE  AskInv'
  <2>1. /\ IsAsk(ask') /\ ask'.place \in {"refused", "model"}
        /\ ask'.failures = <<>> /\ ask'.reason = "none"
    BY <1>2, AsksAssumption DEF Ask, IsAsk
  <2> QED BY <2>1, LimitsAssumption DEF AskInv, Trying
<1>3. CASE RequireEligibleModel \/ FindConnection
  <2>1. /\ IsAsk(ask) /\ Trying(ask)
        /\ ask'.place \in {"connection", "call", "refused"}
        /\ ask' = [ask EXCEPT !.place = ask'.place]
    BY <1>3 DEF RequireEligibleModel, FindConnection, AskInv, IsAsk
  <2>2. IsAsk(ask') /\ ask'.failures = ask.failures /\ ask'.reason = ask.reason
    BY <2>1 DEF IsAsk
  <2> QED BY <2>1, <2>2 DEF AskInv, Trying
<1>4. ASSUME NEW status \in Failures, ProviderFails(status)
      PROVE  AskInv'
  <2>1. ask.place = "call" /\ IsAsk(ask) /\ Trying(ask)
    BY <1>4 DEF ProviderFails, AskInv
  <2>2. PICK failures : failures = Append(ask.failures, status)
    OBVIOUS
  <2>3. CASE status \in Retryable /\ Len(failures) <= MaxRetries
    <3>1. ask' = [ask EXCEPT !.failures = failures]
      BY <1>4, <2>2, <2>3 DEF ProviderFails
    <3>2. /\ IsAsk(ask') /\ ask'.place = "call"
          /\ ask'.failures = failures /\ ask'.reason = ask.reason
      BY <2>1, <3>1 DEF IsAsk
    <3>3. failures \in Seq(Retryable)
      BY <2>1, <2>2, <2>3 DEF Trying
    <3> QED BY <2>1, <2>3, <3>2, <3>3 DEF AskInv, Trying
  <2>4. CASE ~(status \in Retryable /\ Len(failures) <= MaxRetries)
    <3>1. PICK reason : reason = providerFailureReason(findApiCallError(Thrown(failures)))
      OBVIOUS
    <3>2. ask' = [ask EXCEPT !.failures = failures, !.place = "failed", !.reason = reason]
      BY <1>4, <2>2, <2>4, <3>1 DEF ProviderFails
    <3>3. /\ IsAsk(ask') /\ ask'.place = "failed"
          /\ ask'.failures = failures /\ ask'.reason = reason
      BY <2>1, <3>2 DEF IsAsk
    <3>4. NamesLast(ask')
      BY <2>1, <2>2, <2>4, <3>1, <3>3, LastIsNamed DEF Trying
    <3> QED BY <3>3, <3>4 DEF AskInv, NamesLast
  <2> QED BY <2>3, <2>4
<1>5. ASSUME NEW value \in Values(ask.kind), ask.place = "call", ProviderAnswers(value)
      PROVE  AskInv'
  <2>1. IsAsk(ask) /\ Trying(ask)
    BY <1>5 DEF AskInv
  <2>2. PICK result : result = Accepted(value, ask)
    OBVIOUS
  <2>3. PICK place : place = IF result = <<>> THEN "failed" ELSE "done"
    OBVIOUS
  <2>4. ask' = [ask EXCEPT !.result = result, !.place = place]
    BY <1>5, <2>2, <2>3 DEF ProviderAnswers
  <2>5. /\ IsAsk(ask') /\ ask'.place = place /\ ask'.result = result
        /\ ask'.reason = "none" /\ ask'.kind = ask.kind
        /\ ask'.sense = ask.sense /\ ask'.wanted = ask.wanted /\ ask'.known = ask.known
    BY <2>1, <2>4 DEF IsAsk, Trying
  <2>6. Accepted(value, ask') = Accepted(value, ask)
    BY <2>5 DEF Accepted, parseDraft, parseProposal, generateDescriptions, createProposal
  <2>7. place = "done" => Promised(ask')
    BY <2>2, <2>3, <2>5, <2>6, AcceptedIsPromised
  <2> QED BY <2>3, <2>5, <2>7 DEF AskInv, Promised, NamesLast
<1> QED
  BY <1>1, <1>2, <1>3, <1>4, <1>5 DEF Next, vars, ListModels, FetchFails, TimedOut, Listed,
     Fetched, FetchedLate, Replace, Connect, Disconnect

LEMMA AskInvariant == Spec => []AskInv
BY AskInit, AskStep, PTL DEF Spec

(* The reason a failed request gives is that of the last failure, after    *)
(* MaxRetries retries or one that no retry helps: findApiCallError() looks *)
(* at the last of the errors the SDK wrapped, for any number of retries.   *)
THEOREM FailureReasonIsLast == Spec => []FailureNamesLast
<1>1. AskInv => FailureNamesLast
  BY DEF AskInv, FailureNamesLast, NamesLast
<1> QED BY <1>1, AskInvariant, PTL

(* What the services hand on keeps its promise, whatever the Provider      *)
(* answers, for any Types and limit.                                       *)
THEOREM AnswersKeepPromise == Spec => []AnswerKeepsPromise
<1>1. AskInv => AnswerKeepsPromise
  BY DEF AskInv, AnswerKeepsPromise, Promised, SensesFit
<1> QED BY <1>1, AskInvariant, PTL

=============================================================================
