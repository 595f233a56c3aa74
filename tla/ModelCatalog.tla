------------------------------ MODULE ModelCatalog ------------------------------
(* The Model Catalog as a value: what ModelCatalogAdapter takes from       *)
(* models.dev and from its cache file, what FsModelCatalogStore writes and *)
(* reads, and what ModelCatalogService says of it.  A catalog has a source,*)
(* a set of Providers and a set of Models; a Model is a record of what the *)
(* checks look at.                                                         *)
EXTENDS Naturals, SequencesExt

CONSTANTS
  Providers,     \* the Providers the program supports
  BundledModels, \* the Models of the catalog it is shipped with
  Strangers      \* other Providers a cache file may name

Invalid == [source |-> "invalid", providers |-> {}, models |-> {}]
IsInvalid(catalog) == catalog.source = "invalid"

Statuses == {"active", "alpha", "beta"}

(* The ID and the names of a Model are plain, some are long (over 200      *)
(* characters), spaced (space around the ID) or strange (nothing, control  *)
(* characters).  The adapter takes plain ones, the store long ones too.    *)
safeText(form) == form = "plain"
isSafeText(form) == form \in {"plain", "long"}

(* Text in and text out only, a price or none: what both of them ask for. *)
OfText(model) == model.text /\ model.status \in Statuses /\ model.cost # "bad"

Sound(model) == safeText(model.form) /\ OfText(model)    \* for the adapter
Storing(model) == isSafeText(model.form) /\ OfText(model) \* for the store

Distinct(models) ==
  \A a, b \in models : a.provider = b.provider /\ a.id = b.id => a = b

(* Mutant: a catalog with fewer Providers stays as it is. *)
Mutantnormalize(value, source) ==
  IF \/ ~ value.providers \subseteq Providers
     \/ value.providers = {} \/ value.models = {} \/ ~Distinct(value.models)
     \/ \E model \in value.models :
          ~Sound(model) \/ model.protocol \/ model.provider \notin value.providers
  THEN Invalid
  ELSE [source |-> source, providers |-> value.providers, models |-> value.models]

normalize(value, source) ==
  IF \/ ~ value.providers \subseteq Providers
     \/ value.providers = {} \/ value.models = {} \/ ~Distinct(value.models)
     \/ \E model \in value.models :
          ~Sound(model) \/ model.protocol \/ model.provider \notin Providers
  THEN Invalid
  ELSE [source |-> source, providers |-> Providers, models |-> value.models]

(* The catalog the program is shipped with is a catalog, with a Model. *)
ASSUME BundleAssumption ==
  /\ BundledModels # {} /\ Distinct(BundledModels)
  /\ \A model \in BundledModels :
       Sound(model) /\ ~model.protocol /\ model.provider \in Providers

Bundled == normalize([providers |-> Providers, models |-> BundledModels], "bundled")

(* models.dev: each Provider's Models, with any status or none. *)
isTextGenerationCandidate(candidate) ==
  candidate.status \in Statuses \cup {"none"} /\ ~candidate.protocol
  /\ candidate.text /\ candidate.generates

(* Mutant: a Model with a strange name is taken. *)
MutantModelsOf(p, candidates) ==
  {[provider |-> p, id |-> c.id, form |-> c.form, text |-> TRUE, protocol |-> FALSE,
    status |-> IF c.status = "none" THEN "active" ELSE c.status,
    cost |-> IF c.cost = "bad" THEN "none" ELSE c.cost] :
   c \in {c \in candidates : isTextGenerationCandidate(c)}}

ModelsOf(p, candidates) ==
  {[provider |-> p, id |-> c.id, form |-> "plain", text |-> TRUE, protocol |-> FALSE,
    status |-> IF c.status = "none" THEN "active" ELSE c.status,
    cost |-> IF c.cost = "bad" THEN "none" ELSE c.cost] :
   c \in {c \in candidates : isTextGenerationCandidate(c) /\ safeText(c.form)}}

fromUpstream(upstream) ==
  IF ~ Providers \subseteq DOMAIN upstream THEN Invalid
  ELSE normalize([providers |-> Providers,
                  models |-> UNION {ModelsOf(p, upstream[p]) : p \in Providers}],
                 "cache")

-----------------------------------------------------------------------------
(* The cache file: not there, not readable, or a version and a catalog. *)

Absent == [kind |-> "absent"]
Unreadable == [kind |-> "unreadable"]
CacheFile(providers, models) ==
  [kind |-> "file", version |-> 2, providers |-> providers, models |-> models]

isCacheFile(file) ==
  /\ file.version = 2 /\ Distinct(file.models)
  /\ \A model \in file.models : Storing(model) /\ model.provider \in file.providers

(* Has the store something that it will write, or has read? *)
Storable(catalog) ==
  catalog.source \in {"cache", "bundled"} /\ isCacheFile(CacheFile(catalog.providers, catalog.models))

get(file) ==
  LET cached == IF file.kind = "file" /\ isCacheFile(file)
                THEN normalize(file, "cache") ELSE Invalid
  IN IF IsInvalid(cached) THEN Bundled ELSE cached

eligible(model) == model.text /\ model.status \in Statuses /\ ~model.protocol

configuredModels(catalog, connected, filter) ==
  {model \in catalog.models :
     /\ model.provider \in connected \cap catalog.providers \cap filter
     /\ eligible(model)}

requireEligibleModel(catalog, selected) ==
  /\ selected.provider \in catalog.providers
  /\ \E model \in catalog.models :
       model.provider = selected.provider /\ model.id = selected.id /\ eligible(model)
=============================================================================
