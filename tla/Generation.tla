------------------------------- MODULE Generation -------------------------------
(* Asking a Provider for Senses and Descriptions: the generation services  *)
(* of the core and the adapters below them, for one command, while another *)
(* (`models --refresh`) replaces the Model Catalog and the user connects   *)
(* and disconnects Providers.                                              *)
EXTENDS ModelCatalog

CONSTANTS
  Types,         \* the Description Types there are
  SenseLimit,    \* Senses that are kept of an answer
  MaxRetries,    \* requests after the first
  ForeignFiles,  \* cache files that another version may have left
  Upstreams,     \* what models.dev may answer
  Asks,          \* what may be asked for: [kind, wanted, sense, known]
  Models,        \* the Models that may be selected: [provider, id]
  Values(_)      \* what a Provider may answer to an ask

(* models.dev keeps the Models of a Provider under their IDs. *)
ASSUME UpstreamAssumption ==
  \A upstream \in Upstreams : \A p \in DOMAIN upstream :
    \A c, d \in upstream[p] : c.id = d.id => c = d

ASSUME LimitsAssumption == SenseLimit \in Nat /\ MaxRetries \in Nat

(* A Sense that Descriptions are asked for has a name. *)
ASSUME AsksAssumption ==
  \A a \in Asks : a.kind \in {"suggest", "draft", "describe"} /\ a.sense # ""

(* What is well formed has definitions that are blank, short or too long.  *)
ASSUME ValuesAssumption ==
  \A value \in Values("suggest") :
    ~value.malformed =>
      value.senses \in Seq([name : STRING, folded : STRING, definition : {"", "short", "long"}])

VARIABLES
  cache, connected, refreshed, lister, ask

vars == <<cache, connected, refreshed, lister, ask>>

Init ==
  /\ cache \in {Absent, Unreadable} \cup ForeignFiles
  /\ connected = Providers
  /\ refreshed = Invalid
  /\ lister = [place |-> "begin", filter |-> Providers, found |-> Invalid,
               late |-> FALSE, offered |-> FALSE, listed |-> {}]
  /\ ask = [place |-> "begin"]

-----------------------------------------------------------------------------
(* `models [provider] [--refresh]` *)

ListModels(refresh, filter) ==
  /\ lister.place = "begin"
  /\ lister' = [lister EXCEPT !.filter = filter,
                              !.place = IF ~ filter \subseteq get(cache).providers THEN "refused"
                                        ELSE IF refresh THEN "fetch" ELSE "models"]
  /\ UNCHANGED <<cache, connected, refreshed, ask>>

(* A response that cannot be read, is too large or is no JSON. *)
FetchFails ==
  /\ lister.place = "fetch"
  /\ lister' = [lister EXCEPT !.place = "failed"]
  /\ UNCHANGED <<cache, connected, refreshed, ask>>

Good(upstream) ==
  /\ Providers \subseteq DOMAIN upstream
  /\ \E p \in Providers : \E c \in upstream[p] : isTextGenerationCandidate(c) /\ safeText(c.form)

Fetched(upstream) ==
  /\ lister.place = "fetch"
  /\ \E found \in {fromUpstream(upstream)} :
       lister' = [lister EXCEPT !.found = found, !.offered = Good(upstream),
                                !.place = IF IsInvalid(found) THEN "failed" ELSE "store"]
  /\ UNCHANGED <<cache, connected, refreshed, ask>>

TimedOut ==
  /\ lister.place = "fetch"
  /\ lister' = [lister EXCEPT !.place = "failed", !.late = TRUE]
  /\ UNCHANGED <<cache, connected, refreshed, ask>>

(* Mutant: what comes after the deadline is stored. *)
MutantFetchedLate(upstream) ==
  /\ lister.late /\ lister' = [lister EXCEPT !.late = FALSE]
  /\ LET found == fromUpstream(upstream) IN
     cache' = IF IsInvalid(found) THEN cache ELSE CacheFile(found.providers, found.models)
  /\ UNCHANGED <<connected, refreshed, ask>>

(* The request goes on, but nobody reads its outcome. *)
FetchedLate(upstream) ==
  /\ lister.late /\ lister' = [lister EXCEPT !.late = FALSE]
  /\ UNCHANGED <<cache, connected, refreshed, ask>>

Replace(ok) ==
  /\ lister.place = "store"
  /\ LET stored == ok /\ Storable(lister.found) IN
     /\ cache' = IF stored THEN CacheFile(lister.found.providers, lister.found.models) ELSE cache
     /\ refreshed' = IF stored THEN lister.found ELSE refreshed
     /\ lister' = [lister EXCEPT !.place = IF stored THEN "models" ELSE "failed"]
  /\ UNCHANGED <<connected, ask>>

Listed ==
  /\ lister.place = "models"
  /\ lister' = [lister EXCEPT !.place = "listed",
                              !.listed = configuredModels(get(cache), connected, lister.filter)]
  /\ UNCHANGED <<cache, connected, refreshed, ask>>

-----------------------------------------------------------------------------
(* The services, up to the call of the Provider. *)

IsUnique(s) == Cardinality(ToSet(s)) = Len(s)

(* What the services refuse before anything is read. *)
Refused(a) ==
  /\ a.kind # "suggest"
  /\ a.wanted = <<>> \/ ~IsUnique(a.wanted) \/ ~ ToSet(a.wanted) \subseteq Types

Ask(a, selected) ==
  /\ ask.place = "begin"
  /\ ask' = [kind |-> a.kind, wanted |-> a.wanted, sense |-> a.sense, known |-> a.known,
             place |-> IF Refused(a) THEN "refused" ELSE "model", selected |-> selected,
             failures |-> <<>>, result |-> <<>>, reason |-> "none"]
  /\ UNCHANGED <<cache, connected, refreshed, lister>>

RequireEligibleModel ==
  /\ ask.place = "model"
  /\ ask' = [ask EXCEPT !.place = IF requireEligibleModel(get(cache), ask.selected)
                                  THEN "connection" ELSE "refused"]
  /\ UNCHANGED <<cache, connected, refreshed, lister>>

FindConnection ==
  /\ ask.place = "connection"
  /\ ask' = [ask EXCEPT !.place = IF ask.selected.provider \in connected THEN "call" ELSE "refused"]
  /\ UNCHANGED <<cache, connected, refreshed, lister>>

(* `provider connect` and `provider disconnect` change providers.json in   *)
(* one step: LocalFiles has the steps in between.                          *)
Connect(p) ==
  /\ p \notin connected /\ connected' = connected \cup {p}
  /\ UNCHANGED <<cache, refreshed, lister, ask>>

Disconnect(p) ==
  /\ p \in connected /\ connected' = connected \ {p}
  /\ UNCHANGED <<cache, refreshed, lister, ask>>

-----------------------------------------------------------------------------
(* A failure of the Provider: no answer, 401 and its like, 429 and 5xx. *)

Failures == {"unreachable", "denied", "limited"}
Retryable == Failures \ {"denied"}

providerFailureReason(status) ==
  CASE status = "unreachable" -> "check the network"
    [] status = "denied" -> "replace the API key"
    [] status = "limited" -> "try again later"

(* What the SDK throws: the failure, or after a retry an error around them.*)
Thrown(failures) ==
  IF Len(failures) = 1 THEN [kind |-> "call", statuses |-> failures]
  ELSE [kind |-> "retry", statuses |-> failures]

(* Mutant: the first failure is taken for the cause. *)
MutantfindApiCallError(cause) == Head(cause.statuses)

findApiCallError(cause) == IF cause.kind = "call" THEN Head(cause.statuses) ELSE Last(cause.statuses)

ProviderFails(status) ==
  /\ ask.place = "call"
  /\ \E failures \in {Append(ask.failures, status)} :
       ask' = IF status \in Retryable /\ Len(failures) <= MaxRetries
              THEN [ask EXCEPT !.failures = failures]
              ELSE [ask EXCEPT !.failures = failures, !.place = "failed",
                               !.reason = providerFailureReason(findApiCallError(Thrown(failures)))]
  /\ UNCHANGED <<cache, connected, refreshed, lister>>

-----------------------------------------------------------------------------
(* An answer of the Provider, and what becomes of it.  A text is blank     *)
(* ("") or not; a value that lacks a part, or has it of a wrong type, is   *)
(* malformed.  What is refused is <<>>, what is accepted a sequence of one.*)

Folded(candidate) == candidate.folded

parseSenses(value) ==
  LET first == SubSeq(value.senses, 1, IF Len(value.senses) < SenseLimit THEN Len(value.senses)
                                                                          ELSE SenseLimit)
  IN IF /\ \A i \in DOMAIN first : first[i].name # "" /\ first[i].definition \notin {"", "long"}
        /\ IsUnique([i \in DOMAIN first |-> Folded(first[i])])
     THEN <<[senses |-> first]>> ELSE <<>>

TypesOf(descriptions) == {descriptions[i].type : i \in DOMAIN descriptions}

parseDraft(value, a) ==
  LET name == IF a.sense = "none" THEN value.sense ELSE a.sense IN
  IF /\ name \notin {"", "none"}
     /\ \A i \in DOMAIN value.descriptions :
          value.descriptions[i].type \in ToSet(a.wanted) /\ value.descriptions[i].text # ""
     /\ Cardinality(TypesOf(value.descriptions)) = Len(a.wanted)
  THEN <<[sense |-> name, descriptions |-> value.descriptions]>> ELSE <<>>

(* For a Description in a Sense (a.sense) only the Descriptions are read.  *)
parseProposal(value, a) ==
  IF a.sense # "none" THEN <<[sense |-> a.sense, duplicate |-> "none",
                              descriptions |-> value.descriptions]>>
  ELSE IF "none" = value.sense \/ value.duplicate = "malformed" THEN <<>>
  ELSE <<value>>

(* The services check again. *)
suggestSenses(parsed) ==
  IF /\ Len(parsed.senses) <= SenseLimit
     /\ \A i \in DOMAIN parsed.senses : parsed.senses[i].name # "" /\ parsed.senses[i].definition # ""
     /\ IsUnique([i \in DOMAIN parsed.senses |-> Folded(parsed.senses[i])])
  THEN <<parsed>> ELSE <<>>

Covers(descriptions, wanted) ==
  /\ \A i \in DOMAIN descriptions : descriptions[i].type \in ToSet(wanted) /\ descriptions[i].text # ""
  /\ ToSet(wanted) \subseteq TypesOf(descriptions)

generateDescriptions(parsed, a) ==
  IF /\ parsed.sense # "" /\ a.sense \in {"none", parsed.sense}
     /\ Covers(parsed.descriptions, a.wanted)
  THEN <<parsed>> ELSE <<>>

(* Mutant: as many Descriptions as there are types are taken to cover them.*)
MutantcreateProposal(parsed, a) ==
  IF /\ \A i \in DOMAIN parsed.descriptions :
          parsed.descriptions[i].type \in ToSet(a.wanted) /\ parsed.descriptions[i].text # ""
     /\ Len(parsed.descriptions) >= Len(a.wanted)
     /\ a.sense = "none" => parsed.sense # "" /\ parsed.duplicate \in a.known \cup {"none"}
  THEN <<parsed>> ELSE <<>>

createProposal(parsed, a) ==
  IF /\ Covers(parsed.descriptions, a.wanted)
     /\ a.sense = "none" => parsed.sense # "" /\ parsed.duplicate \in a.known \cup {"none"}
  THEN <<parsed>> ELSE <<>>

Accepted(value, a) ==
  LET parsed == IF value.malformed THEN <<>>
                ELSE CASE a.kind = "suggest" -> parseSenses(value)
                       [] a.kind = "draft" -> parseDraft(value, a)
                       [] a.kind = "describe" -> parseProposal(value, a)
  IN IF parsed = <<>> THEN <<>>
     ELSE CASE a.kind = "suggest" -> suggestSenses(parsed[1])
            [] a.kind = "draft" -> generateDescriptions(parsed[1], a)
            [] a.kind = "describe" -> createProposal(parsed[1], a)

ProviderAnswers(value) ==
  /\ ask.place = "call"
  /\ \E result \in {Accepted(value, ask)} :
       ask' = [ask EXCEPT !.result = result, !.place = IF result = <<>> THEN "failed" ELSE "done"]
  /\ UNCHANGED <<cache, connected, refreshed, lister>>

Next ==
  \/ \E refresh \in BOOLEAN, filter \in {Providers} \cup {{p} : p \in Providers \cup Strangers} :
       ListModels(refresh, filter)
  \/ FetchFails \/ TimedOut \/ Listed
  \/ \E upstream \in Upstreams : Fetched(upstream) \/ FetchedLate(upstream)
  \/ \E ok \in BOOLEAN : Replace(ok)
  \/ \E a \in Asks, selected \in Models : Ask(a, selected)
  \/ RequireEligibleModel \/ FindConnection
  \/ \E p \in Providers : Connect(p) \/ Disconnect(p)
  \/ \E status \in Failures : ProviderFails(status)
  \/ /\ ask.place = "call"
     /\ \E value \in Values(ask.kind) : ProviderAnswers(value)

Spec == Init /\ [][Next]_vars

-----------------------------------------------------------------------------
(* Properties. *)

(* Whatever is in the cache file, there is a catalog that offers every     *)
(* supported Provider (none can become unmanageable) and a Model that can  *)
(* be selected; and a catalog that was refreshed reads back as it was.     *)
CatalogSurvives ==
  LET catalog == get(cache) IN
  /\ catalog.providers = Providers
  /\ \E model \in catalog.models :
       requireEligibleModel(catalog, [provider |-> model.provider, id |-> model.id])
  /\ ~IsInvalid(refreshed) => catalog = refreshed

(* An answer of models.dev with every Provider and one Model that can be   *)
(* used is never refused for the others that cannot, by the adapter or by  *)
(* the store behind it.                                                    *)
RefreshWorks ==
  lister.offered => ~IsInvalid(lister.found) /\ Storable(lister.found)

(* The cache file only changes when a refresh succeeds: one that has been  *)
(* reported as failed, or has run out of time, leaves it as it was however *)
(* late the answer comes.                                                  *)
FailedRefreshKeepsCache ==
  [][cache' # cache => lister.place = "store" /\ lister'.place = "models"]_vars

(* A request that failed says what the Provider said last, not before a    *)
(* retry, and is only repeated after what may pass.                        *)
FailureNamesLast ==
  ask.place = "failed" /\ ask.reason # "none" =>
    /\ ask.reason = providerFailureReason(Last(ask.failures))
    /\ \A i \in DOMAIN ask.failures : i < Len(ask.failures) => ask.failures[i] \in Retryable
    /\ Last(ask.failures) \in Retryable => Len(ask.failures) = MaxRetries + 1

(* Whatever the Provider wrote, what is handed on is what was promised:    *)
(* at most the limit of Senses of different names, or nonblank             *)
(* Descriptions of the types that were asked for, every one of them and no *)
(* other, under the Sense that was given or a named one, whose suspected   *)
(* duplicate is a Sense of the Entry.                                      *)
AnswerKeepsPromise ==
  ask.place = "done" =>
    LET result == ask.result[1] IN
    IF ask.kind = "suggest"
    THEN /\ Len(result.senses) <= SenseLimit
         /\ \A i, j \in DOMAIN result.senses : i # j => result.senses[i].folded # result.senses[j].folded
         /\ \A i \in DOMAIN result.senses : result.senses[i].definition = "short"
    ELSE /\ {d.type : d \in ToSet(result.descriptions)} = ToSet(ask.wanted)
         /\ \A d \in ToSet(result.descriptions) : d.text # ""
         /\ result.sense # "" /\ (ask.sense # "none" => result.sense = ask.sense)
         /\ ask.kind = "describe" => result.duplicate \in ask.known \cup {"none"}
=============================================================================
