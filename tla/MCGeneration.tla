------------------------------ MODULE MCGeneration ------------------------------
(* Values for model-checking Generation. *)
EXTENDS Generation

Entry(p, id) ==
  [provider |-> p, id |-> id, form |-> "plain", text |-> TRUE, status |-> "active",
   cost |-> "none", protocol |-> FALSE]
MCBundled == {Entry("openai", "m")}

(* Left by another version: a Provider less, one more, a protocol that is  *)
(* not supported, a bad price, a name that is long, an ID that is spaced,  *)
(* another version, a Model twice, nothing.                                *)
MCFiles ==
  {CacheFile({"openai"}, {Entry("openai", "n")}),
   CacheFile(Providers \cup Strangers, {Entry("openai", "n")}),
   CacheFile(Providers, {[Entry("openai", "n") EXCEPT !.protocol = TRUE]}),
   CacheFile(Providers, {[Entry("openai", "n") EXCEPT !.cost = "bad"]}),
   CacheFile(Providers, {[Entry("openai", "n") EXCEPT !.form = "long"]}),
   CacheFile(Providers, {[Entry("openai", "n") EXCEPT !.form = "spaced"]}),
   [CacheFile(Providers, {Entry("openai", "n")}) EXCEPT !.version = 1],
   CacheFile(Providers, {Entry("openai", "n"), [Entry("openai", "n") EXCEPT !.cost = "good"]}),
   CacheFile({}, {})}

Candidate(id) ==
  [id |-> id, form |-> "plain", status |-> "none", protocol |-> FALSE, text |-> TRUE,
   generates |-> TRUE, cost |-> "none"]
Candidates ==
  {Candidate("n"), [Candidate("p") EXCEPT !.cost = "bad"], [Candidate("m") EXCEPT !.form = "long"],
   [Candidate("m") EXCEPT !.form = "spaced"],
   [Candidate("m") EXCEPT !.status = "deprecated"], [Candidate("m") EXCEPT !.generates = FALSE]}
MCUpstreams ==
  {[p \in Providers |-> IF p = "openai" THEN cs ELSE {}] :
     cs \in {{}} \cup {{c} : c \in Candidates} \cup {{Candidate("n"), c} : c \in Candidates}}
  \cup {[p \in {"openai"} |-> {Candidate("n")}]}

Wanted == {<<>>, <<"definition">>, <<"definition", "definition">>, <<"definition", "example">>, <<"unknown">>}
MCAsks ==
  {[kind |-> "suggest", wanted |-> <<>>, sense |-> "none", known |-> {}]}
  \cup [kind : {"draft", "describe"}, wanted : Wanted, sense : {"none", "kept"}, known : {{"s"}}]
MCModels == {[provider |-> "openai", id |-> "m"], [provider |-> "groq", id |-> "n"]}

SensesOf ==
  {[name |-> "bank", folded |-> "bank", definition |-> "short"],
   [name |-> "Bank", folded |-> "bank", definition |-> "short"],
   [name |-> "river", folded |-> "river", definition |-> "short"],
   [name |-> "river", folded |-> "river", definition |-> "long"],
   [name |-> "", folded |-> "", definition |-> "short"]}
UpTo(n, S) == UNION {[1..k -> S] : k \in 0..n}
Descriptions ==
  [type : {"definition", "example", "misc"}, text : {"text"}]
  \cup {[type |-> "definition", text |-> ""]}

MCValues(kind) ==
  {[malformed |-> TRUE]} \cup
  CASE kind = "suggest" -> [malformed : {FALSE}, senses : UpTo(3, SensesOf)]
    [] kind = "draft" -> [malformed : {FALSE}, sense : {"none", "", "new"},
                          descriptions : UpTo(2, Descriptions)]
    [] kind = "describe" -> [malformed : {FALSE}, sense : {"none", "", "new"},
                             duplicate : {"none", "s", "t", "malformed"},
                             descriptions : UpTo(2, Descriptions)]
=============================================================================
