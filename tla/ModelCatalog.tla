----------------------------- MODULE ModelCatalog -----------------------------
(***************************************************************************)
(* catalog.rs with the registry of model.rs: which models the proxy offers *)
(* and which providers it calls usable.                                    *)
(*                                                                         *)
(* Every request that lists models, resolves one for a turn or reports the *)
(* providers first refreshes the catalog, one refresh at a time: it asks   *)
(* the HTTP providers, then Codex for the ChatGPT account and the pages of *)
(* its model list, and then replaces registry, availability and statuses,  *)
(* which are three locks written one after the other.  An observer of      *)
(* Codex's account events writes the same state between those steps, and   *)
(* a request is dropped at any await when its client leaves.               *)
(*                                                                         *)
(* A public id is a pair of a prefix and a name; a model is what the       *)
(* registry maps an id to.  Every provider of the instance is enabled, and *)
(* all but ChatGPT have a base_url.  Reasoning efforts are left out.       *)
(***************************************************************************)
EXTENDS Naturals, Sequences, FiniteSets

CONSTANTS
  Callers,     \* requests that need the catalog
  Requests,    \* per caller, what it may be: [op, id] - list, resolve or status
  Http,        \* providers asked over HTTP
  Chatgpt,     \* the provider asked through Codex
  Upstream,    \* upstream model names
  Configured,  \* the models of the configuration
  Cursors,     \* pagination cursors of model/list
  PageLimit,   \* pages read at most (100 in the code)
  MaxNews,     \* bound: account events
  None

Providers == Http \cup {Chatgpt}
Statuses == {"available", "authentication_required", "temporarily_unavailable"}
Found(p, u) == [id |-> <<p, u>>, provider |-> p, upstream |-> u]
Models == Configured \cup {Found(p, u) : p \in Providers, u \in Upstream}

ASSUME NamesAssumption == Chatgpt \notin Http /\ None \notin Callers \cup Upstream \cup Cursors
ASSUME ConfiguredAssumption ==
  \A m \in Configured : m.provider \in Providers /\ m.upstream \in Upstream
ASSUME RequestsAssumption ==
  \A c \in Callers : \A r \in Requests[c] : r.op \in {"list", "resolve", "status"}
ASSUME BoundsAssumption == PageLimit \in Nat \ {0} /\ MaxNews \in Nat

\* The refresh that holds refresh_lock: whose it is, how far it is, what it has
\* found and will write, and, as history, who had asked before it began.
Stages == {"discovery", "account", "listing", "registry", "available", "statuses"}
Rounds ==
  [by : Callers, stage : Stages, todo : SUBSET Http, told : SUBSET Http,
   models : SUBSET Models, others : SUBSET Upstream, avail : [Providers -> BOOLEAN],
   status : [Providers -> Statuses], pages : SUBSET Cursors, batch : SUBSET Upstream,
   after : SUBSET Callers]

ASSUME NoneAssumption == None \notin Rounds

VARIABLES
  registry,   \* ModelRegistry.models
  available,  \* per provider, the entry of `available`
  shown,      \* per provider, the status of `provider_status`
  round,      \* the refresh that holds refresh_lock, or None
  queue,      \* callers that wait for refresh_lock, first come first served
  pc,         \* per caller, where its request is
  req,        \* per caller, its request
  about,      \* per caller, the provider it is being refused for
  noting,     \* the observer has written the status, not yet the availability
  news,       \* account events taken so far
  said,       \* history: the last answer - is, models
  heard,      \* history: per caller, what checks begun since it asked found:
              \*   <<p, None>> p is usable, <<p, u>> p lists u
  settled     \* history: the last refresh that wrote anything wrote everything

catalog == <<registry, available, shown>>
callers == <<pc, req, about, said>>
observer == <<noting, news>>
vars == <<catalog, round, queue, callers, observer, heard, settled>>

Reading == {"refreshed", "checked", "holding", "refusing", "denying"}
Over == {"done", "gone"}
Holding == {"holding", "denying"}   \* a caller inside registry.read()

NoAnswer == [is |-> "none", models |-> {}]
NoRequest == [op |-> "none", id |-> None]
Set(f, p, v) == [f EXCEPT ![p] = v]

-----------------------------------------------------------------------------
(* One refresh.                                                            *)

\* ModelRegistry::add_discovered_model: an id that is there already stays.
Add(models, p, us) ==
  models \cup {Found(p, u) : u \in {v \in us : \A m \in models : m.id # <<p, v>>}}

Begun(c) ==
  [by |-> c, stage |-> "discovery", todo |-> Http, told |-> {}, models |-> Configured,
   others |-> {m.upstream : m \in {k \in Configured : k.provider # Chatgpt}},
   avail |-> [p \in Providers |-> p = Chatgpt], status |-> shown, pages |-> {}, batch |-> {},
   after |-> {d \in Callers : pc[d] \notin {"idle"} \cup Over}]

\* What a check found is news to every caller that had asked before it began.
Hear(facts) ==
  heard' = [c \in Callers |-> IF c \in round.after THEN heard[c] \cup facts ELSE heard[c]]

\* The checks are over with these models, availability and status of ChatGPT;
\* what only they needed is dropped.
Checked(models, usable, status) ==
  [round EXCEPT !.stage = "registry", !.models = models, !.avail = Set(@, Chatgpt, usable),
                !.status = Set(@, Chatgpt, status), !.told = {}, !.others = {}, !.pages = {},
                !.batch = {}, !.after = {}]

\* A mutation of Excluded: the availability keeps its default.
ExcludedInStatusOnly(status) == Checked(round.models, TRUE, status)

\* ChatGPT is signed out, or could not be asked: it is not usable.
Excluded(status) == Checked(round.models, FALSE, status)

Asks(c, r) ==
  /\ pc[c] = "idle"
  /\ pc' = [pc EXCEPT ![c] = "queued"]
  /\ req' = [req EXCEPT ![c] = r]
  /\ queue' = Append(queue, c)
  /\ UNCHANGED <<catalog, round, about, said, observer, heard, settled>>

\* A mutation of BeginRefresh: callers share the refresh that is in progress.
BeginRefreshShared(c) ==
  /\ pc[c] = "queued" /\ queue # <<>> /\ Head(queue) = c
  /\ queue' = Tail(queue)
  /\ IF round = None
       THEN round' = Begun(c) /\ pc' = [pc EXCEPT ![c] = "refreshing"]
       ELSE pc' = [pc EXCEPT ![c] = "refreshed"] /\ UNCHANGED round
  /\ UNCHANGED <<catalog, req, about, said, observer, heard, settled>>

BeginRefresh(c) ==
  /\ pc[c] = "queued" /\ round = None /\ queue # <<>> /\ Head(queue) = c
  /\ round' = Begun(c)
  /\ queue' = Tail(queue)
  /\ pc' = [pc EXCEPT ![c] = "refreshing"]
  /\ UNCHANGED <<catalog, req, about, said, observer, heard, settled>>

In(stage) == round # None /\ round.stage = stage

Advance(next) ==
  round' = next /\ UNCHANGED <<catalog, queue, callers, observer, settled>>

\* discover_http_models: a provider that lists its models (hoshikage: those that
\* its detailed list calls capable of tools),
Lists(p, us) ==
  /\ In("discovery") /\ p \in round.todo
  /\ Advance([round EXCEPT !.todo = @ \ {p}, !.told = @ \cup {p}, !.avail = Set(@, p, TRUE),
                           !.models = Add(@, p, us), !.others = @ \cup us])
  /\ Hear({<<p, None>>} \cup {<<p, u>> : u \in us})

\* one that does not answer in time or answers an error,
Unreachable(p) ==
  /\ In("discovery") /\ p \in round.todo
  /\ Advance([round EXCEPT !.todo = @ \ {p}, !.told = @ \cup {p}])
  /\ UNCHANGED heard

\* and one whose answer cannot be decoded: it leaves no entry.
Undecodable(p) ==
  /\ In("discovery") /\ p \in round.todo
  /\ Advance([round EXCEPT !.todo = @ \ {p}])
  /\ UNCHANGED heard

\* The statuses are copied here and written at the end; account/read is sent.
AskAccount ==
  /\ In("discovery") /\ round.todo = {}
  /\ Advance([round EXCEPT !.stage = "account",
       !.status = [p \in Providers |->
                     IF p \notin round.told THEN shown[p]
                     ELSE IF round.avail[p] THEN "available" ELSE "temporarily_unavailable"]])
  /\ UNCHANGED heard

SignedIn ==
  /\ In("account")
  /\ Advance([round EXCEPT !.stage = "listing"])
  /\ UNCHANGED heard

SignedOut ==
  /\ In("account")
  /\ Advance(Excluded("authentication_required"))
  /\ UNCHANGED heard

\* account/read or model/list ends in an error, or after its 5 seconds.
CodexFails ==
  /\ In("account") \/ In("listing")
  /\ Advance(Excluded("temporarily_unavailable"))
  /\ UNCHANGED heard

\* list_codex_models: a page that is not the last ...
NextPage(us, cursor) ==
  /\ In("listing")
  /\ Advance(IF cursor \in round.pages \/ Cardinality(round.pages) + 1 >= PageLimit
               THEN Excluded("temporarily_unavailable")
               ELSE [round EXCEPT !.pages = @ \cup {cursor}, !.batch = @ \cup us])
  /\ UNCHANGED heard

\* ... and the last.  What another provider offers is not imported as ChatGPT's.
LastPage(us) ==
  /\ In("listing")
  /\ LET own == (round.batch \cup us) \ round.others
     IN /\ Advance(Checked(Add(round.models, Chatgpt, own), TRUE, "available"))
        /\ Hear({<<Chatgpt, None>>} \cup {<<Chatgpt, u>> : u \in own})

WriteRegistry ==
  /\ In("registry") /\ \A c \in Callers : pc[c] \notin Holding
  /\ registry' = round.models
  /\ round' = [round EXCEPT !.stage = "available", !.models = {}]
  /\ settled' = FALSE
  /\ UNCHANGED <<available, shown, queue, callers, observer, heard>>

WriteAvailable ==
  /\ In("available")
  /\ available' = round.avail
  /\ round' = [round EXCEPT !.stage = "statuses"]
  /\ UNCHANGED <<registry, shown, queue, callers, observer, heard, settled>>

WriteStatuses ==
  /\ In("statuses")
  /\ shown' = round.status
  /\ round' = None
  /\ pc' = [pc EXCEPT ![round.by] = "refreshed"]
  /\ settled' = TRUE
  /\ UNCHANGED <<registry, available, queue, req, about, said, observer, heard>>

-----------------------------------------------------------------------------
(* The requests, after their refresh.                                      *)

Moves(c, to) ==
  /\ pc' = [pc EXCEPT ![c] = to]
  /\ UNCHANGED <<catalog, round, queue, req, said, observer, heard, settled>>

Refused(c, p, how) ==
  /\ about' = [about EXCEPT ![c] = p]
  /\ Moves(c, how)

\* The request is over, and what it kept is gone.
Ends(c, how) ==
  /\ pc' = [pc EXCEPT ![c] = how]
  /\ req' = [req EXCEPT ![c] = NoRequest]
  /\ about' = [about EXCEPT ![c] = None]
  /\ heard' = [heard EXCEPT ![c] = {}]
  /\ UNCHANGED <<catalog, observer, settled>>

Answers(c, is, models) ==
  /\ Ends(c, "done")
  /\ said' = [is |-> is, models |-> models]
  /\ UNCHANGED <<round, queue>>

\* resolve looks at the provider the id names before it asks the registry.
CheckPrefix(c) ==
  /\ pc[c] = "refreshed" /\ req[c].op = "resolve"
  /\ LET p == req[c].id[1]
     IN IF p \in Providers /\ ~available[p]
          THEN Refused(c, p, "refusing")
          ELSE Moves(c, "checked") /\ UNCHANGED about

TakeRegistry(c) ==
  /\ \/ pc[c] = "refreshed" /\ req[c].op = "list"
     \/ pc[c] = "checked" /\ \E m \in registry : m.id = req[c].id
  /\ Moves(c, "holding") /\ UNCHANGED about

NotFound(c) ==
  /\ pc[c] = "checked" /\ \A m \in registry : m.id # req[c].id
  /\ Answers(c, "not_found", {})

FilterList(c) ==
  /\ pc[c] = "holding" /\ req[c].op = "list"
  /\ Answers(c, "models", {m \in registry : available[m.provider]})

CheckModel(c) ==
  /\ pc[c] = "holding" /\ req[c].op = "resolve"
  /\ LET m == CHOOSE k \in registry : k.id = req[c].id
     IN IF available[m.provider] THEN Answers(c, "models", {m})
                                 ELSE Refused(c, m.provider, "denying")

\* 401 provider_authentication_required, or 503 provider_unavailable.
Refuse(c) ==
  /\ pc[c] \in {"refusing", "denying"}
  /\ Answers(c, IF shown[about[c]] = "authentication_required" THEN "unauthorized" ELSE "unavailable", {})

ReadStatuses(c) ==
  /\ pc[c] = "refreshed" /\ req[c].op = "status"
  /\ Answers(c, "statuses", {})

Unqueued(c) == queue' = SelectSeq(queue, LAMBDA d : d # c)

\* A mutation of Gone: the lock is only released at the end of a refresh.
GoneKeepsLock(c) ==
  /\ pc[c] \notin {"idle"} \cup Over
  /\ Ends(c, "gone") /\ Unqueued(c) /\ UNCHANGED said
  /\ round' = IF round # None /\ round.by = c THEN [round EXCEPT !.stage = "dropped"] ELSE round

\* The client leaves: its handler is dropped, and with it the locks it holds.
Gone(c) ==
  /\ pc[c] \notin {"idle"} \cup Over
  /\ Ends(c, "gone") /\ Unqueued(c) /\ UNCHANGED said
  /\ round' = IF round # None /\ round.by = c THEN None ELSE round

-----------------------------------------------------------------------------
(* start_status_observer.                                                  *)

Note(status) ==
  /\ ~noting /\ news < MaxNews
  /\ shown' = Set(shown, Chatgpt, status)
  /\ noting' = TRUE /\ news' = news + 1
  /\ UNCHANGED <<registry, available, round, queue, callers, heard, settled>>

Withdraw ==
  /\ noting
  /\ available' = Set(available, Chatgpt, FALSE)
  /\ noting' = FALSE
  /\ UNCHANGED <<registry, shown, round, queue, callers, news, heard, settled>>

-----------------------------------------------------------------------------
Init ==
  /\ registry = Configured
  /\ available = [p \in Providers |-> p = Chatgpt]
  /\ shown = [p \in Providers |-> "temporarily_unavailable"]
  /\ round = None /\ queue = <<>>
  /\ pc = [c \in Callers |-> "idle"]
  /\ req = [c \in Callers |-> NoRequest]
  /\ about = [c \in Callers |-> None]
  /\ noting = FALSE /\ news = 0
  /\ said = NoAnswer
  /\ heard = [c \in Callers |-> {}]
  /\ settled = FALSE

Discovering ==
  \/ \E p \in Http, us \in SUBSET Upstream : Lists(p, us)
  \/ \E p \in Http : Unreachable(p) \/ Undecodable(p)
  \/ AskAccount \/ SignedIn \/ SignedOut \/ CodexFails
  \/ \E us \in SUBSET Upstream : LastPage(us) \/ \E cursor \in Cursors : NextPage(us, cursor)

Writing == WriteRegistry \/ WriteAvailable \/ WriteStatuses

ReadsCatalog(c) ==
  \/ CheckPrefix(c) \/ TakeRegistry(c) \/ NotFound(c) \/ FilterList(c)
  \/ CheckModel(c) \/ Refuse(c) \/ ReadStatuses(c)

Next ==
  \/ \E c \in Callers : \E r \in Requests[c] : Asks(c, r)
  \/ \E c \in Callers : BeginRefresh(c) \/ ReadsCatalog(c) \/ Gone(c)
  \/ Discovering \/ Writing
  \/ \E status \in Statuses \ {"available"} : Note(status)
  \/ Withdraw

Spec == Init /\ [][Next]_vars

\* Waiting is bounded: every question to a provider has a timeout of 5 seconds,
\* and the locks are handed on in the order they were asked for.  No answer of a
\* provider is assumed, and nobody is forced to ask or to leave.
Fairness ==
  /\ \A c \in Callers : WF_vars(BeginRefresh(c)) /\ WF_vars(ReadsCatalog(c))
  /\ \A p \in Http : WF_vars(Unreachable(p))
  /\ WF_vars(CodexFails) /\ WF_vars(AskAccount) /\ WF_vars(Writing) /\ WF_vars(Withdraw)

FairSpec == Spec /\ Fairness

-----------------------------------------------------------------------------
(* What the catalog promises.                                              *)

Facts == Providers \X (Upstream \cup {None})

\* The state has its shape, and a caller is in the queue, in the refresh, or
\* neither, as its pc says (the guards of refresh in catalog.rs).
TypeOK ==
  /\ registry \subseteq Models
  /\ available \in [Providers -> BOOLEAN]
  /\ shown \in [Providers -> Statuses]
  /\ round \in Rounds \cup {None}
  /\ pc \in [Callers -> {"idle", "queued", "refreshing"} \cup Reading \cup Over]
  /\ \A c \in Callers : pc[c] = "refreshing" <=> (round # None /\ round.by = c)
  /\ req \in [Callers -> {NoRequest} \cup UNION {Requests[c] : c \in Callers}]
  /\ about \in [Callers -> Providers \cup {None}]
  /\ heard \in [Callers -> SUBSET Facts]
  /\ noting \in BOOLEAN /\ settled \in BOOLEAN
  /\ news \in 0..MaxNews

\* No answer rests on an older check: a model that a list or a resolve returns
\* belongs to a provider that a refresh begun after the request found usable,
\* and if it is not configured, such a refresh found it listed - although other
\* requests replace registry and availability while this one reads them.
AnswersAreFresh ==
  [][\A c \in Callers : (pc[c] # "done" /\ pc'[c] = "done") =>
       \A m \in said'.models :
         /\ <<m.provider, None>> \in heard[c]
         /\ m \notin Configured => <<m.provider, m.upstream>> \in heard[c]]_vars

\* Availability and status are two maps under two locks, written by refreshes
\* and by the observer in opposite orders: once the writers are through, a
\* provider whose models are offered is shown as available.
UsableIsShown ==
  (settled /\ ~noting) => \A p \in Providers : available[p] => shown[p] = "available"

\* Every request is answered or abandoned: refreshes are one at a time, each of
\* several slow questions, and clients leave while they wait, ask or hold a lock.
EveryAskEnds ==
  \A c \in Callers : pc[c] = "queued" ~> pc[c] \in Over
=============================================================================
