-------------------------- MODULE ModelCatalogProofs --------------------------
(***************************************************************************)
(* What ModelCatalog promises, proved for any requests, providers, models, *)
(* page limit and number of account events.                                *)
(*                                                                         *)
(* Both promises are about maps under different locks, and hold of them    *)
(* because of what the refresh in progress carries: the invariant IInv     *)
(* says what that is, stage by stage.                                      *)
(***************************************************************************)
EXTENDS ModelCatalog, TLAPS

Early == {"discovery", "account", "listing"}

\* Callers that have begun their refresh and are not answered yet.
Attending == Reading \cup {"refreshing"}

Usable(facts, avail) == \A p \in Providers : avail[p] => <<p, None>> \in facts

Listed(facts, models) ==
  \A m \in models \ Configured : <<m.provider, m.upstream>> \in facts

\* Who reads has heard everything the maps say ...
ReadersHeard ==
  \A c \in Callers : pc[c] \in Reading => Usable(heard[c], available) /\ Listed(heard[c], registry)

\* ... and of what the refresh is about to write.
RoundHeard ==
  round # None =>
    \A c \in Callers : pc[c] \in Attending =>
      /\ Listed(heard[c], round.models)
      /\ IF round.stage \in Early
           THEN c \in round.after /\ \A p \in Http : round.avail[p] => <<p, None>> \in heard[c]
           ELSE Usable(heard[c], round.avail)
      /\ round.stage \in {"available", "statuses"} => Listed(heard[c], registry)
      /\ round.stage = "statuses" => Usable(heard[c], available)

\* What a request found in the registry stays there while it holds the lock.
HolderFinds ==
  \A c \in Callers : (pc[c] = "holding" /\ req[c].op = "resolve") =>
    \E m \in registry : m.id = req[c].id

\* Between Note and Withdraw only ChatGPT may be offered and not shown.
HttpShown == settled => \A p \in Http : available[p] => shown[p] = "available"

\* What the refresh found usable it will show as such.
RoundShown ==
  round # None =>
    /\ round.stage = "discovery" => \A p \in Http : round.avail[p] => p \in round.told
    /\ round.stage \in {"account", "listing"} =>
         \A p \in Http : round.avail[p] => round.status[p] = "available"
    /\ round.stage \notin Early =>
         \A p \in Providers : round.avail[p] => round.status[p] = "available"
    /\ round.stage \in {"available", "statuses"} => ~settled
    /\ round.stage = "statuses" => \A p \in Providers : available[p] => round.avail[p]

IInv ==
  /\ TypeOK
  /\ ReadersHeard /\ RoundHeard /\ HolderFinds
  /\ HttpShown /\ UsableIsShown /\ RoundShown

-----------------------------------------------------------------------------
(* The data.                                                               *)

LEMMA ModelParts ==
  ASSUME NEW m \in Models
  PROVE  m.provider \in Providers /\ m.upstream \in Upstream
BY ConfiguredAssumption DEF Models, Found

LEMMA ConfiguredModels == Configured \subseteq Models
BY DEF Models

\* What add_discovered_model adds belongs to the provider that listed it.
LEMMA AddParts ==
  ASSUME NEW models \in SUBSET Models, NEW p \in Providers, NEW us \in SUBSET Upstream
  PROVE  /\ Add(models, p, us) \in SUBSET Models
         /\ \A m \in Add(models, p, us) : m \in models \/ (m.provider = p /\ m.upstream \in us)
<1>1. ASSUME NEW u \in us PROVE Found(p, u) \in Models
  BY DEF Models
<1>2. \A u \in us : Found(p, u).provider = p /\ Found(p, u).upstream = u
  BY DEF Found
<1> QED BY <1>1, <1>2 DEF Add

LEMMA BegunRound ==
  ASSUME TypeOK, NEW c \in Callers, pc[c] = "queued"
  PROVE  /\ Begun(c) \in Rounds
         /\ Begun(c).by = c /\ Begun(c).stage = "discovery" /\ Begun(c).models = Configured
         /\ \A p \in Http : ~Begun(c).avail[p]
         /\ \A d \in Callers : pc[d] \in Attending \cup {"queued"} => d \in Begun(c).after
<1>1. {m.upstream : m \in {k \in Configured : k.provider # Chatgpt}} \in SUBSET Upstream
  BY ConfiguredAssumption
<1>2. [p \in Providers |-> p = Chatgpt] \in [Providers -> BOOLEAN]
  OBVIOUS
<1>3. {d \in Callers : pc[d] \notin {"idle"} \cup Over} \in SUBSET Callers
  OBVIOUS
<1>4. Begun(c) \in Rounds
  BY <1>1, <1>2, <1>3, ConfiguredModels DEF Begun, Rounds, Stages, TypeOK
<1>5. \A p \in Http : p \in Providers /\ p # Chatgpt
  BY NamesAssumption DEF Providers
<1> QED BY <1>4, <1>5 DEF Begun, Attending, Reading, Over

LEMMA CheckedRound ==
  ASSUME round \in Rounds, NEW models \in SUBSET Models, NEW usable \in BOOLEAN,
         NEW status \in Statuses
  PROVE  LET r == Checked(models, usable, status)
         IN /\ r \in Rounds /\ r.by = round.by /\ r.stage = "registry" /\ r.models = models
            /\ r.avail = [round.avail EXCEPT ![Chatgpt] = usable]
            /\ r.status = [round.status EXCEPT ![Chatgpt] = status]
BY DEF Checked, Rounds, Stages, Set, Providers

-----------------------------------------------------------------------------
(* Steps of the refresh.                                                   *)

\* A step that changes only the refresh, and what callers have heard.
LEMMA RoundStep ==
  ASSUME IInv, round \in Rounds, round' \in Rounds, round'.by = round.by,
         UNCHANGED <<catalog, callers, observer, settled>>,
         heard' \in [Callers -> SUBSET Facts], \A c \in Callers : heard[c] \subseteq heard'[c],
         RoundHeard', RoundShown'
  PROVE  IInv'
<1> USE DEF catalog, callers, observer
<1>1. round # None /\ round' # None
  BY NoneAssumption
<1>2. TypeOK'
  BY <1>1 DEF IInv, TypeOK
<1>3. ReadersHeard'
  BY DEF IInv, ReadersHeard, Usable, Listed
<1>4. HolderFinds' /\ HttpShown' /\ UsableIsShown'
  BY DEF IInv, HolderFinds, HttpShown, UsableIsShown
<1> QED BY <1>2, <1>3, <1>4 DEF IInv

LEMMA InRound ==
  ASSUME TypeOK, NEW stage, In(stage)
  PROVE  round \in Rounds /\ round # None /\ round.stage = stage
BY DEF In, TypeOK

\* A round that is asking keeps what it has when nothing is found.
LEMMA StillAsking ==
  ASSUME IInv, round \in Rounds, round.stage \in Early,
         NEW next \in Rounds, next.by = round.by, next.stage \in Early,
         next.models = round.models, next.avail = round.avail, next.after = round.after,
         Advance(next), UNCHANGED heard,
         \A p \in Http : round.avail[p] =>
           IF next.stage = "discovery" THEN p \in next.told ELSE next.status[p] = "available"
  PROVE  IInv'
<1> USE DEF Advance
<1>1. round # None
  BY NoneAssumption
<1>2. RoundHeard'
  BY <1>1 DEF IInv, RoundHeard, Listed, Usable, Early, callers
<1>3. RoundShown'
  BY <1>1 DEF IInv, RoundShown, Early
<1> QED BY <1>2, <1>3, RoundStep DEF IInv, TypeOK

\* The checks end: what is to be written was heard, and will be shown.
LEMMA ChecksEnd ==
  ASSUME IInv, round \in Rounds, round.stage \in {"account", "listing"},
         NEW models \in SUBSET Models, NEW usable \in BOOLEAN, NEW status \in Statuses,
         Advance(Checked(models, usable, status)),
         usable => status = "available",
         heard' \in [Callers -> SUBSET Facts], \A c \in Callers : heard[c] \subseteq heard'[c],
         \A c \in Callers : pc[c] \in Attending =>
           /\ usable => <<Chatgpt, None>> \in heard'[c]
           /\ Listed(heard'[c], models)
  PROVE  IInv'
<1> USE DEF Advance, callers
<1> DEFINE r == Checked(models, usable, status)
<1>1. round # None
  BY NoneAssumption
<1>2. /\ r \in Rounds /\ r.by = round.by /\ r.stage = "registry" /\ r.models = models
      /\ r.avail = [round.avail EXCEPT ![Chatgpt] = usable]
      /\ r.status = [round.status EXCEPT ![Chatgpt] = status]
  BY CheckedRound
<1>3. round' = r
  OBVIOUS
<1> HIDE DEF r
<1>4. round.avail \in [Providers -> BOOLEAN] /\ round.status \in [Providers -> Statuses]
  BY DEF Rounds
<1>5. \A p \in Providers : p \in Http \/ p = Chatgpt
  BY DEF Providers
<1>6. RoundHeard'
  <2> SUFFICES ASSUME NEW c \in Callers, pc[c] \in Attending
               PROVE  Listed(heard'[c], models) /\ \A p \in Providers : r.avail[p] => <<p, None>> \in heard'[c]
    BY <1>2, <1>3 DEF RoundHeard, Early, Listed, Usable
  <2>1. \A p \in Http : round.avail[p] => <<p, None>> \in heard[c]
    BY <1>1 DEF IInv, RoundHeard, Early
  <2>2. ASSUME NEW p \in Providers, r.avail[p] PROVE <<p, None>> \in heard'[c]
    BY <1>2, <1>4, <1>5, <2>1, <2>2
  <2> QED BY <2>2
<1>7. RoundShown'
  <2>1. \A p \in Http : round.avail[p] => round.status[p] = "available"
    BY <1>1 DEF IInv, RoundShown
  <2>2. ASSUME NEW p \in Providers, r.avail[p] PROVE r.status[p] = "available"
    BY <1>2, <1>4, <1>5, <2>1, <2>2
  <2> QED BY <1>2, <1>3, <2>2 DEF RoundShown, Early
<1> QED BY <1>2, <1>3, <1>6, <1>7, RoundStep

LEMMA HttpProviders == \A p \in Http : p \in Providers /\ p # Chatgpt
BY NamesAssumption DEF Providers

LEMMA ListsKeeps ==
  ASSUME IInv, NEW p \in Http, NEW us \in SUBSET Upstream, Lists(p, us)
  PROVE  IInv'
<1> USE DEF Advance, callers
<1>1. round \in Rounds /\ round # None /\ round.stage = "discovery" /\ p \in round.todo
  BY InRound DEF Lists, IInv
<1> DEFINE more == Add(round.models, p, us)
           facts == {<<p, None>>} \cup {<<p, u>> : u \in us}
<1>2. /\ more \in SUBSET Models
      /\ \A m \in more : m \in round.models \/ (m.provider = p /\ m.upstream \in us)
  BY <1>1, AddParts, HttpProviders DEF Rounds
<1> HIDE DEF more
<1>3. /\ round' \in Rounds /\ round'.by = round.by /\ round'.stage = "discovery"
      /\ round'.models = more /\ round'.after = round.after
      /\ round'.told = round.told \cup {p} /\ round'.avail = [round.avail EXCEPT ![p] = TRUE]
  BY <1>1, <1>2, HttpProviders DEF Lists, Rounds, Set, more
<1>4. round.avail \in [Providers -> BOOLEAN]
  BY <1>1 DEF Rounds
<1>5. facts \in SUBSET Facts
  BY HttpProviders DEF Facts
<1>6. heard' = [c \in Callers |-> IF c \in round.after THEN heard[c] \cup facts ELSE heard[c]]
  BY DEF Lists, Hear
<1>7. /\ heard' \in [Callers -> SUBSET Facts]
      /\ \A c \in Callers : heard[c] \subseteq heard'[c]
  BY <1>5, <1>6 DEF IInv, TypeOK
<1>8. RoundHeard'
  <2> SUFFICES ASSUME NEW c \in Callers, pc[c] \in Attending
               PROVE  /\ Listed(heard'[c], more) /\ c \in round.after
                      /\ \A q \in Http : round'.avail[q] => <<q, None>> \in heard'[c]
    BY <1>3, pc' = pc DEF RoundHeard, Early, Listed, Usable, Lists
  <2>1. /\ c \in round.after /\ Listed(heard[c], round.models)
        /\ \A q \in Http : round.avail[q] => <<q, None>> \in heard[c]
    BY <1>1 DEF IInv, RoundHeard, Early
  <2>2. heard'[c] = heard[c] \cup facts
    BY <1>6, <2>1
  <2>3. Listed(heard'[c], more)
    BY <1>2, <2>1, <2>2 DEF Listed
  <2>4. ASSUME NEW q \in Http, round'.avail[q] PROVE <<q, None>> \in heard'[c]
    <3>1. CASE q = p
      BY <2>2, <3>1
    <3>2. CASE q # p
      BY <1>3, <1>4, <2>1, <2>2, <2>4, <3>2, HttpProviders
    <3> QED BY <3>1, <3>2
  <2> QED BY <2>1, <2>3, <2>4
<1>9. RoundShown'
  <2>1. \A q \in Http : round.avail[q] => q \in round.told
    BY <1>1 DEF IInv, RoundShown
  <2>2. ASSUME NEW q \in Http, round'.avail[q] PROVE q \in round'.told
    BY <1>3, <1>4, <2>1, <2>2, HttpProviders
  <2> QED BY <1>3, <2>2 DEF RoundShown, Early
<1>10. UNCHANGED <<catalog, callers, observer, settled>>
  BY DEF Lists
<1> QED BY <1>1, <1>3, <1>7, <1>8, <1>9, <1>10, RoundStep

LEMMA QuietKeeps ==
  ASSUME IInv, NEW p \in Http, Unreachable(p) \/ Undecodable(p)
  PROVE  IInv'
<1>1. round \in Rounds /\ round.stage = "discovery" /\ round # None
  BY InRound DEF Unreachable, Undecodable, IInv
<1>2. \A q \in Http : round.avail[q] => q \in round.told
  BY <1>1 DEF IInv, RoundShown
<1>3. PICK told \in {round.told, round.told \cup {p}} :
        Advance([round EXCEPT !.todo = @ \ {p}, !.told = told]) /\ UNCHANGED heard
  <2>1. CASE Unreachable(p)
    BY <2>1 DEF Unreachable
  <2>2. CASE Undecodable(p)
    <3>1. [round EXCEPT !.todo = @ \ {p}] = [round EXCEPT !.todo = @ \ {p}, !.told = round.told]
      BY <1>1 DEF Rounds
    <3> QED BY <2>2, <3>1 DEF Undecodable
  <2> QED BY <2>1, <2>2
<1> DEFINE next == [round EXCEPT !.todo = @ \ {p}, !.told = told]
<1>4. /\ next \in Rounds /\ next.by = round.by /\ next.stage = "discovery"
      /\ next.models = round.models /\ next.avail = round.avail /\ next.after = round.after
      /\ round.told \subseteq next.told
  BY <1>1 DEF Rounds
<1> QED BY <1>1, <1>2, <1>3, <1>4, StillAsking DEF Early

LEMMA AskAccountKeeps ==
  ASSUME IInv, AskAccount
  PROVE  IInv'
<1>1. round \in Rounds /\ round.stage = "discovery" /\ round # None
  BY InRound DEF AskAccount, IInv
<1> DEFINE status == [p \in Providers |->
                        IF p \notin round.told THEN shown[p]
                        ELSE IF round.avail[p] THEN "available" ELSE "temporarily_unavailable"]
           next == [round EXCEPT !.stage = "account", !.status = status]
<1>2. status \in [Providers -> Statuses]
  BY DEF IInv, TypeOK, Statuses
<1>3. \A p \in Http : round.avail[p] => status[p] = "available"
  BY <1>1, HttpProviders DEF IInv, RoundShown
<1> HIDE DEF status
<1>4. /\ next \in Rounds /\ next.by = round.by /\ next.stage = "account"
      /\ next.models = round.models /\ next.avail = round.avail /\ next.after = round.after
      /\ next.status = status
  BY <1>1, <1>2 DEF Rounds, Stages
<1>5. Advance(next) /\ UNCHANGED heard
  BY DEF AskAccount, status
<1> HIDE DEF next
<1> QED BY <1>1, <1>3, <1>4, <1>5, StillAsking DEF Early

LEMMA SignedInKeeps ==
  ASSUME IInv, SignedIn
  PROVE  IInv'
<1>1. round \in Rounds /\ round.stage = "account" /\ round # None
  BY InRound DEF SignedIn, IInv
<1> DEFINE next == [round EXCEPT !.stage = "listing"]
<1>2. /\ next \in Rounds /\ next.by = round.by /\ next.stage = "listing"
      /\ next.models = round.models /\ next.avail = round.avail /\ next.after = round.after
      /\ next.status = round.status
  BY <1>1 DEF Rounds, Stages
<1>3. Advance(next) /\ UNCHANGED heard
  BY DEF SignedIn
<1> HIDE DEF next
<1>4. \A p \in Http : round.avail[p] => round.status[p] = "available"
  BY <1>1 DEF IInv, RoundShown
<1> QED BY <1>1, <1>2, <1>3, <1>4, StillAsking DEF Early

\* ChatGPT is left out: what was found so far is what will be written.
LEMMA ExcludedKeeps ==
  ASSUME IInv, round \in Rounds, round.stage \in {"account", "listing"},
         NEW status \in Statuses, Advance(Excluded(status)), UNCHANGED heard
  PROVE  IInv'
<1>1. round # None /\ round.models \in SUBSET Models
  BY NoneAssumption DEF Rounds
<1>2. \A c \in Callers : pc[c] \in Attending => Listed(heard'[c], round.models)
  BY <1>1 DEF IInv, RoundHeard, Listed
<1>3. heard' \in [Callers -> SUBSET Facts]
  BY DEF IInv, TypeOK
<1> QED BY <1>1, <1>2, <1>3, ChecksEnd DEF Excluded

LEMMA NextPageKeeps ==
  ASSUME IInv, NEW us \in SUBSET Upstream, NEW cursor \in Cursors, NextPage(us, cursor)
  PROVE  IInv'
<1>1. round \in Rounds /\ round.stage = "listing" /\ round # None
  BY InRound DEF NextPage, IInv
<1>2. CASE cursor \in round.pages \/ Cardinality(round.pages) + 1 >= PageLimit
  BY <1>1, <1>2, ExcludedKeeps DEF NextPage, Statuses
<1>3. CASE ~(cursor \in round.pages \/ Cardinality(round.pages) + 1 >= PageLimit)
  <2> DEFINE next == [round EXCEPT !.pages = @ \cup {cursor}, !.batch = @ \cup us]
  <2>1. /\ next \in Rounds /\ next.by = round.by /\ next.stage = "listing"
        /\ next.models = round.models /\ next.avail = round.avail /\ next.after = round.after
        /\ next.status = round.status
    BY <1>1 DEF Rounds
  <2>2. Advance(next) /\ UNCHANGED heard
    BY <1>3 DEF NextPage
  <2> HIDE DEF next
  <2>3. \A p \in Http : round.avail[p] => round.status[p] = "available"
    BY <1>1 DEF IInv, RoundShown
  <2> QED BY <1>1, <2>1, <2>2, <2>3, StillAsking DEF Early
<1> QED BY <1>2, <1>3

LEMMA LastPageKeeps ==
  ASSUME IInv, NEW us \in SUBSET Upstream, LastPage(us)
  PROVE  IInv'
<1>1. round \in Rounds /\ round.stage = "listing" /\ round # None
  BY InRound DEF LastPage, IInv
<1> DEFINE own == (round.batch \cup us) \ round.others
           more == Add(round.models, Chatgpt, own)
           facts == {<<Chatgpt, None>>} \cup {<<Chatgpt, u>> : u \in own}
<1>2. own \in SUBSET Upstream /\ Chatgpt \in Providers /\ round.models \in SUBSET Models
  BY <1>1 DEF Rounds, Providers
<1>3. Advance(Checked(more, TRUE, "available")) /\ Hear(facts)
  BY DEF LastPage
<1> HIDE DEF own
<1>4. /\ more \in SUBSET Models
      /\ \A m \in more : m \in round.models \/ (m.provider = Chatgpt /\ m.upstream \in own)
  BY <1>2, AddParts
<1> HIDE DEF more
<1>5. facts \in SUBSET Facts
  BY <1>2 DEF Facts
<1>6. heard' = [c \in Callers |-> IF c \in round.after THEN heard[c] \cup facts ELSE heard[c]]
  BY <1>3 DEF Hear
<1>7. /\ heard' \in [Callers -> SUBSET Facts]
      /\ \A c \in Callers : heard[c] \subseteq heard'[c]
  BY <1>5, <1>6 DEF IInv, TypeOK
<1>8. ASSUME NEW c \in Callers, pc[c] \in Attending
      PROVE  <<Chatgpt, None>> \in heard'[c] /\ Listed(heard'[c], more)
  <2>1. c \in round.after /\ Listed(heard[c], round.models)
    BY <1>1, <1>8 DEF IInv, RoundHeard, Early
  <2>2. heard'[c] = heard[c] \cup facts
    BY <1>6, <2>1
  <2> QED BY <1>4, <2>1, <2>2 DEF Listed
<1> QED BY <1>1, <1>3, <1>4, <1>7, <1>8, ChecksEnd DEF Statuses

LEMMA WriteRegistryKeeps ==
  ASSUME IInv, WriteRegistry
  PROVE  IInv'
<1> USE DEF catalog, callers, observer
<1>1. round \in Rounds /\ round.stage = "registry" /\ round # None
  BY InRound DEF WriteRegistry, IInv
<1>2. /\ round' \in Rounds /\ round'.by = round.by /\ round'.stage = "available"
      /\ round'.models = {} /\ round'.avail = round.avail /\ round'.status = round.status
  BY <1>1 DEF WriteRegistry, Rounds, Stages
<1>3. /\ registry' = round.models /\ ~settled' /\ settled' \in BOOLEAN
      /\ UNCHANGED <<available, shown, pc, req, about, noting, news, heard>>
      /\ \A c \in Callers : pc[c] \notin Holding
  BY DEF WriteRegistry
<1>4. round' # None /\ round.models \subseteq Models
  BY <1>1, <1>2, NoneAssumption DEF Rounds
<1>5. TypeOK'
  BY <1>1, <1>2, <1>3, <1>4 DEF IInv, TypeOK
<1>6. ReadersHeard'
  BY <1>1, <1>3 DEF IInv, ReadersHeard, RoundHeard, Usable, Listed, Attending
<1>7. RoundHeard'
  BY <1>1, <1>2, <1>3 DEF IInv, RoundHeard, Usable, Listed, Early
<1>8. HolderFinds'
  BY <1>3 DEF HolderFinds, Holding
<1>9. HttpShown' /\ UsableIsShown' /\ RoundShown'
  BY <1>1, <1>2, <1>3 DEF IInv, HttpShown, UsableIsShown, RoundShown, Early
<1> QED BY <1>5, <1>6, <1>7, <1>8, <1>9 DEF IInv

LEMMA WriteAvailableKeeps ==
  ASSUME IInv, WriteAvailable
  PROVE  IInv'
<1> USE DEF catalog, callers, observer
<1>1. round \in Rounds /\ round.stage = "available" /\ round # None
  BY InRound DEF WriteAvailable, IInv
<1>2. /\ round' \in Rounds /\ round'.by = round.by /\ round'.stage = "statuses"
      /\ round'.models = round.models /\ round'.avail = round.avail
      /\ round'.status = round.status
  BY <1>1 DEF WriteAvailable, Rounds, Stages
<1>3. /\ available' = round.avail
      /\ UNCHANGED <<registry, shown, pc, req, about, noting, news, heard, settled>>
  BY DEF WriteAvailable
<1>4. round' # None /\ round.avail \in [Providers -> BOOLEAN]
  BY <1>1, <1>2, NoneAssumption DEF Rounds
<1>5. TypeOK'
  BY <1>1, <1>2, <1>3, <1>4 DEF IInv, TypeOK
<1>6. ReadersHeard'
  BY <1>1, <1>3 DEF IInv, ReadersHeard, RoundHeard, Usable, Listed, Attending, Early
<1>7. RoundHeard'
  BY <1>1, <1>2, <1>3 DEF IInv, RoundHeard, Usable, Listed, Early
<1>8. HolderFinds'
  BY <1>3 DEF IInv, HolderFinds
<1>9. HttpShown' /\ UsableIsShown' /\ RoundShown'
  BY <1>1, <1>2, <1>3 DEF IInv, HttpShown, UsableIsShown, RoundShown, Early
<1> QED BY <1>5, <1>6, <1>7, <1>8, <1>9 DEF IInv

LEMMA WriteStatusesKeeps ==
  ASSUME IInv, WriteStatuses
  PROVE  IInv'
<1> USE DEF catalog, callers, observer
<1>1. round \in Rounds /\ round.stage = "statuses" /\ round # None
  BY InRound DEF WriteStatuses, IInv
<1>2. /\ shown' = round.status /\ round' = None /\ settled' = TRUE
      /\ pc' = [pc EXCEPT ![round.by] = "refreshed"]
      /\ UNCHANGED <<registry, available, req, about, noting, news, heard>>
  BY DEF WriteStatuses
<1>3. /\ round.by \in Callers /\ pc[round.by] = "refreshing"
      /\ round.status \in [Providers -> Statuses]
  BY <1>1 DEF Rounds, IInv, TypeOK
<1>4. TypeOK'
  BY <1>1, <1>2, <1>3 DEF IInv, TypeOK, Reading
<1>5. \A c \in Callers : pc'[c] \in Reading => pc[c] \in Attending
  BY <1>2, <1>3 DEF Attending, IInv, TypeOK
<1>6. ReadersHeard'
  BY <1>1, <1>2, <1>5 DEF IInv, ReadersHeard, RoundHeard, Usable, Listed
<1>7. HolderFinds'
  BY <1>2, <1>3 DEF IInv, HolderFinds, TypeOK
<1>8. \A p \in Providers : available[p] => round.status[p] = "available"
  BY <1>1 DEF IInv, RoundShown, Early
<1>9. HttpShown' /\ UsableIsShown' /\ RoundShown' /\ RoundHeard'
  BY <1>2, <1>8, HttpProviders DEF HttpShown, UsableIsShown, RoundShown, RoundHeard
<1> QED BY <1>4, <1>6, <1>7, <1>9 DEF IInv

-----------------------------------------------------------------------------
(* Steps of the requests and of the observer.                              *)

\* A request that reads on.
LEMMA MovesKeeps ==
  ASSUME IInv, NEW c \in Callers, pc[c] \in Reading, NEW to \in Reading, Moves(c, to),
         about' \in [Callers -> Providers \cup {None}],
         (to = "holding" /\ req[c].op = "resolve") => \E m \in registry : m.id = req[c].id
  PROVE  IInv'
<1> USE DEF catalog, observer
<1>1. /\ pc' = [pc EXCEPT ![c] = to] /\ pc \in [Callers -> {"idle", "queued", "refreshing"} \cup Reading \cup Over]
      /\ UNCHANGED <<registry, available, shown, round, req, noting, news, heard, settled>>
  BY DEF Moves, IInv, TypeOK
<1>2. pc[c] # "refreshing" /\ to # "refreshing"
  BY DEF Reading
<1>3. TypeOK'
  BY <1>1, <1>2 DEF IInv, TypeOK
<1>4. ReadersHeard' /\ RoundHeard'
  BY <1>1 DEF IInv, ReadersHeard, RoundHeard, Attending, Usable, Listed
<1>5. HolderFinds'
  BY <1>1 DEF IInv, HolderFinds
<1>6. HttpShown' /\ UsableIsShown' /\ RoundShown'
  BY <1>1 DEF IInv, HttpShown, UsableIsShown, RoundShown
<1> QED BY <1>3, <1>4, <1>5, <1>6 DEF IInv

\* A request that is over; if it was refreshing, so is the refresh.
LEMMA EndsKeeps ==
  ASSUME IInv, NEW c \in Callers, NEW how \in Over, Ends(c, how),
         round' = IF pc[c] = "refreshing" THEN None ELSE round
  PROVE  IInv'
<1> USE DEF catalog, observer
<1>1. /\ pc' = [pc EXCEPT ![c] = how] /\ pc \in [Callers -> {"idle", "queued", "refreshing"} \cup Reading \cup Over]
      /\ req' = [req EXCEPT ![c] = NoRequest] /\ about' = [about EXCEPT ![c] = None]
      /\ heard' = [heard EXCEPT ![c] = {}]
      /\ UNCHANGED <<registry, available, shown, noting, news, settled>>
  BY DEF Ends, IInv, TypeOK
<1>2. how \notin Reading /\ how # "refreshing" /\ how # "holding"
  BY DEF Reading, Over
<1>3. \A d \in Callers : pc'[d] = "refreshing" <=> (round' # None /\ round'.by = d)
  BY <1>1, <1>2 DEF IInv, TypeOK
<1>4. TypeOK'
  <2> DEFINE R == {NoRequest} \cup UNION {Requests[d] : d \in Callers}
  <2>1. req \in [Callers -> R] /\ NoRequest \in R
    BY DEF IInv, TypeOK
  <2> HIDE DEF R
  <2>2. req' \in [Callers -> R]
    BY <1>1, <2>1
  <2>3. /\ registry' \subseteq Models /\ available' \in [Providers -> BOOLEAN]
        /\ shown' \in [Providers -> Statuses] /\ round' \in Rounds \cup {None}
        /\ noting' \in BOOLEAN /\ settled' \in BOOLEAN /\ news' \in 0..MaxNews
    BY <1>1 DEF IInv, TypeOK
  <2>4. /\ pc' \in [Callers -> {"idle", "queued", "refreshing"} \cup Reading \cup Over]
        /\ about' \in [Callers -> Providers \cup {None}] /\ heard' \in [Callers -> SUBSET Facts]
    BY <1>1 DEF IInv, TypeOK
  <2> QED BY <1>3, <2>2, <2>3, <2>4 DEF TypeOK, R
<1>5. \A d \in Callers : d # c => pc'[d] = pc[d] /\ req'[d] = req[d] /\ heard'[d] = heard[d]
  BY <1>1 DEF IInv, TypeOK
<1>6. pc'[c] \notin Attending /\ pc'[c] # "holding"
  BY <1>1, <1>2 DEF Attending
<1>7. ReadersHeard' /\ RoundHeard'
  BY <1>1, <1>5, <1>6 DEF IInv, ReadersHeard, RoundHeard, Attending, Usable, Listed
<1>8. HolderFinds'
  BY <1>1, <1>5, <1>6 DEF IInv, HolderFinds
<1>9. HttpShown' /\ UsableIsShown' /\ RoundShown'
  BY <1>1 DEF IInv, HttpShown, UsableIsShown, RoundShown
<1> QED BY <1>4, <1>7, <1>8, <1>9 DEF IInv

LEMMA AsksKeeps ==
  ASSUME IInv, NEW c \in Callers, NEW r \in Requests[c], Asks(c, r)
  PROVE  IInv'
<1> USE DEF catalog, observer
<1>1. /\ pc[c] = "idle" /\ pc' = [pc EXCEPT ![c] = "queued"] /\ req' = [req EXCEPT ![c] = r]
      /\ UNCHANGED <<registry, available, shown, round, about, noting, news, heard, settled>>
  BY DEF Asks
<1>2. r \in {NoRequest} \cup UNION {Requests[d] : d \in Callers}
  OBVIOUS
<1>3. TypeOK'
  BY <1>1, <1>2 DEF IInv, TypeOK
<1>4. \A d \in Callers : d # c => pc'[d] = pc[d] /\ req'[d] = req[d]
  BY <1>1 DEF IInv, TypeOK
<1>5. pc'[c] \notin Attending /\ pc'[c] # "holding"
  BY <1>1 DEF Attending, Reading, IInv, TypeOK
<1>6. ReadersHeard' /\ RoundHeard'
  BY <1>1, <1>4, <1>5 DEF IInv, ReadersHeard, RoundHeard, Attending, Usable, Listed
<1>7. HolderFinds'
  BY <1>1, <1>4, <1>5 DEF IInv, HolderFinds
<1>8. HttpShown' /\ UsableIsShown' /\ RoundShown'
  BY <1>1 DEF IInv, HttpShown, UsableIsShown, RoundShown
<1> QED BY <1>3, <1>6, <1>7, <1>8 DEF IInv

\* Who reads while a refresh begins had asked before it.
LEMMA BeginRefreshKeeps ==
  ASSUME IInv, NEW c \in Callers, BeginRefresh(c)
  PROVE  IInv'
<1> USE DEF catalog, observer
<1> DEFINE r == Begun(c)
<1>1. /\ pc[c] = "queued" /\ round = None /\ round' = r /\ pc' = [pc EXCEPT ![c] = "refreshing"]
      /\ UNCHANGED <<registry, available, shown, req, about, noting, news, heard, settled>>
  BY DEF BeginRefresh
<1>2. /\ r \in Rounds /\ r.by = c /\ r.stage = "discovery" /\ r.models = Configured
      /\ \A p \in Http : ~r.avail[p]
      /\ \A d \in Callers : pc[d] \in Attending \cup {"queued"} => d \in r.after
  BY <1>1, BegunRound DEF IInv
<1> HIDE DEF r
<1>3. round' # None
  BY <1>1, <1>2, NoneAssumption
<1>4. \A d \in Callers : pc[d] # "refreshing"
  BY <1>1 DEF IInv, TypeOK
<1>5. TypeOK'
  BY <1>1, <1>2, <1>3, <1>4 DEF IInv, TypeOK
<1>6. \A d \in Callers : d # c => pc'[d] = pc[d]
  BY <1>1 DEF IInv, TypeOK
<1>7. pc'[c] = "refreshing"
  BY <1>1 DEF IInv, TypeOK
<1>8. ReadersHeard' /\ HolderFinds'
  BY <1>1, <1>6, <1>7 DEF IInv, ReadersHeard, HolderFinds, Reading, Usable, Listed
<1>9. RoundHeard'
  BY <1>1, <1>2, <1>6 DEF RoundHeard, Attending, Early, Listed
<1>10. HttpShown' /\ UsableIsShown' /\ RoundShown'
  BY <1>1, <1>2 DEF IInv, HttpShown, UsableIsShown, RoundShown, Early
<1> QED BY <1>5, <1>8, <1>9, <1>10 DEF IInv

LEMMA ReadsCatalogKeeps ==
  ASSUME IInv, NEW c \in Callers, ReadsCatalog(c)
  PROVE  IInv'
<1>1. about \in [Callers -> Providers \cup {None}] /\ registry \subseteq Models
  BY DEF IInv, TypeOK
<1>2. CASE CheckPrefix(c)
  BY <1>1, <1>2, MovesKeeps DEF CheckPrefix, Refused, Reading
<1>3. CASE TakeRegistry(c)
  <2>1. (req[c].op = "resolve") => \E m \in registry : m.id = req[c].id
    BY <1>3 DEF TakeRegistry
  <2> QED BY <1>1, <1>3, <2>1, MovesKeeps DEF TakeRegistry, Reading
<1>4. CASE NotFound(c)
  BY <1>4, EndsKeeps DEF NotFound, Answers, Over
<1>5. CASE FilterList(c)
  BY <1>5, EndsKeeps DEF FilterList, Answers, Over
<1>6. CASE CheckModel(c)
  <2> DEFINE m == CHOOSE k \in registry : k.id = req[c].id
  <2>1. m \in registry
    BY <1>6 DEF CheckModel, IInv, HolderFinds
  <2>2. m.provider \in Providers
    BY <1>1, <2>1, ModelParts
  <2>3. CASE available[m.provider]
    BY <1>6, <2>3, EndsKeeps DEF CheckModel, Answers, Over
  <2>4. CASE ~available[m.provider]
    <3>1. pc[c] = "holding" /\ Refused(c, m.provider, "denying")
      BY <1>6, <2>4 DEF CheckModel
    <3> HIDE DEF m
    <3> QED BY <1>1, <2>2, <3>1, MovesKeeps DEF Refused, Reading
  <2> QED BY <2>3, <2>4
<1>7. CASE Refuse(c)
  BY <1>7, EndsKeeps DEF Refuse, Answers, Over
<1>8. CASE ReadStatuses(c)
  BY <1>8, EndsKeeps DEF ReadStatuses, Answers, Over
<1> QED BY <1>2, <1>3, <1>4, <1>5, <1>6, <1>7, <1>8 DEF ReadsCatalog

LEMMA GoneKeeps ==
  ASSUME IInv, NEW c \in Callers, Gone(c)
  PROVE  IInv'
<1>1. round' = IF pc[c] = "refreshing" THEN None ELSE round
  BY DEF Gone, IInv, TypeOK
<1> QED BY <1>1, EndsKeeps DEF Gone, Over

LEMMA NoteKeeps ==
  ASSUME IInv, NEW status \in Statuses, Note(status)
  PROVE  IInv'
<1> USE DEF callers
<1>1. /\ shown' = [shown EXCEPT ![Chatgpt] = status] /\ noting' = TRUE /\ news' = news + 1
      /\ news < MaxNews
      /\ UNCHANGED <<registry, available, round, pc, req, about, heard, settled>>
  BY DEF Note, Set
<1>2. TypeOK'
  <2>1. news' \in 0..MaxNews
    BY <1>1, BoundsAssumption DEF IInv, TypeOK
  <2>2. shown' \in [Providers -> Statuses] /\ noting' \in BOOLEAN
    BY <1>1 DEF IInv, TypeOK
  <2> QED BY <1>1, <2>1, <2>2 DEF IInv, TypeOK
<1>3. ReadersHeard' /\ RoundHeard' /\ HolderFinds' /\ RoundShown'
  BY <1>1 DEF IInv, ReadersHeard, RoundHeard, HolderFinds, RoundShown, Usable, Listed
<1>4. \A p \in Http : shown'[p] = shown[p]
  BY <1>1, HttpProviders DEF IInv, TypeOK
<1>5. HttpShown' /\ UsableIsShown'
  BY <1>1, <1>4 DEF IInv, HttpShown, UsableIsShown
<1> QED BY <1>2, <1>3, <1>5 DEF IInv

LEMMA WithdrawKeeps ==
  ASSUME IInv, Withdraw
  PROVE  IInv'
<1> USE DEF callers
<1>1. /\ available' = [available EXCEPT ![Chatgpt] = FALSE] /\ noting' = FALSE
      /\ UNCHANGED <<registry, shown, round, pc, req, about, news, heard, settled>>
  BY DEF Withdraw, Set
<1>2. available \in [Providers -> BOOLEAN]
  BY DEF IInv, TypeOK
<1>3. TypeOK'
  BY <1>1, <1>2 DEF IInv, TypeOK
<1>4. \A p \in Providers : available'[p] => available[p] /\ p \in Http
  BY <1>1, <1>2 DEF Providers
<1>5. ReadersHeard' /\ RoundHeard' /\ HolderFinds'
  BY <1>1, <1>4 DEF IInv, ReadersHeard, RoundHeard, HolderFinds, Usable, Listed
<1>6. HttpShown' /\ UsableIsShown' /\ RoundShown'
  BY <1>1, <1>4, HttpProviders DEF IInv, HttpShown, UsableIsShown, RoundShown
<1> QED BY <1>3, <1>5, <1>6 DEF IInv

-----------------------------------------------------------------------------
(* The invariant, and what follows from it.                                *)

LEMMA InitIInv == Init => IInv
<1> SUFFICES ASSUME Init PROVE IInv
  OBVIOUS
<1>1. TypeOK
  <2>1. /\ registry \subseteq Models /\ available \in [Providers -> BOOLEAN]
        /\ shown \in [Providers -> Statuses] /\ round \in Rounds \cup {None}
    BY ConfiguredModels DEF Init, Statuses
  <2>2. /\ pc \in [Callers -> {"idle", "queued", "refreshing"} \cup Reading \cup Over]
        /\ about \in [Callers -> Providers \cup {None}] /\ heard \in [Callers -> SUBSET Facts]
    BY DEF Init
  <2>3. req \in [Callers -> {NoRequest} \cup UNION {Requests[c] : c \in Callers}]
    BY DEF Init
  <2>4. \A c \in Callers : pc[c] = "refreshing" <=> (round # None /\ round.by = c)
    BY DEF Init
  <2>5. noting \in BOOLEAN /\ settled \in BOOLEAN
    BY DEF Init
  <2>6. news \in 0..MaxNews
    BY BoundsAssumption DEF Init
  <2> QED BY <2>1, <2>2, <2>3, <2>4, <2>5, <2>6 DEF TypeOK
<1>2. ReadersHeard /\ RoundHeard /\ HolderFinds
  BY DEF Init, ReadersHeard, RoundHeard, HolderFinds, Reading
<1>3. HttpShown /\ UsableIsShown /\ RoundShown
  BY DEF Init, HttpShown, UsableIsShown, RoundShown
<1> QED BY <1>1, <1>2, <1>3 DEF IInv

LEMMA StutterKeeps ==
  ASSUME IInv, UNCHANGED vars
  PROVE  IInv'
<1> USE DEF vars, catalog, callers, observer
<1>1. TypeOK'
  BY DEF IInv, TypeOK
<1>2. ReadersHeard' /\ RoundHeard' /\ HolderFinds'
  BY DEF IInv, ReadersHeard, RoundHeard, HolderFinds, Usable, Listed
<1>3. HttpShown' /\ UsableIsShown' /\ RoundShown'
  BY DEF IInv, HttpShown, UsableIsShown, RoundShown
<1> QED BY <1>1, <1>2, <1>3 DEF IInv

LEMMA NextIInv == IInv /\ [Next]_vars => IInv'
<1> SUFFICES ASSUME IInv, [Next]_vars PROVE IInv'
  OBVIOUS
<1>1. CASE \E c \in Callers : \E r \in Requests[c] : Asks(c, r)
  BY <1>1, AsksKeeps
<1>2. CASE \E c \in Callers : BeginRefresh(c) \/ ReadsCatalog(c) \/ Gone(c)
  BY <1>2, BeginRefreshKeeps, ReadsCatalogKeeps, GoneKeeps
<1>3. CASE Discovering
  <2>1. CASE \E p \in Http, us \in SUBSET Upstream : Lists(p, us)
    BY <2>1, ListsKeeps
  <2>2. CASE \E p \in Http : Unreachable(p) \/ Undecodable(p)
    BY <2>2, QuietKeeps
  <2>3. CASE AskAccount \/ SignedIn
    BY <2>3, AskAccountKeeps, SignedInKeeps
  <2>4. CASE SignedOut
    <3>1. round \in Rounds /\ round.stage = "account"
      BY <2>4, InRound DEF SignedOut, IInv
    <3> QED BY <2>4, <3>1, ExcludedKeeps DEF SignedOut, Statuses
  <2>5. CASE CodexFails
    <3>1. round \in Rounds /\ round.stage \in {"account", "listing"}
      BY <2>5, InRound DEF CodexFails, IInv
    <3> QED BY <2>5, <3>1, ExcludedKeeps DEF CodexFails, Statuses
  <2>6. CASE \E us \in SUBSET Upstream : LastPage(us) \/ \E cursor \in Cursors : NextPage(us, cursor)
    BY <2>6, LastPageKeeps, NextPageKeeps
  <2> QED BY <1>3, <2>1, <2>2, <2>3, <2>4, <2>5, <2>6 DEF Discovering
<1>4. CASE Writing
  BY <1>4, WriteRegistryKeeps, WriteAvailableKeeps, WriteStatusesKeeps DEF Writing
<1>5. CASE \E status \in Statuses \ {"available"} : Note(status)
  BY <1>5, NoteKeeps
<1>6. CASE Withdraw
  BY <1>6, WithdrawKeeps
<1>7. CASE UNCHANGED vars
  BY <1>7, StutterKeeps
<1> QED BY <1>1, <1>2, <1>3, <1>4, <1>5, <1>6, <1>7 DEF Next

LEMMA AlwaysIInv == Spec => []IInv
BY InitIInv, NextIInv, PTL DEF Spec

\* The state of the catalog keeps its shape, and the refresh lock is held by the
\* caller whose handler is in refresh, for any requests, providers and models.
THEOREM TypeCorrect == Spec => []TypeOK
<1>1. IInv => TypeOK
  BY DEF IInv
<1> QED BY <1>1, AlwaysIInv, PTL

\* Between refreshes and account news, a provider whose models are offered is
\* shown as available, although the two maps have two locks and two writers.
THEOREM UsableShown == Spec => []UsableIsShown
<1>1. IInv => UsableIsShown
  BY DEF IInv
<1> QED BY <1>1, AlwaysIInv, PTL

\* A step that answers a request with models takes them from the registry, for
\* providers that are available, while the request reads.
LEMMA ReadsAnswer ==
  ASSUME IInv, NEW d \in Callers, ReadsCatalog(d)
  PROVE  /\ pc[d] \in Reading /\ \E to \in Reading \cup {"done"} : pc' = [pc EXCEPT ![d] = to]
         /\ pc'[d] = "done" => \A m \in said'.models : m \in registry /\ available[m.provider]
<1>1. pc \in [Callers -> {"idle", "queued", "refreshing"} \cup Reading \cup Over]
  BY DEF IInv, TypeOK
<1>2. CASE CheckPrefix(d)
  BY <1>1, <1>2 DEF CheckPrefix, Refused, Moves, Reading
<1>3. CASE TakeRegistry(d)
  BY <1>1, <1>3 DEF TakeRegistry, Moves, Reading
<1>4. CASE NotFound(d)
  BY <1>1, <1>4 DEF NotFound, Answers, Ends, Reading
<1>5. CASE FilterList(d)
  BY <1>1, <1>5 DEF FilterList, Answers, Ends, Reading
<1>6. CASE CheckModel(d)
  <2> DEFINE m == CHOOSE k \in registry : k.id = req[d].id
  <2>1. m \in registry /\ pc[d] = "holding"
    BY <1>6 DEF CheckModel, IInv, HolderFinds
  <2>2. CASE available[m.provider]
    <3>1. Answers(d, "models", {m})
      BY <1>6, <2>2 DEF CheckModel
    <3> HIDE DEF m
    <3> QED BY <1>1, <2>1, <2>2, <3>1 DEF Answers, Ends, Reading
  <2>3. CASE ~available[m.provider]
    <3>1. Refused(d, m.provider, "denying")
      BY <1>6, <2>3 DEF CheckModel
    <3> HIDE DEF m
    <3> QED BY <1>1, <2>1, <3>1 DEF Refused, Moves, Reading
  <2> QED BY <2>2, <2>3
<1>7. CASE Refuse(d)
  BY <1>1, <1>7 DEF Refuse, Answers, Ends, Reading
<1>8. CASE ReadStatuses(d)
  BY <1>1, <1>8 DEF ReadStatuses, Answers, Ends, Reading
<1> QED BY <1>2, <1>3, <1>4, <1>5, <1>6, <1>7, <1>8 DEF ReadsCatalog

LEMMA AnsweredFresh ==
  ASSUME IInv, [Next]_vars, NEW c \in Callers, pc[c] # "done", pc'[c] = "done"
  PROVE  \A m \in said'.models :
           /\ <<m.provider, None>> \in heard[c]
           /\ m \notin Configured => <<m.provider, m.upstream>> \in heard[c]
<1> USE DEF callers
<1>1. pc \in [Callers -> {"idle", "queued", "refreshing"} \cup Reading \cup Over]
      /\ registry \subseteq Models
  BY DEF IInv, TypeOK
<1>2. pc' # pc
  OBVIOUS
<1>3. PICK d \in Callers :
        ReadsCatalog(d) \/ \E to \in {"queued", "refreshing", "refreshed", "gone"} : pc' = [pc EXCEPT ![d] = to]
  <2>1. CASE \E d \in Callers : \E r \in Requests[d] : Asks(d, r)
    BY <2>1 DEF Asks
  <2>2. CASE \E d \in Callers : BeginRefresh(d) \/ ReadsCatalog(d) \/ Gone(d)
    BY <2>2 DEF BeginRefresh, Gone, Ends
  <2>3. CASE Discovering
    BY <1>2, <2>3 DEF Discovering, Lists, Unreachable, Undecodable, AskAccount, SignedIn,
      SignedOut, CodexFails, LastPage, NextPage, Advance
  <2>4. CASE Writing
    <3>1. WriteStatuses => round.by \in Callers
      BY InRound DEF WriteStatuses, Rounds, IInv
    <3> QED BY <1>2, <2>4, <3>1 DEF Writing, WriteRegistry, WriteAvailable, WriteStatuses
  <2>5. CASE \E status \in Statuses \ {"available"} : Note(status)
    BY <1>2, <2>5 DEF Note
  <2>6. CASE Withdraw
    BY <1>2, <2>6 DEF Withdraw
  <2>7. CASE UNCHANGED vars
    BY <1>2, <2>7 DEF vars
  <2> QED BY <2>1, <2>2, <2>3, <2>4, <2>5, <2>6, <2>7 DEF Next
<1>4. ReadsCatalog(c)
  <2>1. CASE ReadsCatalog(d)
    <3>1. \E to \in Reading \cup {"done"} : pc' = [pc EXCEPT ![d] = to]
      BY <2>1, ReadsAnswer
    <3>2. c = d
      BY <1>1, <3>1
    <3> QED BY <2>1, <3>2
  <2>2. CASE \E to \in {"queued", "refreshing", "refreshed", "gone"} : pc' = [pc EXCEPT ![d] = to]
    BY <1>1, <2>2
  <2> QED BY <1>3, <2>1, <2>2
<1>5. /\ pc[c] \in Reading
      /\ \A m \in said'.models : m \in registry /\ available[m.provider]
  BY <1>4, ReadsAnswer
<1>6. Usable(heard[c], available) /\ Listed(heard[c], registry)
  BY <1>5 DEF IInv, ReadersHeard
<1> QED BY <1>1, <1>5, <1>6, ModelParts DEF Usable, Listed

\* No list and no resolved model rests on a check that began before the request,
\* however many other requests refresh the catalog while this one reads it.
THEOREM FreshAnswers == Spec => AnswersAreFresh
<1>1. IInv /\ [Next]_vars =>
        [\A c \in Callers : (pc[c] # "done" /\ pc'[c] = "done") =>
           \A m \in said'.models :
             /\ <<m.provider, None>> \in heard[c]
             /\ m \notin Configured => <<m.provider, m.upstream>> \in heard[c]]_vars
  BY AnsweredFresh
<1> QED BY <1>1, AlwaysIInv, PTL DEF Spec, AnswersAreFresh
=============================================================================
