--------------------------- MODULE EventStreamProofs ---------------------------
(***************************************************************************)
(* What EventStream promises, proved for any ring, channel, timeouts,      *)
(* number of pieces and set of readers: a stream leaves no running turn    *)
(* behind, every answer keeps the contract of ResponseStream, and a client *)
(* that watches the events and has lost none knows the approval to decide. *)
(*                                                                         *)
(* All rest on what is still to come: what the reader has planned (todo), *)
(* and what is in the ring behind its position.  A plan is dealt with from *)
(* its head, so the facts about plans are about every suffix of them.      *)
(***************************************************************************)
EXTENDS EventStream, TLAPS

Kinds == {"delta", "end", "asked", "resolved", "required", "closed", "other"}
Others == {"subscribe", "start", "stop", "probe", "read", "return", "reset", "list", "role",
           "beat", "gap", "completed", "failed", "done"}

Events ==
  {Piece(n) : n \in Nat} \cup {End(flat) : flat \in BOOLEAN} \cup {Event(k) : k \in Kinds \ {"delta", "end"}}
Tasks == Events \cup {Event(k) : k \in Others}

Shape ==
  /\ TypeOK
  /\ up \in BOOLEAN /\ stopAsked \in BOOLEAN /\ subscribed \in BOOLEAN /\ lagged \in BOOLEAN
  /\ over \in BOOLEAN /\ here \in BOOLEAN
  /\ unread \in Seq(Events) /\ todo \in Seq(Tasks) /\ text \in Seq(Nat)
  /\ known \in [end : BOOLEAN, ask : BOOLEAN, gap : BOOLEAN]
  /\ ending \in {"none", "completed", "failed"}

\* The reader is about to return, or has.
Leaves(p) == \E i \in DOMAIN p : p[i].is = "return"
Leaving == over \/ Leaves(todo)

Endings == {"completed", "failed"}

\* What comes before the loop or in it is not planned together with a return, a
\* piece of text is sent by itself, a probe comes last, a plan starts and ends
\* things once, and it returns after the ending.
Orderly(p) ==
  \A i, j \in DOMAIN p :
    /\ p[i].is \in {"subscribe", "start", "role", "probe", "delta"} => p[j].is # "return"
    /\ p[i].is = "delta" => i = j
    /\ p[i].is = "probe" => j <= i
    /\ (p[i].is = "start" /\ p[j].is = "start") => i = j
    /\ (p[i].is \in Endings /\ p[j].is \in Endings) => i = j
    /\ p[i].is \in Endings => \E k \in DOMAIN p : i < k /\ p[k].is = "return"

\* A plan to return has an interrupt before it.
StopsFirst(p) ==
  \A i \in DOMAIN p : p[i].is = "return" => \E j \in DOMAIN p : j < i /\ p[j].is = "stop"

Excused == stopAsked \/ (mode = "responses" /\ known.gap)

StopPlanned ==
  (mode \in {"responses", "chat"} /\ turn = "running") => Excused \/ StopsFirst(todo)

\* A turn is started by a reader that is subscribed.
StartsSubscribed ==
  /\ \A i \in DOMAIN todo : todo[i].is = "start" =>
       turn = "none" /\ mode \in Owners /\ (subscribed \/ todo[1].is = "subscribe")
  /\ mode \in Owners /\ ~subscribed => turn = "none"
  /\ turn = "none" => made = 0
  /\ made >= Len(text)

EndsKnown == \A i \in DOMAIN unread : unread[i].is = "end" => turn \in Ended

\* The answer ends once.
OneEnding ==
  /\ ending # "none" => Leaving
  /\ \A i \in DOMAIN todo : todo[i].is \in Endings => ending = "none"

\* "completed" is planned for a completed turn whose text has been given.
WholeWhenCompleted ==
  \A i \in DOMAIN todo : todo[i].is = "completed" => turn = "completed" /\ Len(text) = made

\* The piece about to be sent is the next one.
NextPiece ==
  mode \in Owners =>
    \A i \in DOMAIN todo : todo[i].is = "delta" =>
      todo[i].n = Len(text) + 1 /\ todo[i].n <= made

\* The pieces taken from the ring so far.
Taken == IF \E i \in DOMAIN todo : todo[i].is = "delta" THEN Len(text) + 1 ELSE Len(text)

\* The ring s continues the text after its first base pieces: the others, up to
\* the last, are in it, in their order, and the end of the turn after them.
RingFrom(base, s, last) ==
  /\ \A k \in Nat : base < k /\ k <= last => \E i \in DOMAIN s : s[i].is = "delta" /\ s[i].n = k
  /\ \A i \in DOMAIN s : s[i].is = "delta" => base < s[i].n /\ s[i].n <= last
  /\ \A i, j \in DOMAIN s : (i < j /\ s[i].is = "delta" /\ s[j].is = "delta") => s[i].n < s[j].n
  /\ \A i, j \in DOMAIN s : (i < j /\ s[i].is = "end") => s[j].is # "delta"

RingContinues == (mode \in Owners /\ ~Leaving /\ ~lagged) => RingFrom(Taken, unread, made)

\* A reader that goes on has not reached a limit.
WithinLimits == ~Leaving => silence < IdleAfter /\ probes < Confirmations

IInv ==
  /\ Shape /\ Orderly(todo) /\ WithinLimits
  /\ StopPlanned /\ LeftTurnIsStopped
  /\ StartsSubscribed /\ EndsKnown
  /\ OneEnding /\ WholeWhenCompleted /\ NextPiece /\ RingContinues

-----------------------------------------------------------------------------
(* Sequences.                                                              *)

LEMMA TailFacts ==
  ASSUME NEW S, NEW s \in Seq(S), s # <<>>
  PROVE  /\ Tail(s) \in Seq(S) /\ Len(Tail(s)) = Len(s) - 1 /\ Len(s) \in Nat \ {0}
         /\ Head(s) = s[1] /\ Head(s) \in S /\ 1 \in DOMAIN s
         /\ DOMAIN s = 1..Len(s) /\ DOMAIN Tail(s) = 1..(Len(s) - 1)
         /\ \A i \in DOMAIN Tail(s) : i + 1 \in DOMAIN s /\ i + 1 > 1 /\ Tail(s)[i] = s[i + 1]
         /\ \A i \in DOMAIN s : i = 1 \/ (i - 1 \in DOMAIN Tail(s) /\ s[i] = Tail(s)[i - 1])
<1>1. /\ Len(s) \in Nat \ {0} /\ DOMAIN s = 1..Len(s) /\ Tail(s) \in Seq(S)
      /\ Len(Tail(s)) = Len(s) - 1 /\ DOMAIN Tail(s) = 1..(Len(s) - 1)
  OBVIOUS
<1>2. Head(s) = s[1] /\ Head(s) \in S
  OBVIOUS
<1>3. \A i \in 1..(Len(s) - 1) : Tail(s)[i] = s[i + 1]
  OBVIOUS
<1> QED BY <1>1, <1>2, <1>3

LEMMA AppendFacts ==
  ASSUME NEW S, NEW s \in Seq(S), NEW e \in S
  PROVE  /\ Append(s, e) \in Seq(S) /\ Len(Append(s, e)) = Len(s) + 1
         /\ DOMAIN s = 1..Len(s) /\ DOMAIN Append(s, e) = 1..(Len(s) + 1) /\ Len(s) \in Nat
         /\ \A i \in DOMAIN s : Append(s, e)[i] = s[i]
         /\ Append(s, e)[Len(s) + 1] = e
OBVIOUS

LEMMA EmptyFacts ==
  ASSUME NEW S, NEW s \in Seq(S)
  PROVE  s \o <<>> = s /\ (Len(s) = 0 => s = <<>>)
OBVIOUS

LEMMA EventKinds ==
  /\ \A e \in Events : e.is \in Kinds
  /\ \A e \in Tasks : e.is \in Kinds \cup Others
  /\ Events \subseteq Tasks
BY DEF Events, Tasks, Kinds, Others, Piece, End, Event

-----------------------------------------------------------------------------
(* The plans of the reader.                                                *)

LEMMA StepsAre ==
  ASSUME NEW names \in Seq(Others)
  PROVE  /\ Steps(names) \in Seq(Tasks) /\ DOMAIN Steps(names) = 1..Len(names)
         /\ \A i \in 1..Len(names) : Steps(names)[i].is = names[i]
<1>1. DOMAIN names = 1..Len(names) /\ Len(names) \in Nat
  OBVIOUS
<1>2. \A i \in 1..Len(names) : Event(names[i]) \in Tasks /\ Event(names[i]).is = names[i]
  BY DEF Tasks, Event
<1>3. Steps(names) = [i \in 1..Len(names) |-> Event(names[i])]
  BY <1>1 DEF Steps
<1> HIDE DEF Steps
<1> QED BY <1>1, <1>2, <1>3

LEMMA Plan1 ==
  ASSUME NEW a \in Others
  PROVE  /\ Steps(<<a>>) \in Seq(Tasks) /\ DOMAIN Steps(<<a>>) = 1..1
         /\ Steps(<<a>>)[1].is = a
<1> DEFINE names == <<a>>
<1>1. names \in Seq(Others) /\ Len(names) = 1
  OBVIOUS
<1>2. names[1] = a
  OBVIOUS
<1> HIDE DEF names
<1>3. /\ Steps(names) \in Seq(Tasks) /\ DOMAIN Steps(names) = 1..1
      /\ Steps(names)[1].is = names[1]
  BY <1>1, StepsAre
<1> QED BY <1>2, <1>3 DEF names

LEMMA Plan2 ==
  ASSUME NEW a \in Others, NEW b \in Others
  PROVE  /\ Steps(<<a, b>>) \in Seq(Tasks) /\ DOMAIN Steps(<<a, b>>) = 1..2
         /\ Steps(<<a, b>>)[1].is = a /\ Steps(<<a, b>>)[2].is = b
<1> DEFINE names == <<a, b>>
<1>1. names \in Seq(Others) /\ Len(names) = 2
  OBVIOUS
<1>2. names[1] = a /\ names[2] = b
  OBVIOUS
<1> HIDE DEF names
<1>3. /\ Steps(names) \in Seq(Tasks) /\ DOMAIN Steps(names) = 1..2
      /\ Steps(names)[1].is = names[1] /\ Steps(names)[2].is = names[2]
  BY <1>1, StepsAre
<1> QED BY <1>2, <1>3 DEF names

LEMMA Plan3 ==
  ASSUME NEW a \in Others, NEW b \in Others, NEW c \in Others
  PROVE  /\ Steps(<<a, b, c>>) \in Seq(Tasks) /\ DOMAIN Steps(<<a, b, c>>) = 1..3
         /\ Steps(<<a, b, c>>)[1].is = a /\ Steps(<<a, b, c>>)[2].is = b /\ Steps(<<a, b, c>>)[3].is = c
<1> DEFINE names == <<a, b, c>>
<1>1. names \in Seq(Others) /\ Len(names) = 3
  OBVIOUS
<1>2. names[1] = a /\ names[2] = b /\ names[3] = c
  OBVIOUS
<1> HIDE DEF names
<1>3. /\ Steps(names) \in Seq(Tasks) /\ DOMAIN Steps(names) = 1..3
      /\ Steps(names)[1].is = names[1] /\ Steps(names)[2].is = names[2] /\ Steps(names)[3].is = names[3]
  BY <1>1, StepsAre
<1> QED BY <1>2, <1>3 DEF names

LEMMA Plan4 ==
  ASSUME NEW a \in Others, NEW b \in Others, NEW c \in Others, NEW d \in Others
  PROVE  /\ Steps(<<a, b, c, d>>) \in Seq(Tasks) /\ DOMAIN Steps(<<a, b, c, d>>) = 1..4
         /\ Steps(<<a, b, c, d>>)[1].is = a /\ Steps(<<a, b, c, d>>)[2].is = b /\ Steps(<<a, b, c, d>>)[3].is = c /\ Steps(<<a, b, c, d>>)[4].is = d
<1> DEFINE names == <<a, b, c, d>>
<1>1. names \in Seq(Others) /\ Len(names) = 4
  OBVIOUS
<1>2. names[1] = a /\ names[2] = b /\ names[3] = c /\ names[4] = d
  OBVIOUS
<1> HIDE DEF names
<1>3. /\ Steps(names) \in Seq(Tasks) /\ DOMAIN Steps(names) = 1..4
      /\ Steps(names)[1].is = names[1] /\ Steps(names)[2].is = names[2] /\ Steps(names)[3].is = names[3] /\ Steps(names)[4].is = names[4]
  BY <1>1, StepsAre
<1> QED BY <1>2, <1>3 DEF names

\* A plan that ends with the return,
Final(p) ==
  /\ p \in Seq(Tasks) /\ Orderly(p) /\ Leaves(p)
  /\ \A i \in DOMAIN p : p[i].is \in {"stop", "completed", "failed", "done", "gap", "return"}

NotCompleted(p) == \A i \in DOMAIN p : p[i].is # "completed"

\* and one after which the reader goes on.
Light(p) ==
  /\ p \in Seq(Tasks) /\ Orderly(p)
  /\ \A i \in DOMAIN p : p[i].is \in {"beat", "probe", "gap"}

LEMMA TaskNames ==
  /\ "stop" \in Others /\ "return" \in Others /\ "completed" \in Others /\ "failed" \in Others
  /\ "done" \in Others /\ "gap" \in Others /\ "beat" \in Others /\ "probe" \in Others
BY DEF Others

\* Plans by their names.
LEMMA FinalNames ==
  ASSUME NEW p \in Seq(Tasks), NEW n \in 2..4, DOMAIN p = 1..n, p[n].is = "return",
         \A i \in 1..(n - 1) : p[i].is \in {"stop", "completed", "failed", "done", "gap"},
         \A i, j \in 1..(n - 1) : (p[i].is \in Endings /\ p[j].is \in Endings) => i = j
  PROVE  Final(p)
<1>1. \A i \in DOMAIN p : i = n \/ i \in 1..(n - 1)
  OBVIOUS
<1>2. \A i \in DOMAIN p : p[i].is \in {"stop", "completed", "failed", "done", "gap", "return"}
  BY <1>1
<1>3. Orderly(p)
  BY <1>1, <1>2 DEF Orderly, Endings
<1>4. Leaves(p)
  BY DEF Leaves
<1> QED BY <1>2, <1>3, <1>4 DEF Final

LEMMA EndingPlan ==
  ASSUME NEW how \in Endings
  PROVE  Final(Steps(Ending(how))) /\ (how = "failed" => NotCompleted(Steps(Ending(how))))
<1> DEFINE p == Steps(Ending(how))
<1>1. how \in Others /\ how \in {"completed", "failed"}
  BY DEF Endings, Others
<1>2. CASE mode = "chat"
  <2>1. Ending(how) = <<how, "done", "return">>
    BY <1>2 DEF Ending
  <2>2. p \in Seq(Tasks) /\ DOMAIN p = 1..3
    BY <1>1, <2>1, Plan3, TaskNames
  <2>3. p[1].is = how /\ p[2].is = "done" /\ p[3].is = "return"
    BY <1>1, <2>1, Plan3, TaskNames
  <2> HIDE DEF p
  <2>4. \A i \in 1..2 : i = 1 \/ i = 2
    OBVIOUS
  <2>5. Final(p)
    BY <1>1, <2>2, <2>3, <2>4, FinalNames DEF Endings
  <2>6. how = "failed" => NotCompleted(p)
    BY <2>2, <2>3 DEF NotCompleted
  <2> QED BY <2>5, <2>6 DEF p
<1>3. CASE mode # "chat"
  <2>1. Ending(how) = <<how, "return">>
    BY <1>3 DEF Ending
  <2>2. p \in Seq(Tasks) /\ DOMAIN p = 1..2
    BY <1>1, <2>1, Plan2, TaskNames
  <2>3. p[1].is = how /\ p[2].is = "return"
    BY <1>1, <2>1, Plan2, TaskNames
  <2> HIDE DEF p
  <2>4. \A i \in 1..1 : i = 1
    OBVIOUS
  <2>5. Final(p)
    BY <1>1, <2>2, <2>3, <2>4, FinalNames DEF Endings
  <2>6. how = "failed" => NotCompleted(p)
    BY <2>2, <2>3 DEF NotCompleted
  <2> QED BY <2>5, <2>6 DEF p
<1> QED BY <1>2, <1>3

LEMMA StopThen ==
  ASSUME NEW names \in Seq(Others)
  PROVE  LET p == Steps(<<"stop">> \o names)
         IN /\ p \in Seq(Tasks) /\ DOMAIN p = 1..(Len(names) + 1) /\ p[1].is = "stop"
            /\ \A i \in 1..Len(names) : p[i + 1].is = names[i]
<1> DEFINE more == <<"stop">> \o names
<1>1. <<"stop">> \in Seq(Others) /\ Len(<<"stop">>) = 1 /\ <<"stop">>[1] = "stop"
  BY TaskNames
<1>2. more \in Seq(Others) /\ Len(more) = Len(names) + 1 /\ Len(names) \in Nat
  BY <1>1
<1>3. more[1] = "stop" /\ \A i \in 1..Len(names) : more[i + 1] = names[i]
  BY <1>1
<1> HIDE DEF more
<1>4. /\ Steps(more) \in Seq(Tasks) /\ DOMAIN Steps(more) = 1..(Len(names) + 1)
      /\ \A i \in 1..(Len(names) + 1) : Steps(more)[i].is = more[i]
  BY <1>2, StepsAre
<1>5. \A i \in 1..Len(names) : i + 1 \in 1..(Len(names) + 1)
  BY <1>2
<1>6. 1 \in 1..(Len(names) + 1)
  BY <1>2
<1> HIDE DEF Steps
<1>7. Steps(more)[1].is = "stop" /\ \A i \in 1..Len(names) : Steps(more)[i + 1].is = names[i]
  BY <1>3, <1>4, <1>5, <1>6
<1> QED BY <1>4, <1>7 DEF more

LEMMA FailurePlan == Final(Failure) /\ NotCompleted(Failure) /\ StopsFirst(Failure)
<1> DEFINE p == Failure
<1>1. CASE mode = "chat"
  <2> DEFINE names == <<"failed", "done", "return">>
  <2>1. Ending("failed") = names /\ names \in Seq(Others) /\ Len(names) = 3
    BY <1>1, TaskNames DEF Ending
  <2>2. names[1] = "failed" /\ names[2] = "done" /\ names[3] = "return"
    OBVIOUS
  <2> HIDE DEF names
  <2>3. p = Steps(<<"stop">> \o names)
    BY <2>1 DEF Failure
  <2> HIDE DEF p
  <2>4. /\ p \in Seq(Tasks) /\ DOMAIN p = 1..(Len(names) + 1) /\ p[1].is = "stop"
        /\ \A i \in 1..Len(names) : p[i + 1].is = names[i]
    BY <2>1, <2>3, StopThen
  <2>5. DOMAIN p = 1..4
    BY <2>1, <2>4
  <2>6. p[1].is = "stop" /\ p[2].is = "failed" /\ p[3].is = "done" /\ p[4].is = "return"
    BY <2>1, <2>2, <2>4
  <2>7. \A i \in 1..3 : i = 1 \/ i = 2 \/ i = 3
    OBVIOUS
  <2>8. Final(p)
    BY <2>4, <2>5, <2>6, <2>7, FinalNames DEF Endings
  <2>9. NotCompleted(p) /\ StopsFirst(p)
    BY <2>5, <2>6 DEF NotCompleted, StopsFirst
  <2> QED BY <2>8, <2>9 DEF p
<1>2. CASE mode # "chat"
  <2> DEFINE names == <<"failed", "return">>
  <2>1. Ending("failed") = names /\ names \in Seq(Others) /\ Len(names) = 2
    BY <1>2, TaskNames DEF Ending
  <2>2. names[1] = "failed" /\ names[2] = "return"
    OBVIOUS
  <2> HIDE DEF names
  <2>3. p = Steps(<<"stop">> \o names)
    BY <2>1 DEF Failure
  <2> HIDE DEF p
  <2>4. /\ p \in Seq(Tasks) /\ DOMAIN p = 1..(Len(names) + 1) /\ p[1].is = "stop"
        /\ \A i \in 1..Len(names) : p[i + 1].is = names[i]
    BY <2>1, <2>3, StopThen
  <2>5. DOMAIN p = 1..3
    BY <2>1, <2>4
  <2>6. p[1].is = "stop" /\ p[2].is = "failed" /\ p[3].is = "return"
    BY <2>1, <2>2, <2>4
  <2>7. \A i \in 1..2 : i = 1 \/ i = 2
    OBVIOUS
  <2>8. Final(p)
    BY <2>4, <2>5, <2>6, <2>7, FinalNames DEF Endings
  <2>9. NotCompleted(p) /\ StopsFirst(p)
    BY <2>5, <2>6 DEF NotCompleted, StopsFirst
  <2> QED BY <2>8, <2>9 DEF p
<1> QED BY <1>1, <1>2

LEMMA StopReturnPlan ==
  LET p == Steps(<<"stop", "return">>) IN Final(p) /\ NotCompleted(p) /\ StopsFirst(p)
<1> DEFINE p == Steps(<<"stop", "return">>)
<1>1. p \in Seq(Tasks) /\ DOMAIN p = 1..2
  BY Plan2, TaskNames
<1>2. p[1].is = "stop" /\ p[2].is = "return"
  BY Plan2, TaskNames
<1> HIDE DEF p
<1>3. \A i \in 1..1 : i = 1
  OBVIOUS
<1>4. Final(p)
  BY <1>1, <1>2, <1>3, FinalNames
<1>5. NotCompleted(p) /\ StopsFirst(p)
  BY <1>1, <1>2 DEF NotCompleted, StopsFirst
<1> QED BY <1>4, <1>5 DEF p

LEMMA GapReturnPlan ==
  LET p == Steps(<<"gap", "return">>) IN Final(p) /\ NotCompleted(p)
<1> DEFINE p == Steps(<<"gap", "return">>)
<1>1. p \in Seq(Tasks) /\ DOMAIN p = 1..2
  BY Plan2, TaskNames
<1>2. p[1].is = "gap" /\ p[2].is = "return"
  BY Plan2, TaskNames
<1> HIDE DEF p
<1>3. \A i \in 1..1 : i = 1
  OBVIOUS
<1>4. Final(p)
  BY <1>1, <1>2, <1>3, FinalNames
<1>5. NotCompleted(p)
  BY <1>1, <1>2 DEF NotCompleted
<1> QED BY <1>4, <1>5 DEF p

LEMMA ReturnPlan ==
  LET p == Steps(<<"return">>) IN Final(p) /\ NotCompleted(p)
<1> DEFINE p == Steps(<<"return">>)
<1>1. p \in Seq(Tasks) /\ DOMAIN p = 1..1 /\ p[1].is = "return"
  BY Plan1, TaskNames
<1> HIDE DEF p
<1>2. Final(p) /\ NotCompleted(p)
  BY <1>1 DEF Final, NotCompleted, Orderly, Leaves, Endings
<1> QED BY <1>2 DEF p

LEMMA LightNames ==
  ASSUME NEW p \in Seq(Tasks), \A i \in DOMAIN p : p[i].is \in {"beat", "probe", "gap"},
         \A i, j \in DOMAIN p : p[i].is = "probe" => j <= i
  PROVE  Light(p)
BY DEF Light, Orderly, Endings

LEMMA LightPlans ==
  /\ Light(<<>>) /\ Light(Steps(<<"beat">>)) /\ Light(Steps(<<"beat", "probe">>))
  /\ Light(Steps(<<"gap">>))
<1>1. Light(<<>>)
  <2>1. <<>> \in Seq(Tasks) /\ DOMAIN <<>> = {}
    OBVIOUS
  <2> QED BY <2>1, LightNames
<1>2. Light(Steps(<<"beat">>)) /\ Light(Steps(<<"gap">>))
  <2>1. /\ Steps(<<"beat">>) \in Seq(Tasks) /\ DOMAIN Steps(<<"beat">>) = 1..1
        /\ Steps(<<"beat">>)[1].is = "beat"
    BY Plan1, TaskNames
  <2>2. /\ Steps(<<"gap">>) \in Seq(Tasks) /\ DOMAIN Steps(<<"gap">>) = 1..1
        /\ Steps(<<"gap">>)[1].is = "gap"
    BY Plan1, TaskNames
  <2> QED BY <2>1, <2>2, LightNames
<1>3. Light(Steps(<<"beat", "probe">>))
  <2> DEFINE p == Steps(<<"beat", "probe">>)
  <2>1. p \in Seq(Tasks) /\ DOMAIN p = 1..2
    BY Plan2, TaskNames
  <2>2. p[1].is = "beat" /\ p[2].is = "probe"
    BY Plan2, TaskNames
  <2> HIDE DEF p
  <2>3. Light(p)
    BY <2>1, <2>2, LightNames
  <2> QED BY <2>3 DEF p
<1> QED BY <1>1, <1>2, <1>3

-----------------------------------------------------------------------------
(* The ring.                                                               *)

LEMMA Constants ==
  /\ Ring \in Nat \ {0} /\ Slots \in Nat \ {0} /\ MaxPieces \in Nat
  /\ IdleAfter \in Nat \ {0} /\ Confirmations \in Nat \ {0}
BY LimitsAssumption

LEMMA PieceFacts ==
  /\ \A e \in Events : e.is = "delta" => e.n \in Nat
  /\ \A n \in Nat : Piece(n) \in Events /\ Piece(n).is = "delta" /\ Piece(n).n = n
BY DEF Events, Piece, End, Event

LEMMA PublishFacts ==
  ASSUME Shape, NEW e \in Events, Publish(e) \/ UNCHANGED ring
  PROVE  /\ subscribed' = subscribed /\ lagged' \in BOOLEAN /\ (lagged => lagged')
         /\ unread' \in Seq(Events) /\ Len(unread') <= Ring /\ (unread' # <<>> => subscribed')
         /\ \A i \in DOMAIN unread' : unread'[i] = e \/ \E j \in DOMAIN unread : unread'[i] = unread[j]
         /\ ~lagged' => unread' = unread \/ (unread' = Append(unread, e) /\ Publish(e))
         /\ (Publish(e) /\ subscribed /\ ~lagged') => unread' = Append(unread, e)
<1>1. /\ unread \in Seq(Events) /\ Len(unread) <= Ring /\ (unread # <<>> => subscribed)
      /\ lagged \in BOOLEAN /\ subscribed \in BOOLEAN /\ Ring \in Nat \ {0}
  BY Constants DEF Shape, TypeOK
<1>2. CASE UNCHANGED ring
  BY <1>1, <1>2 DEF ring, Publish
<1>3. CASE Publish(e) /\ ~subscribed
  BY <1>1, <1>3 DEF ring, Publish
<1>4. CASE Publish(e) /\ subscribed /\ Len(unread) < Ring
  <2>1. unread' = Append(unread, e) /\ lagged' = (lagged \/ FALSE) /\ subscribed' = subscribed
    BY <1>1, <1>4 DEF Publish
  <2>2. \A i \in DOMAIN unread' : i \in DOMAIN unread \/ unread'[i] = e
    BY <1>1, <2>1, AppendFacts
  <2>3. \A i \in DOMAIN unread : unread'[i] = unread[i]
    BY <1>1, <2>1, AppendFacts
  <2>4. \A i \in DOMAIN unread' : unread'[i] = e \/ \E j \in DOMAIN unread : unread'[i] = unread[j]
    BY <2>2, <2>3
  <2>5. unread' \in Seq(Events) /\ Len(unread') <= Ring
    BY <1>1, <1>4, <2>1, AppendFacts
  <2> QED BY <1>1, <1>4, <2>1, <2>4, <2>5
<1>5. CASE Publish(e) /\ subscribed /\ Len(unread) >= Ring
  <2>1. unread' = Append(Tail(unread), e) /\ subscribed' = subscribed
    BY <1>1, <1>5 DEF Publish
  <2>2. lagged' = TRUE
    <3>1. Len(unread) = Ring
      BY <1>1, <1>5
    <3>2. lagged' = (lagged \/ Len(unread) = Ring)
      BY <1>5 DEF Publish
    <3> QED BY <3>1, <3>2
  <2>3. unread # <<>>
    BY <1>1, <1>5
  <2>4. Tail(unread) \in Seq(Events) /\ Len(Tail(unread)) = Len(unread) - 1
    BY <1>1, <2>3, TailFacts
  <2>5. unread' \in Seq(Events) /\ Len(unread') <= Ring
    BY <1>1, <2>1, <2>4, AppendFacts
  <2>6. ASSUME NEW i \in DOMAIN unread', unread'[i] # e
        PROVE  \E j \in DOMAIN unread : unread'[i] = unread[j]
    <3>1. i \in DOMAIN Tail(unread) /\ unread'[i] = Tail(unread)[i]
      BY <2>1, <2>4, <2>6, AppendFacts
    <3>2. i + 1 \in DOMAIN unread /\ Tail(unread)[i] = unread[i + 1]
      BY <1>1, <2>3, <3>1, TailFacts
    <3> QED BY <3>1, <3>2
  <2> QED BY <1>1, <1>5, <2>1, <2>5, <2>6, <2>2
<1> QED BY <1>1, <1>2, <1>3, <1>4, <1>5

\* What a new event does to a ring from which nothing is lost,
LEMMA RingGrows ==
  ASSUME NEW s \in Seq(Events), NEW e \in Events, NEW base \in Nat, NEW m, NEW n, RingFrom(base, s, m),
         \/ e.is # "delta" /\ n = m
         \/ /\ e = Piece(m + 1) /\ n = m + 1 /\ m \in Nat /\ base <= m
            /\ \A i \in DOMAIN s : s[i].is # "end"
  PROVE  RingFrom(base, Append(s, e), n)
<1> DEFINE t == Append(s, e)
<1>1. /\ DOMAIN s = 1..Len(s) /\ DOMAIN t = 1..(Len(s) + 1) /\ Len(s) \in Nat
      /\ \A i \in DOMAIN s : t[i] = s[i]
      /\ t[Len(s) + 1] = e
  BY AppendFacts
<1> HIDE DEF t
<1>2. \A i \in DOMAIN t : i \in DOMAIN s \/ i = Len(s) + 1
  BY <1>1
<1>3. \A i \in DOMAIN s : i \in DOMAIN t /\ i < Len(s) + 1 /\ Len(s) + 1 \in DOMAIN t
  BY <1>1
<1>4. /\ \A k \in Nat : base < k /\ k <= m => \E i \in DOMAIN s : s[i].is = "delta" /\ s[i].n = k
      /\ \A i \in DOMAIN s : s[i].is = "delta" => base < s[i].n /\ s[i].n <= m
      /\ \A i, j \in DOMAIN s : (i < j /\ s[i].is = "delta" /\ s[j].is = "delta") => s[i].n < s[j].n
      /\ \A i, j \in DOMAIN s : (i < j /\ s[i].is = "end") => s[j].is # "delta"
  BY DEF RingFrom
<1>5. CASE e.is # "delta" /\ n = m
  <2>1. \A k \in Nat : base < k /\ k <= n => \E i \in DOMAIN t : t[i].is = "delta" /\ t[i].n = k
    BY <1>1, <1>3, <1>4, <1>5
  <2>2. \A i \in DOMAIN t : t[i].is = "delta" => base < t[i].n /\ t[i].n <= n
    BY <1>1, <1>2, <1>4, <1>5
  <2>3. \A i, j \in DOMAIN t : (i < j /\ t[i].is = "delta" /\ t[j].is = "delta") => t[i].n < t[j].n
    BY <1>1, <1>2, <1>4, <1>5
  <2>4. \A i, j \in DOMAIN t : (i < j /\ t[i].is = "end") => t[j].is # "delta"
    BY <1>1, <1>2, <1>4, <1>5
  <2> QED BY <2>1, <2>2, <2>3, <2>4 DEF RingFrom, t
<1>6. CASE /\ e = Piece(m + 1) /\ n = m + 1 /\ m \in Nat /\ base <= m
           /\ \A i \in DOMAIN s : s[i].is # "end"
  <2>1. e.is = "delta" /\ e.n = m + 1 /\ \A i \in DOMAIN s : s[i].is = "delta" => s[i].n \in Nat
    BY <1>6, PieceFacts
  <2>2. ASSUME NEW k \in Nat, base < k, k <= n
        PROVE  \E i \in DOMAIN t : t[i].is = "delta" /\ t[i].n = k
    <3>1. CASE k = m + 1
      BY <1>1, <1>3, <2>1, <3>1
    <3>2. CASE k <= m
      BY <1>1, <1>3, <1>4, <2>2, <3>2
    <3> QED BY <1>6, <2>2, <3>1, <3>2
  <2>3. \A i \in DOMAIN t : t[i].is = "delta" => base < t[i].n /\ t[i].n <= n
    BY <1>1, <1>2, <1>4, <1>6, <2>1
  <2>4. ASSUME NEW i \in DOMAIN t, NEW j \in DOMAIN t, i < j, t[i].is = "delta", t[j].is = "delta"
        PROVE  t[i].n < t[j].n
    <3>1. i \in DOMAIN s
      BY <1>1, <1>2, <2>4
    <3>2. CASE j \in DOMAIN s
      BY <1>1, <1>4, <2>4, <3>1, <3>2
    <3>3. CASE j = Len(s) + 1
      BY <1>1, <1>4, <1>6, <2>1, <2>4, <3>1, <3>3
    <3> QED BY <1>2, <3>2, <3>3
  <2>5. \A i, j \in DOMAIN t : (i < j /\ t[i].is = "end") => t[j].is # "delta"
    BY <1>1, <1>2, <1>6, <2>1
  <2> QED BY <2>2, <2>3, <2>4, <2>5 DEF RingFrom, t
<1> QED BY <1>5, <1>6

\* and taking the next one: a piece is the one after those taken, and once the
\* end of the turn comes all have been.
LEMMA RingTaken ==
  ASSUME NEW s \in Seq(Events), s # <<>>, NEW base \in Nat, NEW last \in Nat, RingFrom(base, s, last)
  PROVE  /\ Head(s).is # "delta" => RingFrom(base, Tail(s), last)
         /\ Head(s).is = "delta" => /\ Head(s).n = base + 1 /\ Head(s).n <= last
                                    /\ RingFrom(base + 1, Tail(s), last)
         /\ Head(s).is = "end" => last <= base
<1> DEFINE t == Tail(s)
<1>1. /\ Head(s) = s[1] /\ 1 \in DOMAIN s /\ DOMAIN s = 1..Len(s) /\ Len(s) \in Nat \ {0}
      /\ DOMAIN t = 1..(Len(s) - 1)
      /\ \A i \in DOMAIN t : i + 1 \in DOMAIN s /\ i + 1 > 1 /\ t[i] = s[i + 1]
      /\ \A i \in DOMAIN s : i = 1 \/ (i - 1 \in DOMAIN t /\ s[i] = t[i - 1])
  BY TailFacts
<1> HIDE DEF t
<1>2. /\ \A k \in Nat : base < k /\ k <= last => \E i \in DOMAIN s : s[i].is = "delta" /\ s[i].n = k
      /\ \A i \in DOMAIN s : s[i].is = "delta" => base < s[i].n /\ s[i].n <= last
      /\ \A i, j \in DOMAIN s : (i < j /\ s[i].is = "delta" /\ s[j].is = "delta") => s[i].n < s[j].n
      /\ \A i, j \in DOMAIN s : (i < j /\ s[i].is = "end") => s[j].is # "delta"
  BY DEF RingFrom
<1>3. \A i \in DOMAIN s : s[i].is = "delta" => s[i].n \in Nat
  BY PieceFacts
<1>4. \A i, j \in DOMAIN t : (i < j /\ t[i].is = "delta" /\ t[j].is = "delta") => t[i].n < t[j].n
  BY <1>1, <1>2
<1>5. \A i, j \in DOMAIN t : (i < j /\ t[i].is = "end") => t[j].is # "delta"
  BY <1>1, <1>2
<1>6. ASSUME Head(s).is # "delta" PROVE RingFrom(base, t, last)
  <2>1. \A k \in Nat : base < k /\ k <= last => \E i \in DOMAIN t : t[i].is = "delta" /\ t[i].n = k
    <3> SUFFICES ASSUME NEW k \in Nat, base < k, k <= last
                 PROVE  \E i \in DOMAIN t : t[i].is = "delta" /\ t[i].n = k
      OBVIOUS
    <3>1. PICK i \in DOMAIN s : s[i].is = "delta" /\ s[i].n = k
      BY <1>2
    <3>2. i - 1 \in DOMAIN t /\ s[i] = t[i - 1]
      BY <1>1, <1>6, <3>1
    <3> QED BY <3>1, <3>2
  <2>2. \A i \in DOMAIN t : t[i].is = "delta" => base < t[i].n /\ t[i].n <= last
    BY <1>1, <1>2
  <2> QED BY <1>4, <1>5, <2>1, <2>2 DEF RingFrom
<1>7. ASSUME Head(s).is = "delta"
      PROVE  Head(s).n = base + 1 /\ Head(s).n <= last /\ RingFrom(base + 1, t, last)
  <2>1. s[1].is = "delta" /\ s[1].n \in Nat /\ base < s[1].n /\ s[1].n <= last
    BY <1>1, <1>2, <1>3, <1>7
  <2>2. s[1].n = base + 1
    <3> SUFFICES ASSUME base + 1 < s[1].n PROVE FALSE
      BY <2>1
    <3>1. PICK i \in DOMAIN s : s[i].is = "delta" /\ s[i].n = base + 1
      BY <1>2, <2>1
    <3>2. 1 < i
      BY <1>1, <3>1
    <3>3. s[1].n < s[i].n
      BY <1>1, <1>2, <2>1, <3>1, <3>2
    <3> QED BY <2>1, <3>1, <3>3
  <2>3. ASSUME NEW i \in DOMAIN t, t[i].is = "delta"
        PROVE  base + 1 < t[i].n /\ t[i].n <= last
    <3>1. i + 1 \in DOMAIN s /\ 1 < i + 1 /\ t[i] = s[i + 1] /\ 1 \in DOMAIN s
      BY <1>1
    <3>2. s[1].n < s[i + 1].n /\ s[i + 1].n <= last
      BY <1>2, <2>1, <2>3, <3>1
    <3> QED BY <2>2, <3>1, <3>2
  <2>4. ASSUME NEW k \in Nat, base + 1 < k, k <= last
        PROVE  \E i \in DOMAIN t : t[i].is = "delta" /\ t[i].n = k
    <3>1. PICK i \in DOMAIN s : s[i].is = "delta" /\ s[i].n = k
      BY <1>2, <2>4
    <3>2. i # 1
      BY <2>2, <2>4, <3>1
    <3> QED BY <1>1, <3>1, <3>2
  <2> QED BY <1>1, <1>4, <1>5, <2>1, <2>2, <2>3, <2>4 DEF RingFrom
<1>8. ASSUME Head(s).is = "end" PROVE last <= base
  <2> SUFFICES ASSUME base < last PROVE FALSE
    OBVIOUS
  <2>1. PICK i \in DOMAIN s : s[i].is = "delta" /\ s[i].n = last
    BY <1>2
  <2>2. 1 < i
    BY <1>1, <1>8, <2>1
  <2> QED BY <1>1, <1>2, <1>8, <2>1, <2>2
<1> QED BY <1>6, <1>7, <1>8 DEF t

-----------------------------------------------------------------------------
(* Steps of Codex and of the approval manager.                             *)

LEMMA TakenFacts ==
  ASSUME Shape, StartsSubscribed, NextPiece
  PROVE  /\ Taken \in Nat /\ made \in Nat /\ Len(text) \in Nat
         /\ mode \in Owners => Taken <= made
         /\ (todo = <<>>) => Taken = Len(text)
<1>1. Len(text) \in Nat /\ made \in Nat /\ made >= Len(text)
  BY Constants DEF Shape, TypeOK, StartsSubscribed
<1>2. CASE \E i \in DOMAIN todo : todo[i].is = "delta"
  <2>1. Taken = Len(text) + 1 /\ todo # <<>>
    BY <1>2 DEF Taken
  <2>2. mode \in Owners => Len(text) + 1 <= made
    BY <1>2 DEF NextPiece
  <2> QED BY <1>1, <2>1, <2>2
<1>3. CASE ~ \E i \in DOMAIN todo : todo[i].is = "delta"
  BY <1>1, <1>3 DEF Taken
<1> QED BY <1>2, <1>3

\* Whatever is published, the reader is where it was; the turn only ends, and
\* only while it runs it speaks.
LEMMA EnvironmentKeeps ==
  ASSUME IInv, UNCHANGED Reader, NEW e \in Events, Publish(e) \/ UNCHANGED ring,
         up' \in BOOLEAN,
         ask' \in {"none", "recorded", "recalled", "pending", "withdrawn", "decided", "settled"},
         turn' = turn \/ (turn = "running" /\ turn' \in Ended),
         e.is = "end" => turn' \in Ended,
         \/ e.is # "delta" /\ made' = made
         \/ /\ Publish(e) /\ e = Piece(made + 1) /\ turn = "running" /\ turn' = turn
            /\ made < MaxPieces /\ made' = made + 1
  PROVE  IInv'
<1> USE DEF Reader, watch, client, told
<1>1. /\ subscribed' = subscribed /\ lagged' \in BOOLEAN /\ (lagged => lagged')
      /\ unread' \in Seq(Events) /\ Len(unread') <= Ring /\ (unread' # <<>> => subscribed')
      /\ \A i \in DOMAIN unread' : unread'[i] = e \/ \E j \in DOMAIN unread : unread'[i] = unread[j]
      /\ ~lagged' => unread' = unread \/ (unread' = Append(unread, e) /\ Publish(e))
      /\ (Publish(e) /\ subscribed /\ ~lagged') => unread' = Append(unread, e)
  BY PublishFacts DEF IInv
<1>2. /\ UNCHANGED <<mode, stopAsked, todo, over, silence, probes, channel, here, text, ending, known>>
  OBVIOUS
<1>3. turn \in {"none", "running"} \cup Ended /\ made \in 0..MaxPieces /\ made \in Nat
  BY Constants DEF IInv, Shape, TypeOK
<1>4. made' \in 0..MaxPieces /\ made' >= made /\ turn' \in {"none", "running"} \cup Ended
  BY <1>3, Constants DEF Ended
<1>5. Shape'
  <2>1. TypeOK'
    BY <1>1, <1>2, <1>4 DEF IInv, Shape, TypeOK
  <2> QED BY <1>1, <1>2, <2>1 DEF IInv, Shape
<1>6. Orderly(todo)' /\ WithinLimits' /\ OneEnding'
  BY <1>2 DEF IInv, Orderly, WithinLimits, OneEnding, Leaving, Leaves
<1>7. turn' = "running" => turn = "running"
  BY DEF Ended
<1>8. StopPlanned' /\ LeftTurnIsStopped'
  BY <1>2, <1>7 DEF IInv, StopPlanned, LeftTurnIsStopped, Excused, StopsFirst
<1>9. StartsSubscribed'
  <2>1. turn = "none" => turn' = turn /\ made' = made
    OBVIOUS
  <2>2. turn' = "none" => turn = "none"
    BY DEF Ended
  <2>3. made' >= Len(text)'
    BY <1>2, <1>3, <1>4, TakenFacts DEF IInv, StartsSubscribed
  <2> QED BY <1>1, <1>2, <2>1, <2>2, <2>3 DEF IInv, StartsSubscribed
<1>10. EndsKnown'
  BY <1>1 DEF IInv, EndsKnown, Ended
<1>11. WholeWhenCompleted'
  <2>1. turn = "completed" => turn' = turn /\ made' = made
    OBVIOUS
  <2> QED BY <1>2, <2>1 DEF IInv, WholeWhenCompleted
<1>12. NextPiece'
  <2> SUFFICES ASSUME mode \in Owners, NEW i \in DOMAIN todo, todo[i].is = "delta"
               PROVE  todo[i].n = Len(text) + 1 /\ todo[i].n <= made'
    BY <1>2 DEF NextPiece
  <2>1. todo[i].n = Len(text) + 1 /\ todo[i].n <= made
    BY DEF IInv, NextPiece
  <2> QED BY <1>3, <1>4, <2>1, TakenFacts DEF IInv
<1>13. RingContinues'
  <2> SUFFICES ASSUME mode \in Owners, ~Leaving, ~lagged'
               PROVE  RingFrom(Taken, unread', made')
    <3>1. Taken' = Taken /\ Leaving' = Leaving
      BY <1>2 DEF Taken, Leaving, Leaves
    <3> QED BY <1>2, <3>1 DEF RingContinues
  <2>1. RingFrom(Taken, unread, made) /\ Taken \in Nat /\ Taken <= made /\ unread \in Seq(Events)
    BY <1>1, TakenFacts DEF IInv, RingContinues, Shape
  <2>2. CASE unread' = unread /\ made' = made
    BY <2>1, <2>2
  <2>3. CASE unread' = Append(unread, e)
    <3>1. \/ e.is # "delta" /\ made' = made
          \/ /\ e = Piece(made + 1) /\ made' = made + 1 /\ made \in Nat /\ Taken <= made
             /\ \A i \in DOMAIN unread : unread[i].is # "end"
      BY <1>3, <2>1 DEF IInv, EndsKnown, Ended
    <3>2. RingFrom(Taken, Append(unread, e), made')
      BY <2>1, <3>1, RingGrows
    <3> QED BY <2>3, <3>2
  <2>4. made' # made => unread' = Append(unread, e)
    <3>1. turn = "running" => subscribed
      BY DEF IInv, StartsSubscribed
    <3> QED BY <1>1, <3>1
  <2> QED BY <1>1, <2>2, <2>3, <2>4
<1> QED BY <1>5, <1>6, <1>8, <1>9, <1>10, <1>11, <1>12, <1>13 DEF IInv
-----------------------------------------------------------------------------
(* Steps of the reader: how a plan goes on.                                *)

LEMMA TailPlan ==
  ASSUME NEW p \in Seq(Tasks), p # <<>>, Orderly(p)
  PROVE  /\ Tail(p) \in Seq(Tasks) /\ Orderly(Tail(p))
         /\ Head(p).is # "return" => (Leaves(Tail(p)) <=> Leaves(p))
         /\ Head(p).is \notin {"return", "stop"} /\ StopsFirst(p) => StopsFirst(Tail(p))
         /\ \A i \in DOMAIN Tail(p) : Tail(p)[i].is # "delta"
<1> DEFINE t == Tail(p)
<1>1. /\ t \in Seq(Tasks) /\ Head(p) = p[1] /\ 1 \in DOMAIN p
      /\ DOMAIN p \subseteq Nat /\ DOMAIN t \subseteq Nat
      /\ \A i \in DOMAIN t : i + 1 \in DOMAIN p /\ i + 1 > 1 /\ t[i] = p[i + 1]
      /\ \A i \in DOMAIN p : i = 1 \/ (i - 1 \in DOMAIN t /\ p[i] = t[i - 1])
  BY TailFacts
<1> HIDE DEF t
<1>2. \A i \in DOMAIN t : t[i].is # "delta"
  BY <1>1 DEF Orderly
<1>3. Orderly(t)
  <2> SUFFICES ASSUME NEW i \in DOMAIN t, NEW j \in DOMAIN t
               PROVE  /\ t[i].is \in {"subscribe", "start", "role", "probe", "delta"} => t[j].is # "return"
                      /\ t[i].is = "delta" => i = j
                      /\ t[i].is = "probe" => j <= i
                      /\ (t[i].is = "start" /\ t[j].is = "start") => i = j
                      /\ (t[i].is \in Endings /\ t[j].is \in Endings) => i = j
                      /\ t[i].is \in Endings => \E k \in DOMAIN t : i < k /\ t[k].is = "return"
    BY DEF Orderly
  <2>1. /\ i + 1 \in DOMAIN p /\ t[i] = p[i + 1] /\ i \in Nat
        /\ j + 1 \in DOMAIN p /\ t[j] = p[j + 1] /\ j \in Nat
    BY <1>1
  <2>2. ASSUME t[i].is \in Endings PROVE \E k \in DOMAIN t : i < k /\ t[k].is = "return"
    <3>1. PICK k \in DOMAIN p : i + 1 < k /\ p[k].is = "return"
      BY <2>1, <2>2 DEF Orderly
    <3>2. k \in Nat /\ k # 1
      BY <1>1, <2>1, <3>1
    <3>3. k - 1 \in DOMAIN t /\ p[k] = t[k - 1]
      BY <1>1, <3>2
    <3>4. i < k - 1
      BY <2>1, <3>1, <3>2
    <3> QED BY <3>1, <3>3, <3>4
  <2>3. /\ p[i + 1].is \in {"subscribe", "start", "role", "probe", "delta"} => p[j + 1].is # "return"
        /\ p[i + 1].is = "probe" => j + 1 <= i + 1
        /\ (p[i + 1].is = "start" /\ p[j + 1].is = "start") => i + 1 = j + 1
        /\ (p[i + 1].is \in Endings /\ p[j + 1].is \in Endings) => i + 1 = j + 1
    BY <2>1 DEF Orderly
  <2>4. (i + 1 = j + 1 => i = j) /\ (j + 1 <= i + 1 => j <= i)
    BY <2>1
  <2> QED BY <1>2, <2>1, <2>2, <2>3, <2>4
<1>4. ASSUME Head(p).is # "return" PROVE Leaves(t) <=> Leaves(p)
  BY <1>1, <1>4 DEF Leaves
<1>5. ASSUME Head(p).is \notin {"return", "stop"}, StopsFirst(p) PROVE StopsFirst(t)
  <2> SUFFICES ASSUME NEW i \in DOMAIN t, t[i].is = "return"
               PROVE  \E j \in DOMAIN t : j < i /\ t[j].is = "stop"
    BY DEF StopsFirst
  <2>1. i + 1 \in DOMAIN p /\ p[i + 1].is = "return" /\ i \in Nat
    BY <1>1
  <2>2. PICK j \in DOMAIN p : j < i + 1 /\ p[j].is = "stop"
    BY <1>5, <2>1 DEF StopsFirst
  <2>3. j # 1 /\ j \in Nat
    BY <1>1, <1>5, <2>2
  <2>4. j - 1 \in DOMAIN t /\ p[j] = t[j - 1]
    BY <1>1, <2>3
  <2>5. j - 1 < i
    BY <2>1, <2>2, <2>3
  <2> QED BY <2>2, <2>4, <2>5
<1> QED BY <1>1, <1>2, <1>3, <1>4, <1>5 DEF t

LEMMA RingRead ==
  ASSUME Shape, subscribed' = subscribed,
         unread' = unread \/ (unread # <<>> /\ unread' = Tail(unread))
  PROVE  /\ unread' \in Seq(Events) /\ Len(unread') <= Ring /\ (unread' # <<>> => subscribed')
         /\ \A i \in DOMAIN unread' : \E j \in DOMAIN unread : unread'[i] = unread[j]
<1>1. unread \in Seq(Events) /\ Len(unread) <= Ring /\ (unread # <<>> => subscribed) /\ Ring \in Nat
  BY Constants DEF Shape, TypeOK
<1>2. CASE unread' = unread
  BY <1>1, <1>2
<1>3. CASE unread # <<>> /\ unread' = Tail(unread)
  <2>1. unread' \in Seq(Events) /\ Len(unread') = Len(unread) - 1 /\ Len(unread) \in Nat
    BY <1>1, <1>3, TailFacts
  <2>2. \A i \in DOMAIN unread' : i + 1 \in DOMAIN unread /\ unread'[i] = unread[i + 1]
    BY <1>1, <1>3, TailFacts
  <2>3. \A i \in DOMAIN unread' : \E j \in DOMAIN unread : unread'[i] = unread[j]
    BY <2>2
  <2>4. Len(unread') <= Ring
    BY <1>1, <2>1
  <2> QED BY <1>1, <1>3, <2>1, <2>3, <2>4
<1> QED BY <1>2, <1>3

\* The reader comes to its end.
LEMMA FinishKeeps ==
  ASSUME IInv, ~over, UNCHANGED <<mode, codex, stopAsked, client, over, subscribed, text, ending>>,
         known' \in [end : BOOLEAN, ask : BOOLEAN, gap : BOOLEAN], known.gap => known'.gap,
         unread' = unread \/ (unread # <<>> /\ unread' = Tail(unread)),
         lagged' \in BOOLEAN, silence' \in 0..IdleAfter, probes' \in 0..Confirmations,
         Final(todo'),
         ending = "none" \/ \A i \in DOMAIN todo' : todo'[i].is \notin Endings,
         NotCompleted(todo') \/ (turn = "completed" /\ Len(text) = made),
         (mode \in {"responses", "chat"} /\ turn = "running") => Excused' \/ StopsFirst(todo')
  PROVE  IInv'
<1> USE DEF codex, client
<1>1. /\ unread' \in Seq(Events) /\ Len(unread') <= Ring /\ (unread' # <<>> => subscribed')
      /\ \A i \in DOMAIN unread' : \E j \in DOMAIN unread : unread'[i] = unread[j]
  BY RingRead DEF IInv
<1>2. /\ todo' \in Seq(Tasks) /\ Orderly(todo') /\ Leaves(todo')
      /\ \A i \in DOMAIN todo' : todo'[i].is \in {"stop", "completed", "failed", "done", "gap", "return"}
  BY DEF Final
<1>3. Shape'
  <2>1. TypeOK'
    BY <1>1 DEF IInv, Shape, TypeOK
  <2> QED BY <1>1, <1>2, <2>1 DEF IInv, Shape
<1>4. Leaving'
  BY <1>2 DEF Leaving, Leaves
<1>5. Orderly(todo)'
  BY <1>2 DEF Orderly
<1>6. WithinLimits' /\ RingContinues'
  BY <1>4 DEF WithinLimits, RingContinues
<1>7. StopPlanned'
  BY DEF StopPlanned, StopsFirst
<1>8. LeftTurnIsStopped'
  BY DEF LeftTurnIsStopped
<1>9. StartsSubscribed'
  BY <1>2 DEF IInv, StartsSubscribed
<1>10. EndsKnown'
  BY <1>1 DEF IInv, EndsKnown
<1>11. OneEnding'
  BY <1>4 DEF IInv, OneEnding
<1>12. WholeWhenCompleted'
  BY DEF WholeWhenCompleted, NotCompleted
<1>13. NextPiece'
  BY <1>2 DEF NextPiece
<1> QED BY <1>3, <1>5, <1>6, <1>7, <1>8, <1>9, <1>10, <1>11, <1>12, <1>13 DEF IInv

\* The reader goes on: a plan without a return.
Going(p) ==
  /\ p \in Seq(Tasks) /\ Orderly(p)
  /\ \A i \in DOMAIN p : p[i].is \notin {"start", "return", "completed", "failed"}

LEMMA GoOnKeeps ==
  ASSUME IInv, ~Leaving,
         UNCHANGED <<mode, codex, stopAsked, client, over, subscribed, ending, known>>,
         unread' = unread \/ (unread # <<>> /\ unread' = Tail(unread)),
         lagged' \in BOOLEAN, silence' \in 0..IdleAfter, probes' \in 0..Confirmations,
         silence' < IdleAfter, probes' < Confirmations,
         text' \in Seq(Nat), made >= Len(text'),
         Going(todo'), NextPiece', RingContinues'
  PROVE  IInv'
<1> USE DEF codex, client
<1>1. /\ unread' \in Seq(Events) /\ Len(unread') <= Ring /\ (unread' # <<>> => subscribed')
      /\ \A i \in DOMAIN unread' : \E j \in DOMAIN unread : unread'[i] = unread[j]
  BY RingRead DEF IInv
<1>2. /\ todo' \in Seq(Tasks) /\ Orderly(todo')
      /\ \A i \in DOMAIN todo' : todo'[i].is \notin {"start", "return", "completed", "failed"}
  BY DEF Going
<1>3. ~over
  BY DEF Leaving
<1>4. Shape'
  <2>1. TypeOK'
    BY <1>1, <1>3 DEF IInv, Shape, TypeOK
  <2> QED BY <1>1, <1>2, <2>1 DEF IInv, Shape
<1>5. Orderly(todo)'
  BY <1>2 DEF Orderly
<1>6. WithinLimits'
  BY DEF WithinLimits
<1>7. StopPlanned' /\ LeftTurnIsStopped'
  BY <1>2, <1>3 DEF StopPlanned, LeftTurnIsStopped, StopsFirst
<1>8. StartsSubscribed'
  BY <1>2 DEF IInv, StartsSubscribed
<1>9. EndsKnown'
  BY <1>1 DEF IInv, EndsKnown
<1>10. OneEnding'
  <2>1. ending = "none"
    BY DEF IInv, OneEnding
  <2> QED BY <1>2, <2>1 DEF OneEnding
<1>11. WholeWhenCompleted'
  BY <1>2 DEF WholeWhenCompleted
<1> QED BY <1>4, <1>5, <1>6, <1>7, <1>8, <1>9, <1>10, <1>11 DEF IInv

\* The reader does the first thing it has planned.
LEMMA DoneKeeps ==
  ASSUME IInv, ~over, todo # <<>>, todo' = Tail(todo), Head(todo).is \notin {"start", "return"},
         UNCHANGED <<mode, codex, over, unread, lagged, watch, here>>,
         channel' \in 0..Slots,
         subscribed' = (subscribed \/ Head(todo).is = "subscribe"),
         stopAsked' \in BOOLEAN, stopAsked \/ Head(todo).is = "stop" => stopAsked',
         known' \in [end : BOOLEAN, ask : BOOLEAN, gap : BOOLEAN], known.gap => known'.gap,
         text' = IF Head(todo).is = "delta" /\ mode \in Owners THEN Append(text, Head(todo).n) ELSE text,
         ending' = ending \/ (Head(todo).is \in Endings /\ ending' = Head(todo).is)
  PROVE  IInv'
<1> USE DEF codex, watch
<1>1. todo \in Seq(Tasks) /\ Orderly(todo) /\ subscribed \in BOOLEAN /\ text \in Seq(Nat)
  BY DEF IInv, Shape
<1>2. /\ todo' \in Seq(Tasks) /\ Orderly(todo')
      /\ Leaves(todo') <=> Leaves(todo)
      /\ Head(todo).is # "stop" /\ StopsFirst(todo) => StopsFirst(todo')
      /\ \A i \in DOMAIN todo' : todo'[i].is # "delta"
  BY <1>1, TailPlan
<1>3. /\ 1 \in DOMAIN todo /\ Head(todo) = todo[1]
      /\ \A i \in DOMAIN todo' : i + 1 \in DOMAIN todo /\ i + 1 > 1 /\ todo'[i] = todo[i + 1]
  BY <1>1, TailFacts
<1>4. Leaving' <=> Leaving
  BY <1>2 DEF Leaving, Leaves
<1>5. ASSUME Head(todo).is = "delta", mode \in Owners
      PROVE  /\ text' = Append(text, Len(text) + 1) /\ Len(text) + 1 <= made
             /\ text' \in Seq(Nat) /\ Len(text') = Len(text) + 1
  <2>1. todo[1].n = Len(text) + 1 /\ todo[1].n <= made
    BY <1>3, <1>5 DEF IInv, NextPiece
  <2>2. text' = Append(text, Len(text) + 1)
    BY <1>3, <1>5, <2>1
  <2>3. Len(text) + 1 \in Nat
    BY <1>1
  <2> QED BY <1>1, <2>1, <2>2, <2>3, AppendFacts
<1>6. text' \in Seq(Nat) /\ made >= Len(text')
  BY <1>1, <1>5 DEF IInv, StartsSubscribed
<1>7. ending' \in {"none", "completed", "failed"}
  BY DEF IInv, Shape, Endings
<1>8. Shape'
  <2>1. TypeOK'
    BY DEF IInv, Shape, TypeOK
  <2> QED BY <1>1, <1>2, <1>6, <1>7, <2>1 DEF IInv, Shape
<1>9. Orderly(todo)'
  BY <1>2 DEF Orderly
<1>10. WithinLimits'
  BY <1>4 DEF IInv, WithinLimits
<1>11. StopPlanned'
  <2> SUFFICES ASSUME mode \in {"responses", "chat"}, turn = "running", ~Excused'
               PROVE  StopsFirst(todo')
    BY DEF StopPlanned, StopsFirst
  <2>1. ~Excused /\ Head(todo).is # "stop"
    BY DEF Excused
  <2> QED BY <1>2, <2>1 DEF IInv, StopPlanned
<1>12. LeftTurnIsStopped'
  BY DEF LeftTurnIsStopped
<1>13. StartsSubscribed'
  <2>1. ASSUME NEW i \in DOMAIN todo', todo'[i].is = "start"
        PROVE  turn' = "none" /\ mode' \in Owners /\ subscribed'
    <3>1. i + 1 \in DOMAIN todo /\ todo[i + 1].is = "start"
      BY <1>3, <2>1
    <3>2. turn = "none" /\ mode \in Owners /\ (subscribed \/ todo[1].is = "subscribe")
      BY <3>1 DEF IInv, StartsSubscribed
    <3> QED BY <1>3, <3>2
  <2> QED BY <1>6, <2>1 DEF IInv, StartsSubscribed
<1>14. EndsKnown'
  BY DEF IInv, EndsKnown
<1>15. OneEnding'
  <2>1. ending' # "none" => Leaving'
    <3>1. CASE Head(todo).is \in Endings
      BY <1>1, <1>3, <1>4, <3>1 DEF Orderly, Leaving, Leaves
    <3>2. CASE Head(todo).is \notin Endings
      BY <1>4, <3>2 DEF IInv, OneEnding
    <3> QED BY <3>1, <3>2
  <2>2. ASSUME NEW i \in DOMAIN todo', todo'[i].is \in Endings PROVE ending' = "none"
    <3>1. i + 1 \in DOMAIN todo /\ todo[i + 1].is \in Endings /\ i + 1 > 1
      BY <1>3, <2>2
    <3>2. todo[1].is \notin Endings
      BY <1>1, <1>3, <3>1 DEF Orderly
    <3>3. ending = "none"
      BY <3>1 DEF IInv, OneEnding
    <3> QED BY <1>3, <3>2, <3>3
  <2> QED BY <2>1, <2>2 DEF OneEnding
<1>16. WholeWhenCompleted'
  <2> SUFFICES ASSUME NEW i \in DOMAIN todo', todo'[i].is = "completed"
               PROVE  turn = "completed" /\ Len(text') = made
    BY DEF WholeWhenCompleted
  <2>1. i + 1 \in DOMAIN todo /\ todo[i + 1].is = "completed" /\ i + 1 > 1
    BY <1>3
  <2>2. turn = "completed" /\ Len(text) = made
    BY <2>1 DEF IInv, WholeWhenCompleted
  <2>3. Head(todo).is # "delta"
    BY <1>1, <1>3, <2>1 DEF Orderly
  <2> QED BY <2>2, <2>3
<1>17. NextPiece'
  BY <1>2 DEF NextPiece
<1>18. RingContinues'
  <2> SUFFICES ASSUME mode \in Owners, ~Leaving, ~lagged PROVE RingFrom(Taken', unread, made)
    BY <1>4 DEF RingContinues
  <2>1. RingFrom(Taken, unread, made)
    BY DEF IInv, RingContinues
  <2>2. Taken' = Len(text')
    BY <1>2 DEF Taken
  <2>3. CASE Head(todo).is = "delta"
    BY <1>3, <1>5, <2>1, <2>2, <2>3 DEF Taken
  <2>4. CASE Head(todo).is # "delta"
    <3>1. \A i \in DOMAIN todo : todo[i].is # "delta"
      BY <1>1, <1>3, <2>4 DEF Orderly
    <3>2. Taken = Len(text)
      BY <3>1 DEF Taken
    <3> QED BY <2>1, <2>2, <2>4, <3>2
  <2> QED BY <2>3, <2>4
<1> QED BY <1>8, <1>9, <1>10, <1>11, <1>12, <1>13, <1>14, <1>15, <1>16, <1>17, <1>18 DEF IInv

\* It goes on as it was.
LEMMA GoOnLightly ==
  ASSUME IInv, ~Leaving, \A i \in DOMAIN todo : todo[i].is # "delta",
         UNCHANGED <<mode, codex, stopAsked, client, over, subscribed, told>>,
         \/ unread' = unread
         \/ unread # <<>> /\ unread' = Tail(unread) /\ (mode \in Owners => Head(unread).is # "delta"),
         lagged' \in BOOLEAN, lagged' = lagged \/ mode \notin Owners,
         silence' \in 0..IdleAfter, probes' \in 0..Confirmations,
         silence' < IdleAfter, probes' < Confirmations,
         Light(todo')
  PROVE  IInv'
<1> USE DEF told
<1>1. Going(todo') /\ \A i \in DOMAIN todo' : todo'[i].is # "delta"
  BY DEF Light, Going
<1>2. text' \in Seq(Nat) /\ made >= Len(text')
  BY DEF IInv, Shape, StartsSubscribed
<1>3. NextPiece'
  BY <1>1 DEF NextPiece
<1>4. RingContinues'
  <2> SUFFICES ASSUME mode \in Owners, ~lagged PROVE RingFrom(Taken', unread', made)
    BY DEF RingContinues, codex
  <2>1. Taken = Len(text) /\ Taken' = Len(text)
    BY <1>1 DEF Taken
  <2>2. RingFrom(Taken, unread, made)
    BY DEF IInv, RingContinues
  <2>3. CASE unread' = unread
    BY <2>1, <2>2, <2>3
  <2>4. CASE unread # <<>> /\ unread' = Tail(unread) /\ Head(unread).is # "delta"
    <3>1. unread \in Seq(Events) /\ Taken \in Nat /\ made \in Nat
      BY TakenFacts DEF IInv, Shape
    <3>2. RingFrom(Taken, Tail(unread), made)
      BY <2>2, <2>4, <3>1, RingTaken
    <3> QED BY <2>1, <2>4, <3>2
  <2> QED BY <2>3, <2>4
<1> QED BY <1>1, <1>2, <1>3, <1>4, GoOnKeeps

-----------------------------------------------------------------------------
(* Steps of the reader: what it waits for.                                 *)

LEMMA WaitingFacts ==
  ASSUME IInv, Waiting
  PROVE  /\ ~over /\ todo = <<>> /\ ~Leaving /\ ending = "none" /\ DOMAIN todo = {}
         /\ silence < IdleAfter /\ probes < Confirmations
         /\ silence \in 0..IdleAfter /\ probes \in 0..Confirmations
         /\ lagged \in BOOLEAN /\ unread \in Seq(Events)
         /\ made \in Nat /\ Len(text) \in Nat /\ Taken = Len(text) /\ made >= Len(text)
         /\ mode \in Owners /\ ~lagged => RingFrom(Len(text), unread, made)
<1>1. todo = <<>> /\ ~over /\ DOMAIN todo = {}
  BY DEF Waiting
<1>2. ~Leaving
  BY <1>1 DEF Leaving, Leaves
<1>3. /\ made \in Nat /\ Len(text) \in Nat /\ Taken = Len(text)
  BY <1>1, TakenFacts DEF IInv
<1>4. mode \in Owners /\ ~lagged => RingFrom(Len(text), unread, made)
  BY <1>2, <1>3 DEF IInv, RingContinues
<1>5. silence < IdleAfter /\ probes < Confirmations /\ ending = "none"
  BY <1>2 DEF IInv, WithinLimits, OneEnding
<1>6. /\ silence \in 0..IdleAfter /\ probes \in 0..Confirmations
      /\ lagged \in BOOLEAN /\ unread \in Seq(Events)
  BY DEF IInv, Shape, TypeOK
<1>7. made >= Len(text)
  BY DEF IInv, StartsSubscribed
<1> QED BY <1>1, <1>2, <1>3, <1>4, <1>5, <1>6, <1>7

LEMMA NoSilence == /\ 0 \in 0..IdleAfter /\ 0 \in 0..Confirmations /\ 0 < IdleAfter /\ 0 < Confirmations
BY Constants

LEMMA OnePlan ==
  ASSUME NEW e \in Events
  PROVE  Going(<<e>>) /\ DOMAIN <<e>> = 1..1 /\ <<e>>[1] = e
<1>1. e \in Tasks /\ e.is \in Kinds
  BY EventKinds
<1> DEFINE p == <<e>>
<1>2. p \in Seq(Tasks) /\ DOMAIN p = 1..1 /\ p[1] = e
  BY <1>1
<1> HIDE DEF p
<1>3. Going(p)
  BY <1>1, <1>2 DEF Going, Orderly, Kinds, Endings
<1> QED BY <1>2, <1>3 DEF p

LEMMA TakePieceKeeps == ASSUME IInv, TakePiece PROVE IInv'
<1> USE DEF TakePiece, Heard, System
<1>1. /\ ~Leaving /\ unread \in Seq(Events) /\ RingFrom(Len(text), unread, made)
      /\ made \in Nat /\ Len(text) \in Nat /\ lagged \in BOOLEAN /\ made >= Len(text)
  BY WaitingFacts
<1>2. /\ Head(unread).n = Len(text) + 1 /\ Head(unread).n <= made
      /\ RingFrom(Len(text) + 1, Tail(unread), made)
  BY <1>1, RingTaken
<1>3. text \in Seq(Nat)
  BY DEF IInv, Shape
<1>4. CASE mode = "json"
  <2>1. text' = Append(text, Len(text) + 1) /\ todo' = <<>> /\ UNCHANGED <<ending, known>>
    BY <1>2, <1>4, WaitingFacts
  <2>2. text' \in Seq(Nat) /\ Len(text') = Len(text) + 1
    BY <1>1, <1>3, <2>1, AppendFacts
  <2>3. Going(todo') /\ DOMAIN todo' = {}
    BY <2>1, LightPlans DEF Light, Going
  <2>4. NextPiece'
    BY <2>3 DEF NextPiece
  <2>5. RingContinues'
    <3>1. Taken' = Len(text) + 1
      BY <2>2, <2>3 DEF Taken
    <3> QED BY <1>2, <3>1 DEF RingContinues, codex
  <2>6. made >= Len(text')
    BY <1>1, <1>2, <2>2
  <2> QED BY <1>1, <2>1, <2>2, <2>3, <2>4, <2>5, <2>6, NoSilence, GoOnKeeps
<1>5. CASE mode # "json"
  <2>1. todo' = <<Head(unread)>> /\ UNCHANGED told
    BY <1>5
  <2>2. Head(unread) \in Events
    BY <1>1, TailFacts
  <2>3. Going(todo') /\ DOMAIN todo' = 1..1 /\ todo'[1] = Head(unread)
    BY <2>1, <2>2, OnePlan
  <2>4. NextPiece'
    BY <1>2, <2>1, <2>3 DEF NextPiece, told, codex
  <2>5. RingContinues'
    <3>1. Taken' = Len(text) + 1
      BY <2>1, <2>3 DEF Taken, told
    <3> QED BY <1>2, <3>1 DEF RingContinues, codex
  <2> QED BY <1>1, <1>3, <2>1, <2>3, <2>4, <2>5, NoSilence, GoOnKeeps DEF told
<1> QED BY <1>4, <1>5

LEMMA TakeEndKeeps == ASSUME IInv, TakeEnd PROVE IInv'
<1> USE DEF TakeEnd, Heard, System, told
<1>1. /\ ~over /\ ending = "none" /\ unread \in Seq(Events) /\ RingFrom(Len(text), unread, made)
      /\ made \in Nat /\ Len(text) \in Nat /\ lagged \in BOOLEAN /\ made >= Len(text)
  BY WaitingFacts
<1>2. Len(text) = made
  <2>1. made <= Len(text)
    BY <1>1, RingTaken
  <2> QED BY <1>1, <2>1
<1>3. turn \in Ended
  BY <1>1, TailFacts DEF IInv, EndsKnown
<1>4. /\ Final(todo') /\ (NotCompleted(todo') \/ (turn = "completed" /\ Len(text) = made))
  <2>1. CASE todo' = Steps(Ending("failed"))
    BY <2>1, EndingPlan DEF Endings
  <2>2. CASE todo' = Failure
    BY <2>2, FailurePlan
  <2>3. CASE todo' = Steps(Ending("completed")) /\ turn = "completed"
    BY <1>2, <2>3, EndingPlan DEF Endings
  <2> QED BY <2>1, <2>2, <2>3 DEF OnEnd
<1>5. turn # "running"
  BY <1>3 DEF Ended
<1>6. known' \in [end : BOOLEAN, ask : BOOLEAN, gap : BOOLEAN] /\ known'.gap = known.gap
  BY DEF IInv, Shape
<1> QED BY <1>1, <1>4, <1>5, <1>6, NoSilence, FinishKeeps

LEMMA TakeRequiredKeeps == ASSUME IInv, TakeRequired PROVE IInv'
<1> USE DEF TakeRequired, Heard, System, told
<1>1. known' \in [end : BOOLEAN, ask : BOOLEAN, gap : BOOLEAN] /\ known'.gap = known.gap
  BY DEF IInv, Shape
<1> QED BY <1>1, WaitingFacts, NoSilence, FailurePlan, FinishKeeps

LEMMA TakeApprovalKeeps == ASSUME IInv, TakeApproval PROVE IInv'
<1> USE DEF TakeApproval, Heard, System
<1>1. Light(todo')
  BY WaitingFacts, LightPlans
<1> QED BY <1>1, WaitingFacts, NoSilence, GoOnLightly

LEMMA SkipKeeps == ASSUME IInv, Skip PROVE IInv'
<1> USE DEF Skip, System, watch
<1>1. Light(todo')
  BY WaitingFacts, LightPlans
<1> QED BY <1>1, WaitingFacts, GoOnLightly

LEMMA TakeLossKeeps == ASSUME IInv, TakeLoss PROVE IInv'
<1> USE DEF TakeLoss, Tells, System, watch
<1>1. /\ known' \in [end : BOOLEAN, ask : BOOLEAN, gap : BOOLEAN] /\ known'.gap = TRUE
      /\ UNCHANGED <<text, ending>>
  BY DEF IInv, Shape
<1>2. /\ unread' = unread \/ (unread # <<>> /\ unread' = Tail(unread))
      /\ lagged' \in BOOLEAN
  BY WaitingFacts
<1>3. Final(todo') /\ NotCompleted(todo') /\ (mode = "responses" \/ StopsFirst(todo'))
  BY EndingPlan, FailurePlan DEF OnLoss, Endings
<1>4. (mode \in {"responses", "chat"} /\ turn = "running") => Excused' \/ StopsFirst(todo')
  BY <1>1, <1>3 DEF Excused
<1> QED BY <1>1, <1>2, <1>3, <1>4, WaitingFacts, FinishKeeps

LEMMA TimeOutKeeps == ASSUME IInv, TimeOut PROVE IInv'
<1> USE DEF TimeOut, System, ring, told
<1>1. silence' \in 0..IdleAfter
  BY WaitingFacts, Constants
<1>2. CASE silence' >= IdleAfter
  <2>1. todo' = Failure
    BY <1>2
  <2>2. known' \in [end : BOOLEAN, ask : BOOLEAN, gap : BOOLEAN] /\ known'.gap = known.gap
    BY DEF IInv, Shape
  <2> QED BY <1>1, <2>1, <2>2, WaitingFacts, FailurePlan, FinishKeeps
<1>3. CASE silence' < IdleAfter
  <2>1. ~(silence' >= IdleAfter)
    BY <1>1, <1>3, Constants
  <2>2. Light(todo')
    BY <2>1, LightPlans
  <2> QED BY <1>1, <1>3, <2>2, WaitingFacts, GoOnLightly
<1>4. silence' >= IdleAfter \/ silence' < IdleAfter
  BY <1>1, Constants
<1> QED BY <1>2, <1>3, <1>4

LEMMA SeesClientGoneKeeps == ASSUME IInv, SeesClientGone PROVE IInv'
<1> USE DEF SeesClientGone, System, ring, watch, told
<1>1. known' \in [end : BOOLEAN, ask : BOOLEAN, gap : BOOLEAN] /\ known'.gap = known.gap
  BY DEF IInv, Shape
<1>2. Final(todo') /\ NotCompleted(todo') /\ (mode = "monitor" \/ StopsFirst(todo'))
  BY StopReturnPlan, ReturnPlan
<1> QED BY <1>1, <1>2, WaitingFacts, FinishKeeps

LEMMA ForwardKeeps == ASSUME IInv, Forward PROVE IInv'
<1> USE DEF Forward, System, watch
<1>1. Head(unread) \in Events /\ mode \notin Owners
  BY WaitingFacts, TailFacts DEF Owners
<1>2. CASE Names(Head(unread))
  <2>1. Going(todo')
    BY <1>1, <1>2, OnePlan
  <2>2. NextPiece' /\ RingContinues'
    BY <1>1 DEF NextPiece, RingContinues
  <2>3. text' \in Seq(Nat) /\ made >= Len(text')
    BY DEF IInv, Shape, StartsSubscribed, told
  <2> QED BY <2>1, <2>2, <2>3, WaitingFacts, GoOnKeeps DEF told
<1>3. CASE ~Names(Head(unread))
  <2>1. Light(todo')
    BY <1>3, LightPlans
  <2> QED BY <1>1, <2>1, WaitingFacts, GoOnLightly
<1> QED BY <1>2, <1>3

LEMMA ForwardGapKeeps == ASSUME IInv, ForwardGap PROVE IInv'
<1> USE DEF ForwardGap, System, watch
<1>1. mode \notin Owners
  BY DEF Owners
<1>2. CASE todo' = Steps(<<"gap">>) /\ lagged' = FALSE /\ UNCHANGED unread
  BY <1>1, <1>2, WaitingFacts, LightPlans, GoOnLightly
<1>3. CASE /\ unread # <<>> /\ unread' = Tail(unread) /\ UNCHANGED lagged
           /\ todo' = Steps(<<"gap", "return">>)
  <2>1. known' \in [end : BOOLEAN, ask : BOOLEAN, gap : BOOLEAN] /\ known'.gap = known.gap
    BY DEF IInv, Shape, told
  <2>2. Final(todo') /\ NotCompleted(todo')
    BY <1>3, GapReturnPlan
  <2> QED BY <1>3, <2>1, <2>2, WaitingFacts, FinishKeeps DEF told
<1> QED BY <1>2, <1>3

-----------------------------------------------------------------------------
(* Steps of the reader: what it does.                                      *)

LEMMA HeadFacts ==
  ASSUME IInv, todo # <<>>
  PROVE  /\ todo \in Seq(Tasks) /\ Orderly(todo) /\ 1 \in DOMAIN todo /\ Head(todo) = todo[1]
         /\ channel \in 0..Slots /\ stopAsked \in BOOLEAN /\ subscribed \in BOOLEAN /\ lagged \in BOOLEAN
         /\ silence \in 0..IdleAfter /\ probes \in 0..Confirmations
         /\ known \in [end : BOOLEAN, ask : BOOLEAN, gap : BOOLEAN]
<1>1. todo \in Seq(Tasks) /\ Orderly(todo)
  BY DEF IInv, Shape
<1>2. 1 \in DOMAIN todo /\ Head(todo) = todo[1]
  BY <1>1, TailFacts
<1>3. /\ channel \in 0..Slots /\ stopAsked \in BOOLEAN /\ subscribed \in BOOLEAN /\ lagged \in BOOLEAN
      /\ silence \in 0..IdleAfter /\ probes \in 0..Confirmations
      /\ known \in [end : BOOLEAN, ask : BOOLEAN, gap : BOOLEAN]
  BY DEF IInv, Shape, TypeOK
<1> QED BY <1>1, <1>2, <1>3

LEMMA SubscribeKeeps == ASSUME IInv, Subscribe PROVE IInv'
<1> USE DEF Subscribe, Doing, Done, System, client, told
<1>1. Head(todo).is = "subscribe" /\ Head(todo).is \notin Endings \cup {"start", "return", "stop", "delta"}
  BY DEF Endings
<1>2. subscribed' = (subscribed \/ Head(todo).is = "subscribe")
  BY <1>1
<1> QED BY <1>1, <1>2, HeadFacts, DoneKeeps

LEMMA AskStopKeeps == ASSUME IInv, AskStop PROVE IInv'
<1> USE DEF AskStop, Doing, Done, client, told, ring
<1>1. Head(todo).is = "stop" /\ Head(todo).is \notin Endings \cup {"start", "return", "subscribe", "delta"}
  BY DEF Endings
<1>2. subscribed' = (subscribed \/ Head(todo).is = "subscribe")
  BY <1>1, HeadFacts
<1>3. stopAsked' \in BOOLEAN /\ stopAsked'
  OBVIOUS
<1> QED BY <1>1, <1>2, <1>3, HeadFacts, DoneKeeps

LEMMA ReadTurnKeeps == ASSUME IInv, ReadTurn PROVE IInv'
<1> USE DEF ReadTurn, Doing, Done, System, client, ring, Tells
<1>1. Head(todo).is = "read" /\ Head(todo).is \notin Endings \cup {"start", "return", "subscribe", "delta", "stop"}
  BY DEF Endings
<1>2. subscribed' = (subscribed \/ Head(todo).is = "subscribe")
  BY <1>1, HeadFacts
<1>3. /\ known' \in [end : BOOLEAN, ask : BOOLEAN, gap : BOOLEAN] /\ (known.gap => known'.gap)
      /\ UNCHANGED <<text, ending>>
  <2>1. known \in [end : BOOLEAN, ask : BOOLEAN, gap : BOOLEAN]
    BY HeadFacts
  <2>2. CASE known' = [known EXCEPT !.end = turn \in Ended] /\ UNCHANGED <<text, ending>>
    <3> DEFINE b == turn \in Ended
    <3>1. b \in BOOLEAN
      OBVIOUS
    <3>2. known' = [known EXCEPT !.end = b]
      BY <2>2
    <3> HIDE DEF b
    <3>3. known' \in [end : BOOLEAN, ask : BOOLEAN, gap : BOOLEAN] /\ known'.gap = known.gap
      BY <2>1, <3>1, <3>2
    <3> QED BY <2>2, <3>3
  <2>3. CASE known' = [known EXCEPT !.gap = TRUE] /\ UNCHANGED <<text, ending>>
    BY <2>1, <2>3
  <2> QED BY <2>2, <2>3
<1> QED BY <1>1, <1>2, <1>3, HeadFacts, DoneKeeps

LEMMA SentFacts ==
  ASSUME NEW x, Sent(x), mode \in Modes, known \in [end : BOOLEAN, ask : BOOLEAN, gap : BOOLEAN]
  PROVE  /\ known' \in [end : BOOLEAN, ask : BOOLEAN, gap : BOOLEAN] /\ (known.gap => known'.gap)
         /\ text' = IF x.is = "delta" /\ mode \in Owners THEN Append(text, x.n) ELSE text
         /\ IF x.is \in Endings THEN ending' = x.is ELSE ending' = ending
<1> USE DEF Sent, Tells, told, Endings
<1>1. mode \in Owners <=> mode # "monitor"
  BY ModesAssumption DEF Owners
<1>2. CASE x.is = "delta"
  BY <1>1, <1>2
<1>3. CASE x.is \in Endings
  BY <1>3
<1>4. CASE x.is \in {"end", "asked", "resolved", "gap", "list"}
  BY <1>4
<1>5. CASE x.is \notin Endings \cup {"delta", "end", "asked", "resolved", "gap", "list"}
  BY <1>5
<1> QED BY <1>2, <1>3, <1>4, <1>5

LEMMA SendKeeps == ASSUME IInv, Send PROVE IInv'
<1> USE DEF Send, Sending, Done, Calls, ring
<1>1. Head(todo).is \notin {"start", "return", "subscribe", "stop"}
  OBVIOUS
<1>2. subscribed' = (subscribed \/ Head(todo).is = "subscribe")
  BY <1>1, HeadFacts
<1>3. mode \in Modes /\ Sent(Head(todo))
  BY DEF IInv, Shape, TypeOK
<1>4. /\ known' \in [end : BOOLEAN, ask : BOOLEAN, gap : BOOLEAN] /\ (known.gap => known'.gap)
      /\ text' = IF Head(todo).is = "delta" /\ mode \in Owners THEN Append(text, Head(todo).n) ELSE text
      /\ IF Head(todo).is \in Endings THEN ending' = Head(todo).is ELSE ending' = ending
  BY <1>3, HeadFacts, SentFacts
<1>5. channel' \in 0..Slots
  BY HeadFacts, Constants
<1> QED BY <1>1, <1>2, <1>4, <1>5, HeadFacts, DoneKeeps

LEMMA SendFailsKeeps == ASSUME IInv, SendFails PROVE IInv'
<1> USE DEF SendFails, Sending, Done, Calls, ring, System, told, watch
<1>1. known' \in [end : BOOLEAN, ask : BOOLEAN, gap : BOOLEAN] /\ (known.gap => known'.gap)
  BY HeadFacts
<1>2. CASE mode = "monitor"
  <2>1. todo' = Steps(<<"return">>)
    BY <1>2
  <2>2. \A i \in DOMAIN todo' : todo'[i].is \notin Endings
    BY <2>1, Plan1, TaskNames DEF Endings
  <2> QED BY <1>1, <1>2, <2>1, <2>2, HeadFacts, ReturnPlan, FinishKeeps
<1>3. CASE mode # "monitor" /\ Head(todo).is \in {"delta", "role"}
  <2>1. todo' = Steps(<<"stop", "return">>)
    BY <1>3
  <2>2. ~Leaves(todo)
    BY <1>3, HeadFacts DEF Orderly, Leaves
  <2>3. ending = "none"
    BY <2>2 DEF IInv, OneEnding, Leaving
  <2> QED BY <1>1, <2>1, <2>3, HeadFacts, StopReturnPlan, FinishKeeps
<1>4. CASE mode # "monitor" /\ Head(todo).is \notin {"delta", "role"}
  <2>1. subscribed' = (subscribed \/ Head(todo).is = "subscribe")
    BY HeadFacts
  <2>2. text' = IF Head(todo).is = "delta" /\ mode \in Owners THEN Append(text, Head(todo).n) ELSE text
    BY <1>4
  <2>3. todo' = Tail(todo)
    BY <1>4
  <2> QED BY <1>1, <2>1, <2>2, <2>3, HeadFacts, DoneKeeps DEF client
<1> QED BY <1>2, <1>3, <1>4

LEMMA ProbeKeeps == ASSUME IInv, Probe PROVE IInv'
<1> USE DEF Probe, Doing, Done, ring, System, told
<1>1. /\ todo[1].is = "probe" /\ Orderly(todo) /\ todo \in Seq(Tasks) /\ 1 \in DOMAIN todo /\ ~over
  BY HeadFacts
<1>2. \A j \in DOMAIN todo : j = 1
  <2>1. \A j \in DOMAIN todo : j <= 1 /\ j \in Nat /\ j > 0
    BY <1>1 DEF Orderly
  <2> QED BY <2>1
<1>3. Tail(todo) = <<>>
  <2>1. Len(todo) = 1
    BY <1>1, <1>2
  <2>2. Tail(todo) \in Seq(Tasks) /\ Len(Tail(todo)) = 0
    BY <1>1, <2>1
  <2> QED BY <2>2, EmptyFacts
<1>4. ~Leaving /\ \A i \in DOMAIN todo : todo[i].is # "delta"
  BY <1>1, <1>2 DEF Leaving, Leaves
<1>5. silence < IdleAfter /\ probes < Confirmations /\ ending = "none"
  BY <1>4 DEF IInv, WithinLimits, OneEnding
<1>6. known' \in [end : BOOLEAN, ask : BOOLEAN, gap : BOOLEAN] /\ (known.gap => known'.gap)
  BY HeadFacts
<1>7. ASSUME NEW more \in Seq(Tasks), Then(more) PROVE todo' = more
  BY <1>3, <1>7, EmptyFacts DEF Then
<1>8. CASE Then(Steps(<<"beat">>)) /\ UNCHANGED probes
  <2>1. Light(todo')
    BY <1>7, <1>8, LightPlans DEF Light
  <2> QED BY <1>4, <1>5, <1>8, <2>1, HeadFacts, GoOnLightly
<1>9. CASE Done /\ UNCHANGED probes
  <2>1. Light(todo')
    BY <1>3, <1>9, LightPlans
  <2> QED BY <1>4, <1>5, <1>9, <2>1, HeadFacts, GoOnLightly
<1>10. CASE probes' = probes + 1 /\ Then(IF probes + 1 >= Confirmations THEN Failure ELSE <<>>)
  <2>1. probes' \in 0..Confirmations
    BY <1>5, <1>10, HeadFacts, Constants
  <2>2. CASE probes + 1 >= Confirmations
    <3>1. todo' = Failure
      BY <1>7, <1>10, <2>2, FailurePlan DEF Final
    <3> QED BY <1>1, <1>5, <1>6, <2>1, <3>1, HeadFacts, FailurePlan, FinishKeeps
  <2>3. CASE ~(probes + 1 >= Confirmations)
    <3>1. Light(todo')
      BY <1>7, <1>10, <2>3, LightPlans DEF Light
    <3>2. probes' < Confirmations
      BY <1>10, <2>1, <2>3, Constants
    <3> QED BY <1>4, <1>5, <2>1, <3>1, <3>2, HeadFacts, GoOnLightly
  <2> QED BY <2>2, <2>3
<1> QED BY <1>8, <1>9, <1>10

\* turn/start goes out: the turn begins, or there is no Codex to begin it.
LEMMA StartTurnKeeps == ASSUME IInv, StartTurn PROVE IInv'
<1> USE DEF StartTurn, Doing, ring, client, watch, told
<1>1. /\ todo[1].is = "start" /\ Orderly(todo) /\ todo \in Seq(Tasks) /\ 1 \in DOMAIN todo /\ ~over
      /\ todo # <<>> /\ Head(todo).is = "start"
  BY HeadFacts
<1>2. turn = "none" /\ mode \in Owners /\ subscribed
  BY <1>1 DEF IInv, StartsSubscribed
<1>3. ~Leaving /\ ending = "none"
  <2>1. ~Leaving
    BY <1>1 DEF Orderly, Leaving, Leaves
  <2> QED BY <2>1 DEF IInv, OneEnding
<1>4. CASE ~up
  <2>1. todo' = Steps(<<"return">>) /\ UNCHANGED turn
    BY <1>4
  <2>2. known' \in [end : BOOLEAN, ask : BOOLEAN, gap : BOOLEAN] /\ (known.gap => known'.gap)
    BY <1>1, HeadFacts
  <2> QED BY <1>1, <1>2, <1>3, <2>1, <2>2, HeadFacts, ReturnPlan, FinishKeeps DEF codex
<1>5. CASE up
  <2>1. todo' = Tail(todo) /\ turn' = "running"
    BY <1>5 DEF Done
  <2>2. /\ todo' \in Seq(Tasks) /\ Orderly(todo') /\ ~Leaves(todo')
        /\ \A i \in DOMAIN todo' : todo'[i].is # "delta"
    BY <1>1, <1>3, <2>1, TailPlan DEF Leaving
  <2>3. \A i \in DOMAIN todo' : i + 1 \in DOMAIN todo /\ i + 1 > 1 /\ todo'[i] = todo[i + 1]
    BY <1>1, <2>1, TailFacts
  <2>4. ~Leaving'
    BY <1>1, <2>2 DEF Leaving, Leaves
  <2>5. Shape'
    <3>1. TypeOK'
      BY <1>1, <2>1 DEF IInv, Shape, TypeOK
    <3> QED BY <2>2, <3>1 DEF IInv, Shape
  <2>6. Orderly(todo)' /\ WithinLimits'
    BY <1>3, <2>2 DEF IInv, WithinLimits, Orderly
  <2>7. StopPlanned' /\ LeftTurnIsStopped'
    BY <1>1, <2>2 DEF StopPlanned, StopsFirst, Leaves, LeftTurnIsStopped
  <2>8. StartsSubscribed'
    <3>1. \A i \in DOMAIN todo' : todo'[i].is # "start"
      BY <1>1, <2>3 DEF Orderly
    <3> QED BY <1>2, <2>1, <3>1 DEF IInv, StartsSubscribed
  <2>9. EndsKnown'
    BY <1>2, <2>1 DEF IInv, EndsKnown, Ended
  <2>10. OneEnding'
    BY <1>3 DEF OneEnding
  <2>11. WholeWhenCompleted'
    BY <1>2, <2>3 DEF IInv, WholeWhenCompleted
  <2>12. NextPiece'
    BY <2>2 DEF NextPiece
  <2>13. RingContinues'
    <3>1. \A i \in DOMAIN todo : todo[i].is # "delta"
      BY <1>1 DEF Orderly
    <3>2. Taken = Len(text) /\ Taken' = Len(text)
      BY <2>2, <3>1 DEF Taken
    <3> QED BY <1>3, <3>2 DEF IInv, RingContinues
  <2> QED BY <2>5, <2>6, <2>7, <2>8, <2>9, <2>10, <2>11, <2>12, <2>13 DEF IInv
<1> QED BY <1>4, <1>5

\* A return comes after the interrupt it needs.
LEMMA ReturnFacts ==
  ASSUME IInv, Return
  PROVE  (mode \in {"responses", "chat"} /\ turn = "running") => Excused
<1>1. todo[1].is = "return" /\ todo \in Seq(Tasks) /\ 1 \in DOMAIN todo
  BY HeadFacts DEF Return, Doing
<1>2. ~StopsFirst(todo)
  BY <1>1 DEF StopsFirst
<1> QED BY <1>2 DEF IInv, StopPlanned

\* The reader has returned, or its handler was dropped.
LEMMA OverKeeps ==
  ASSUME IInv, UNCHANGED <<mode, codex, stopAsked, ring, watch, told>>, here' \in BOOLEAN,
         channel' \in 0..Slots, over' = TRUE, todo' = <<>>,
         (mode \in {"responses", "chat"} /\ turn = "running") => Excused
  PROVE  IInv'
<1> USE DEF codex, ring, watch, told
<1>1. DOMAIN todo' = {} /\ todo' \in Seq(Tasks) /\ Leaving'
  BY DEF Leaving
<1>2. Shape'
  <2>1. TypeOK'
    BY DEF IInv, Shape, TypeOK
  <2> QED BY <1>1, <2>1 DEF IInv, Shape
<1>3. /\ Orderly(todo)' /\ WithinLimits' /\ OneEnding' /\ WholeWhenCompleted' /\ NextPiece'
      /\ RingContinues'
  BY <1>1 DEF Orderly, WithinLimits, OneEnding, WholeWhenCompleted, NextPiece, RingContinues
<1>4. StopPlanned' /\ LeftTurnIsStopped'
  BY <1>1 DEF StopPlanned, LeftTurnIsStopped, Excused
<1>5. StartsSubscribed' /\ EndsKnown'
  BY <1>1 DEF IInv, StartsSubscribed, EndsKnown
<1> QED BY <1>2, <1>3, <1>4, <1>5 DEF IInv

\* Only the client's end of the channel changes.
LEMMA ClientKeeps ==
  ASSUME IInv, UNCHANGED <<mode, codex, stopAsked, ring, todo, over, watch, told>>,
         here' \in BOOLEAN, channel' \in 0..Slots
  PROVE  IInv'
<1> USE DEF codex, ring, watch, told
<1>1. Shape'
  <2>1. TypeOK'
    BY DEF IInv, Shape, TypeOK
  <2> QED BY <2>1 DEF IInv, Shape
<1>2. Leaving' = Leaving /\ Taken' = Taken
  BY DEF Leaving, Leaves, Taken
<1>3. /\ Orderly(todo)' /\ WithinLimits' /\ OneEnding' /\ WholeWhenCompleted' /\ NextPiece'
      /\ RingContinues'
  BY <1>2 DEF IInv, Orderly, WithinLimits, OneEnding, WholeWhenCompleted, NextPiece, RingContinues
<1>4. StopPlanned' /\ LeftTurnIsStopped' /\ StartsSubscribed' /\ EndsKnown'
  BY DEF IInv, StopPlanned, LeftTurnIsStopped, Excused, StopsFirst, StartsSubscribed, EndsKnown
<1> QED BY <1>1, <1>3, <1>4 DEF IInv

LEMMA ReturnKeeps == ASSUME IInv, Return PROVE IInv'
<1>1. here' \in BOOLEAN /\ channel' \in 0..Slots
  BY DEF Return, System, client, IInv, Shape, TypeOK
<1> QED BY <1>1, ReturnFacts, OverKeeps DEF Return, System

LEMMA ClientReadsKeeps == ASSUME IInv, ClientReads PROVE IInv'
<1>1. here' \in BOOLEAN /\ channel' \in 0..Slots
  BY Constants DEF ClientReads, IInv, Shape, TypeOK
<1> QED BY <1>1, ClientKeeps DEF ClientReads

LEMMA ClientLeavesKeeps == ASSUME IInv, ClientLeaves PROVE IInv'
<1>1. here' \in BOOLEAN /\ channel' \in 0..Slots
  <2>1. here' = FALSE /\ channel' = 0
    BY DEF ClientLeaves
  <2>2. 0 \in 0..Slots
    BY Constants
  <2>3. here' \in BOOLEAN
    BY <2>1
  <2> QED BY <2>1, <2>2, <2>3
<1>2. CASE mode = "json" /\ ~over
  <2>1. over' = TRUE /\ todo' = <<>> /\ UNCHANGED <<mode, codex, stopAsked, ring, watch, told>>
    BY <1>2 DEF ClientLeaves
  <2>2. mode \notin {"responses", "chat"}
    BY <1>2
  <2> QED BY <1>1, <2>1, <2>2, OverKeeps
<1>3. CASE ~(mode = "json" /\ ~over)
  BY <1>1, <1>3, ClientKeeps DEF ClientLeaves
<1> QED BY <1>2, <1>3

-----------------------------------------------------------------------------
(* The invariant.                                                          *)

LEMMA EventFacts ==
  /\ \A flat \in BOOLEAN : End(flat) \in Events /\ End(flat).is = "end"
  /\ \A k \in {"other", "closed", "asked", "resolved", "required"} :
       Event(k) \in Events /\ Event(k).is = k
BY DEF Events, End, Event, Kinds

LEMMA CodexKeeps == ASSUME IInv, Codex PROVE IInv'
<1>1. /\ up \in BOOLEAN /\ made \in 0..MaxPieces /\ made + 1 \in Nat
      /\ ask \in {"none", "recorded", "recalled", "pending", "withdrawn", "decided", "settled"}
  BY Constants DEF IInv, Shape, TypeOK
<1>2. CASE Speak
  BY <1>1, <1>2, PieceFacts, EnvironmentKeeps DEF Speak
<1>3. CASE OtherTurn
  BY <1>1, <1>3, EventFacts, EnvironmentKeeps DEF OtherTurn, codex
<1>4. CASE CloseTransport
  BY <1>1, <1>4, EventFacts, EnvironmentKeeps DEF CloseTransport, Ended
<1>5. ASSUME NEW how \in Ended, NEW flat \in BOOLEAN, EndTurn(how, flat) PROVE IInv'
  BY <1>1, <1>5, EventFacts, EnvironmentKeeps DEF EndTurn
<1> QED BY <1>2, <1>3, <1>4, <1>5 DEF Codex

LEMMA ApprovingKeeps == ASSUME IInv, Approving PROVE IInv'
<1>1. up \in BOOLEAN
  BY DEF IInv, Shape
<1>2. CASE RecordAsk \/ DecideAsk \/ WithdrawAsk
  BY <1>1, <1>2, EventFacts, EnvironmentKeeps DEF RecordAsk, DecideAsk, WithdrawAsk
<1>3. CASE PublishAsk
  BY <1>1, <1>3, EventFacts, EnvironmentKeeps DEF PublishAsk
<1>4. CASE PublishDecision
  BY <1>1, <1>4, EventFacts, EnvironmentKeeps DEF PublishDecision
<1>5. CASE AnswerAsk
  <2>1. PICK kind \in {"resolved", "required"} : Publish(Event(kind))
    BY <1>5 DEF AnswerAsk
  <2> QED BY <1>1, <1>5, <2>1, EventFacts, EnvironmentKeeps DEF AnswerAsk
<1> QED BY <1>2, <1>3, <1>4, <1>5 DEF Approving

LEMMA NextKeeps == ASSUME IInv, [Next]_vars PROVE IInv'
<1>1. CASE UNCHANGED vars
  <2>1. UNCHANGED <<mode, codex, stopAsked, ring, todo, over, watch, told, here, channel>>
    BY <1>1 DEF vars, client
  <2>2. here' \in BOOLEAN /\ channel' \in 0..Slots
    BY <2>1 DEF IInv, Shape, TypeOK
  <2> QED BY <2>1, <2>2, ClientKeeps
<1>2. CASE Takes
  BY <1>2, TakePieceKeeps, TakeEndKeeps, TakeRequiredKeeps, TakeApprovalKeeps, SkipKeeps,
     TakeLossKeeps, SeesClientGoneKeeps, ForwardKeeps, ForwardGapKeeps DEF Takes
<1>3. CASE Acts
  BY <1>3, SubscribeKeeps, StartTurnKeeps, AskStopKeeps, ProbeKeeps, ReadTurnKeeps, SendKeeps,
     SendFailsKeeps, ReturnKeeps DEF Acts
<1> QED BY <1>1, <1>2, <1>3, CodexKeeps, ApprovingKeeps, TimeOutKeeps, ClientReadsKeeps,
           ClientLeavesKeeps DEF Next

LEMMA InitHolds == Init => IInv
<1> SUFFICES ASSUME Init PROVE IInv
  OBVIOUS
<1> USE DEF Init
<1> DEFINE p == Opening(mode)
<1>1. /\ p \in Seq(Tasks) /\ Orderly(p)
      /\ \A i \in DOMAIN p : p[i].is \notin {"return", "delta", "completed", "failed"}
      /\ mode = "monitor" => \A i \in DOMAIN p : p[i].is # "start"
      /\ p[1].is = "subscribe"
  <2>1. /\ "subscribe" \in Others /\ "start" \in Others /\ "read" \in Others /\ "reset" \in Others
        /\ "list" \in Others /\ "role" \in Others
    BY DEF Others
  <2>2. CASE mode = "monitor"
    <3>1. p = Steps(<<"subscribe", "read", "reset", "list">>)
      BY <2>2 DEF Opening
    <3>2. p \in Seq(Tasks) /\ DOMAIN p = 1..4
      BY <2>1, <3>1, Plan4
    <3>3. p[1].is = "subscribe" /\ p[2].is = "read" /\ p[3].is = "reset" /\ p[4].is = "list"
      BY <2>1, <3>1, Plan4
    <3> HIDE DEF p
    <3>4. \A i \in DOMAIN p : p[i].is \in {"subscribe", "read", "reset", "list"}
      BY <3>2, <3>3
    <3>5. Orderly(p)
      BY <3>2, <3>3, <3>4 DEF Orderly, Endings
    <3> QED BY <3>2, <3>3, <3>4, <3>5
  <2>3. CASE mode = "chat"
    <3>1. p = Steps(<<"subscribe", "start", "role">>)
      BY <2>3 DEF Opening
    <3>2. p \in Seq(Tasks) /\ DOMAIN p = 1..3
      BY <2>1, <3>1, Plan3
    <3>3. p[1].is = "subscribe" /\ p[2].is = "start" /\ p[3].is = "role"
      BY <2>1, <3>1, Plan3
    <3> HIDE DEF p
    <3>4. \A i \in DOMAIN p : p[i].is \in {"subscribe", "start", "role"}
      BY <3>2, <3>3
    <3>5. Orderly(p)
      BY <3>2, <3>3, <3>4 DEF Orderly, Endings
    <3> QED BY <2>3, <3>2, <3>3, <3>4, <3>5
  <2>4. CASE mode \notin {"monitor", "chat"}
    <3>1. p = Steps(<<"subscribe", "start">>)
      BY <2>4 DEF Opening
    <3>2. p \in Seq(Tasks) /\ DOMAIN p = 1..2
      BY <2>1, <3>1, Plan2
    <3>3. p[1].is = "subscribe" /\ p[2].is = "start"
      BY <2>1, <3>1, Plan2
    <3> HIDE DEF p
    <3>4. \A i \in DOMAIN p : p[i].is \in {"subscribe", "start"}
      BY <3>2, <3>3
    <3>5. Orderly(p)
      BY <3>2, <3>3, <3>4 DEF Orderly, Endings
    <3> QED BY <2>4, <3>2, <3>3, <3>4, <3>5
  <2> QED BY <2>2, <2>3, <2>4
<1>2. todo = p
  OBVIOUS
<1> HIDE DEF p
<1>3. DOMAIN unread = {} /\ unread \in Seq(Events) /\ Len(unread) = 0 /\ Len(text) = 0 /\ text \in Seq(Nat)
  OBVIOUS
<1>4. turn = (IF mode = "monitor" THEN "running" ELSE "none") /\ mode \in Modes
  OBVIOUS
<1>5. Shape
  <2>1. TypeOK
    BY <1>3, Constants DEF TypeOK
  <2> QED BY <1>1, <1>2, <1>3, <2>1 DEF Shape
<1>6. Orderly(todo) /\ WithinLimits
  BY <1>1, <1>2, Constants DEF WithinLimits
<1>7. StopPlanned /\ LeftTurnIsStopped
  BY <1>4 DEF StopPlanned, LeftTurnIsStopped
<1>8. StartsSubscribed
  <2>1. mode # "monitor" => mode \in Owners
    BY ModesAssumption DEF Owners
  <2>2. mode \in Owners => turn = "none"
    BY <1>4 DEF Owners
  <2> QED BY <1>1, <1>2, <1>3, <2>1, <2>2 DEF StartsSubscribed
<1>9. EndsKnown /\ OneEnding /\ WholeWhenCompleted /\ NextPiece
  BY <1>1, <1>2, <1>3 DEF EndsKnown, OneEnding, WholeWhenCompleted, NextPiece, Endings
<1>10. RingContinues
  <2>1. Taken = 0 /\ made = 0
    BY <1>1, <1>2, <1>3 DEF Taken
  <2>2. RingFrom(0, unread, 0)
    BY <1>3 DEF RingFrom
  <2> QED BY <2>1, <2>2 DEF RingContinues
<1> QED BY <1>5, <1>6, <1>7, <1>8, <1>9, <1>10 DEF IInv

\* What a reader has planned, and what the ring still holds for it, is always
\* as IInv says.
THEOREM Invariant == Spec => []IInv
<1>1. IInv /\ [Next]_vars => IInv'
  BY NextKeeps
<1> QED BY <1>1, InitHolds, PTL DEF Spec

\* The state has its shape: the ring and the channel keep their bounds, and the
\* silence and the probes never pass their limits (runtime.rs, http.rs).
THEOREM TypeCorrect == Spec => []TypeOK
<1>1. IInv => TypeOK
  BY DEF IInv, Shape
<1> QED BY <1>1, Invariant, PTL

\* However many events are lost, whenever the client goes and whatever is
\* probed: the task of run_stream or run_chat_stream leaves no turn behind that
\* runs and that Codex was not asked to interrupt, except for the lost events
\* of run_stream.
THEOREM LeftTurnStopped == Spec => []LeftTurnIsStopped
<1>1. IInv => LeftTurnIsStopped
  BY DEF IInv
<1> QED BY <1>1, Invariant, PTL

-----------------------------------------------------------------------------
(* The contract of ResponseStream.                                         *)

Result == IF turn \in Ended THEN turn ELSE "none"

LEMMA Stutters ==
  ASSUME UNCHANGED <<turn, made, text, ending>>
  PROVE  [Contract!Next]_(Contract!vars)
BY DEF Contract!vars

LEMMA Gives ==
  ASSUME UNCHANGED <<turn, made, ending>>, ending = "none",
         text' = Append(text, Len(text) + 1), Len(text) + 1 <= made, Len(text) \in Nat, made \in Nat
  PROVE  [Contract!Next]_(Contract!vars)
<1>1. Len(text) < made
  OBVIOUS
<1>2. Contract!Give
  BY <1>1 DEF Contract!Give
<1> QED BY <1>2 DEF Contract!Next

\* Only a turn that runs ends.
LEMMA Finishes ==
  ASSUME turn \notin Ended, turn' \in Ended, UNCHANGED <<made, text, ending>>
  PROVE  [Contract!Next]_(Contract!vars)
<1>1. turn' \in {"completed", "failed"}
  BY DEF Ended
<1>2. Contract!Finish(turn')
  BY DEF Contract!Finish
<1> QED BY <1>1, <1>2 DEF Contract!Next

LEMMA CodexRefines == ASSUME Codex PROVE [Contract!Next]_(Contract!vars)
<1> USE DEF Reader, told
<1>1. CASE Speak
  <2>1. Contract!Produce
    BY <1>1 DEF Speak, Contract!Produce, Ended
  <2> QED BY <2>1 DEF Contract!Next
<1>2. CASE OtherTurn
  BY <1>2, Stutters DEF OtherTurn, codex
<1>3. CASE CloseTransport
  <2>1. CASE turn = "running"
    BY <1>3, <2>1, Finishes DEF CloseTransport, Ended
  <2>2. CASE turn # "running"
    BY <1>3, <2>2, Stutters DEF CloseTransport
  <2> QED BY <2>1, <2>2
<1>4. ASSUME NEW how \in Ended, NEW flat \in BOOLEAN, EndTurn(how, flat)
      PROVE  [Contract!Next]_(Contract!vars)
  BY <1>4, Finishes DEF EndTurn, Ended
<1> QED BY <1>1, <1>2, <1>3, <1>4 DEF Codex

LEMMA ApprovingRefines == ASSUME Approving PROVE [Contract!Next]_(Contract!vars)
BY Stutters DEF Approving, RecordAsk, PublishAsk, DecideAsk, PublishDecision, WithdrawAsk,
   AnswerAsk, Reader, told

LEMMA TakesRefines == ASSUME IInv, Takes PROVE [Contract!Next]_(Contract!vars)
<1> USE DEF System, codex, told
<1>1. CASE TakePiece
  <2>1. CASE mode = "json"
    <3>1. /\ unread \in Seq(Events) /\ RingFrom(Len(text), unread, made) /\ ending = "none"
          /\ made \in Nat /\ Len(text) \in Nat /\ unread # <<>> /\ Head(unread).is = "delta"
      BY <1>1, WaitingFacts DEF TakePiece
    <3>2. Head(unread).n = Len(text) + 1 /\ Head(unread).n <= made
      BY <3>1, RingTaken
    <3>3. text' = Append(text, Len(text) + 1) /\ UNCHANGED <<turn, made, ending>>
      BY <1>1, <2>1, <3>2 DEF TakePiece, Heard
    <3> QED BY <3>1, <3>2, <3>3, Gives
  <2>2. CASE mode # "json"
    BY <1>1, <2>2, Stutters DEF TakePiece, Heard
  <2> QED BY <2>1, <2>2
<1>2. CASE TakeEnd \/ TakeRequired \/ TakeApproval
  BY <1>2, Stutters DEF TakeEnd, TakeRequired, TakeApproval, Heard
<1>3. CASE Skip \/ TakeLoss
  BY <1>3, Stutters DEF Skip, TakeLoss, Tells
<1>4. CASE SeesClientGone \/ Forward \/ ForwardGap
  BY <1>4, Stutters DEF SeesClientGone, Forward, ForwardGap
<1> QED BY <1>1, <1>2, <1>3, <1>4 DEF Takes

LEMMA SendRefines == ASSUME IInv, Send PROVE [Contract!Next]_(Contract!vars)
<1>1. /\ ~over /\ todo # <<>> /\ UNCHANGED <<turn, made>> /\ Sent(Head(todo))
  BY DEF Send, Sending, codex
<1>2. /\ todo[1] = Head(todo) /\ 1 \in DOMAIN todo /\ Orderly(todo) /\ mode \in Modes
      /\ known \in [end : BOOLEAN, ask : BOOLEAN, gap : BOOLEAN]
  BY <1>1, HeadFacts DEF IInv, Shape, TypeOK
<1>3. /\ text' = IF Head(todo).is = "delta" /\ mode \in Owners THEN Append(text, Head(todo).n) ELSE text
      /\ IF Head(todo).is \in Endings THEN ending' = Head(todo).is ELSE ending' = ending
  BY <1>1, <1>2, SentFacts
<1>4. CASE Head(todo).is = "delta" /\ mode \in Owners
  <2>1. Head(todo).n = Len(text) + 1 /\ Head(todo).n <= made
    BY <1>2, <1>4 DEF IInv, NextPiece
  <2>2. ~Leaving
    BY <1>1, <1>2, <1>4 DEF Orderly, Leaving, Leaves
  <2>3. ending = "none" /\ ending' = ending
    BY <1>3, <1>4, <2>2 DEF IInv, OneEnding, Endings
  <2>4. made \in Nat /\ Len(text) \in Nat
    BY TakenFacts DEF IInv
  <2> QED BY <1>1, <1>3, <1>4, <2>1, <2>3, <2>4, Gives
<1>5. CASE Head(todo).is = "completed"
  <2>1. ending = "none" /\ turn = "completed" /\ Len(text) = made
    BY <1>2, <1>5 DEF IInv, OneEnding, WholeWhenCompleted, Endings
  <2>2. ending' = "completed" /\ text' = text
    BY <1>3, <1>5 DEF Endings
  <2>3. Contract!Complete
    BY <1>1, <2>1, <2>2 DEF Contract!Complete, Ended
  <2> QED BY <2>3 DEF Contract!Next
<1>6. CASE Head(todo).is = "failed"
  <2>1. ending = "none"
    BY <1>2, <1>6 DEF IInv, OneEnding, Endings
  <2>2. ending' = "failed" /\ text' = text
    BY <1>3, <1>6 DEF Endings
  <2>3. Contract!Fail
    BY <1>1, <2>1, <2>2 DEF Contract!Fail
  <2> QED BY <2>3 DEF Contract!Next
<1>7. CASE ~(Head(todo).is = "delta" /\ mode \in Owners) /\ Head(todo).is \notin Endings
  BY <1>1, <1>3, <1>7, Stutters
<1> QED BY <1>4, <1>5, <1>6, <1>7 DEF Endings

LEMMA ActsRefines == ASSUME IInv, Acts PROVE [Contract!Next]_(Contract!vars)
<1> USE DEF System, codex, told
<1>1. CASE Subscribe \/ AskStop \/ Probe \/ Return
  BY <1>1, Stutters DEF Subscribe, AskStop, Probe, Return
<1>2. CASE ReadTurn
  BY <1>2, Stutters DEF ReadTurn, Tells
<1>3. CASE SendFails
  BY <1>3, Stutters DEF SendFails
<1>4. CASE StartTurn
  <2>1. /\ todo[1].is = "start" /\ 1 \in DOMAIN todo
    BY <1>4, HeadFacts DEF StartTurn, Doing
  <2>2. turn = "none"
    BY <2>1 DEF IInv, StartsSubscribed
  <2>3. (turn' = "running" \/ turn' = turn) /\ UNCHANGED <<made, text, ending>>
    BY <1>4 DEF StartTurn
  <2>4. UNCHANGED Contract!vars
    BY <2>2, <2>3 DEF Contract!vars, Ended
  <2> QED BY <2>4
<1> QED BY <1>1, <1>2, <1>3, <1>4, SendRefines DEF Acts

LEMMA NextRefines == ASSUME IInv, [Next]_vars PROVE [Contract!Next]_(Contract!vars)
<1>1. CASE UNCHANGED vars
  BY <1>1, Stutters DEF vars, codex, told
<1>2. CASE TimeOut
  BY <1>2, Stutters DEF TimeOut, System, codex, told
<1>3. CASE ClientReads \/ ClientLeaves
  BY <1>3, Stutters DEF ClientReads, ClientLeaves, codex, told
<1> QED BY <1>1, <1>2, <1>3, CodexRefines, ApprovingRefines, TakesRefines, ActsRefines DEF Next

\* Every reader that owns a turn implements ResponseStream: the pieces it gives
\* are the turn's, in order, none skipped and none twice, it ends once, and it
\* says completed only when the turn completed and all of the text was given.
THEOREM KeepsContract == Spec => StreamKept
<1>1. Init => Contract!Init
  BY ModesAssumption DEF Init, Contract!Init, Ended
<1>2. IInv /\ [Next]_vars => [Contract!Next]_(Contract!vars)
  BY NextRefines
<1> QED BY <1>1, <1>2, Invariant, PTL DEF Spec, StreamKept, Contract!Spec
-----------------------------------------------------------------------------
(* What a monitor knows of the approval.                                   *)

\* The client is asked about the approval, or was.
Published == {"pending", "decided", "withdrawn", "settled"}

InTodo(k) == \E i \in DOMAIN todo : todo[i].is = k
InRing(k) == \E i \in DOMAIN unread : unread[i].is = k

\* Nothing was lost, and the reader goes on.
Current ==
  /\ here /\ ~over /\ ~lagged /\ ~known.gap
  /\ ~InTodo("gap") /\ ~InTodo("return")

MonitorPlans ==
  \A i \in DOMAIN todo :
    todo[i].is \in Kinds \cup {"subscribe", "read", "reset", "list", "gap", "return"}

\* Nothing comes before the subscription.
SubscribesFirst == ~subscribed => todo = Opening(mode) /\ ~known.ask

\* What is known or on its way has happened, the decision comes after the
\* question, and each of the two is sent by itself.
InOrder ==
  /\ known.ask \/ InTodo("asked") \/ InRing("asked") => ask \in Published
  /\ InTodo("resolved") \/ InRing("resolved") => ask = "settled"
  /\ InTodo("resolved") => ~InRing("asked")
  /\ \A i, j \in DOMAIN unread : unread[i].is = "resolved" /\ unread[j].is = "asked" => j < i
  /\ \A i, j \in DOMAIN todo : todo[i].is \in {"asked", "resolved"} => i = j

\* A pending approval will be known when the reader has come to the end of what
\* it has to do and to read, and a decided one will not.
WillKnow ==
  /\ ask = "pending" => known.ask \/ InTodo("list") \/ InTodo("asked") \/ InRing("asked")
  /\ ask = "settled" /\ (known.ask \/ InTodo("asked") \/ InRing("asked")) =>
       InTodo("resolved") \/ InRing("resolved")

MonitorInv ==
  mode = "monitor" =>
    /\ MonitorPlans /\ SubscribesFirst
    /\ Current => InOrder /\ WillKnow

LEMMA MonitorOpens ==
  ASSUME todo = Opening("monitor")
  PROVE  /\ InTodo("list") /\ ~InTodo("asked") /\ todo # <<>> /\ todo[1].is = "subscribe"
         /\ MonitorPlans /\ \A i \in DOMAIN todo : todo[i].is \notin {"asked", "resolved"}
<1>1. {"subscribe", "read", "reset", "list"} \subseteq Others
  BY DEF Others
<1>2. /\ DOMAIN todo = 1..4 /\ todo[1].is = "subscribe" /\ todo[2].is = "read"
      /\ todo[3].is = "reset" /\ todo[4].is = "list"
  BY <1>1, Plan4 DEF Opening
<1>3. todo # <<>>
  BY <1>2
<1> QED BY <1>2, <1>3 DEF InTodo, MonitorPlans

\* A monitor of which some plan is left that does not open it is subscribed.
LEMMA Subscribed ==
  ASSUME IInv, MonitorInv, mode = "monitor", todo = <<>> \/ Head(todo).is # "subscribe"
  PROVE  subscribed
<1>1. subscribed \in BOOLEAN /\ (todo # <<>> => Head(todo) = todo[1])
  BY TailFacts DEF IInv, Shape
<1> QED BY <1>1, MonitorOpens DEF MonitorInv, SubscribesFirst

\* What Codex and the approval manager publish is on its way to the client.
LEMMA PublishedKeeps ==
  ASSUME IInv, MonitorInv, UNCHANGED Reader, NEW e \in Events, Publish(e) \/ UNCHANGED ring,
         ask \in Published => ask' \in Published, ask = "settled" => ask' = "settled",
         ask' = "pending" /\ ask # "pending" => Publish(e) /\ e.is = "asked",
         ask' = "settled" /\ ask # "settled" => ask = "none" \/ (Publish(e) /\ e.is = "resolved"),
         e.is = "asked" => ask \notin Published /\ ask' \in {"pending", "withdrawn"},
         e.is = "resolved" => ask' = "settled"
  PROVE  MonitorInv'
<1> SUFFICES ASSUME mode = "monitor"
             PROVE  /\ MonitorPlans' /\ SubscribesFirst'
                    /\ Current' => InOrder' /\ WillKnow'
  BY DEF MonitorInv, Reader
<1>1. /\ subscribed' = subscribed /\ lagged' \in BOOLEAN /\ (lagged => lagged')
      /\ unread' \in Seq(Events) /\ (unread' # <<>> => subscribed')
      /\ ~lagged' => unread' = unread \/ (unread' = Append(unread, e) /\ Publish(e))
      /\ (Publish(e) /\ subscribed /\ ~lagged') => unread' = Append(unread, e)
      /\ subscribed \in BOOLEAN /\ unread \in Seq(Events) /\ lagged \in BOOLEAN
  BY PublishFacts DEF IInv, Shape
<1>2. MonitorPlans' /\ SubscribesFirst'
  BY <1>1 DEF MonitorInv, MonitorPlans, SubscribesFirst, Reader, told
<1>3. ASSUME Current'
      PROVE  InOrder' /\ WillKnow'
  <2>1. \A k : InTodo(k)' <=> InTodo(k)
    BY DEF InTodo, Reader
  <2>2. InOrder /\ WillKnow /\ known' = known /\ todo' = todo /\ ~lagged'
    BY <1>1, <1>3, <2>1 DEF Current, MonitorInv, Reader, told, client
  <2>3. /\ Len(unread) \in Nat
        /\ \A i \in DOMAIN unread :
             i \in DOMAIN unread' /\ unread'[i] = unread[i] /\ i < Len(unread) + 1
        /\ \A i \in DOMAIN unread' :
             \/ i \in DOMAIN unread /\ unread'[i] = unread[i]
             \/ i = Len(unread) + 1 /\ unread'[i] = e /\ Publish(e)
    <3>1. CASE unread' = unread
      BY <1>1, <3>1
    <3>2. CASE unread' = Append(unread, e) /\ Publish(e)
      BY <1>1, <3>2, AppendFacts
    <3> QED BY <1>1, <2>2, <3>1, <3>2
  <2>4. \A k : /\ InRing(k) => InRing(k)'
               /\ InRing(k)' => InRing(k) \/ (Publish(e) /\ e.is = k)
    BY <2>3 DEF InRing
  <2>5. Publish(e) /\ subscribed => InRing(e.is)'
    <3>1. Publish(e) /\ subscribed =>
            Len(unread) + 1 \in DOMAIN unread' /\ unread'[Len(unread) + 1] = e
      BY <1>1, <2>2, AppendFacts
    <3> QED BY <3>1 DEF InRing
  <2>6. ~subscribed => /\ InTodo("list") /\ ~InTodo("asked") /\ ~known.ask /\ ~InRing("asked")'
    <3>1. ~subscribed => unread' = <<>>
      BY <1>1
    <3> QED BY <3>1, MonitorOpens DEF MonitorInv, SubscribesFirst, InRing
  <2>7. InOrder'
    <3>1. \A i, j \in DOMAIN unread' :
            unread'[i].is = "resolved" /\ unread'[j].is = "asked" => j < i
      <4> SUFFICES ASSUME NEW i \in DOMAIN unread', NEW j \in DOMAIN unread',
                          unread'[i].is = "resolved", unread'[j].is = "asked"
                   PROVE  j < i
        OBVIOUS
      <4>1. CASE unread'[j] = e /\ j \notin DOMAIN unread
        <5>1. ask \notin Published /\ i \in DOMAIN unread /\ unread[i].is = "resolved"
          BY <2>3, <4>1
        <5> QED BY <5>1, <2>2 DEF InOrder, InRing, Published
      <4>2. CASE j \in DOMAIN unread
        BY <2>2, <2>3, <4>2 DEF InOrder
      <4> QED BY <2>3, <4>1, <4>2
    <3>2. InTodo("resolved") => ~InRing("asked")'
      BY <2>2, <2>4 DEF InOrder, Published
    <3>3. known.ask \/ InTodo("asked") \/ InRing("asked")' => ask' \in Published
      BY <2>2, <2>4 DEF InOrder, Published
    <3>4. InTodo("resolved") \/ InRing("resolved")' => ask' = "settled"
      BY <2>2, <2>4 DEF InOrder
    <3>5. \A i, j \in DOMAIN todo' : todo'[i].is \in {"asked", "resolved"} => i = j
      BY <2>2 DEF InOrder
    <3> QED BY <2>1, <2>2, <3>1, <3>2, <3>3, <3>4, <3>5 DEF InOrder
  <2>8. ASSUME ask' = "pending"
        PROVE  known.ask \/ InTodo("list") \/ InTodo("asked") \/ InRing("asked")'
    <3>1. CASE ask = "pending"
      BY <2>2, <2>4, <3>1 DEF WillKnow
    <3>2. CASE ask # "pending"
      BY <2>5, <2>6, <2>8, <3>2, <1>1
    <3> QED BY <3>1, <3>2
  <2>9. ASSUME ask' = "settled", known.ask \/ InTodo("asked") \/ InRing("asked")'
        PROVE  InTodo("resolved") \/ InRing("resolved")'
    <3>1. e.is # "asked" /\ (known.ask \/ InTodo("asked") \/ InRing("asked"))
      BY <2>4, <2>9
    <3>2. CASE ask = "settled"
      BY <2>2, <2>4, <3>1, <3>2 DEF WillKnow
    <3>3. CASE ask # "settled"
      <4>1. Publish(e) /\ e.is = "resolved"
        BY <2>2, <2>9, <3>1, <3>3 DEF InOrder, Published
      <4> QED BY <4>1, <2>5, <2>6, <2>9, <1>1
    <3> QED BY <3>2, <3>3
  <2> QED BY <2>1, <2>2, <2>7, <2>8, <2>9 DEF WillKnow
<1> QED BY <1>2, <1>3

\* The monitor does what it has planned first.
LEMMA FirstDone ==
  ASSUME IInv, MonitorInv, mode = "monitor", todo # <<>>, todo' = Tail(todo), subscribed',
         UNCHANGED <<mode, ask, unread, lagged, here, over>>, known.gap => known'.gap,
         Head(todo).is = "gap" => known'.gap, Head(todo).is # "return",
         known'.ask = CASE Head(todo).is = "asked" -> TRUE
                        [] Head(todo).is = "resolved" -> FALSE
                        [] Head(todo).is = "list" -> ask = "pending"
                        [] OTHER -> known.ask
  PROVE  MonitorInv'
<1>1. /\ 1 \in DOMAIN todo /\ Head(todo) = todo[1]
      /\ \A i \in DOMAIN todo' :
           i + 1 \in DOMAIN todo /\ i + 1 # 1 /\ todo'[i] = todo[i + 1] /\ i \in Nat
      /\ \A i \in DOMAIN todo : i = 1 \/ (i - 1 \in DOMAIN todo' /\ todo[i] = todo'[i - 1])
  <2>1. todo \in Seq(Tasks)
    BY DEF IInv, Shape
  <2>2. DOMAIN todo' \subseteq Nat
    BY <2>1, TailFacts
  <2> QED BY <2>1, <2>2, TailFacts
<1>2. \A k : InTodo(k)' => InTodo(k)
  BY <1>1 DEF InTodo
<1>3. \A k : InTodo(k) => InTodo(k)' \/ Head(todo).is = k
  BY <1>1 DEF InTodo
<1>4. MonitorPlans' /\ SubscribesFirst'
  BY <1>1 DEF MonitorInv, MonitorPlans, SubscribesFirst
<1>5. ASSUME Current'
      PROVE  InOrder' /\ WillKnow'
  <2>1. InOrder /\ WillKnow /\ Head(todo).is # "gap"
    BY <1>3, <1>5 DEF Current, MonitorInv
  <2>2. \A k : InRing(k)' <=> InRing(k)
    BY DEF InRing
  <2>3. InTodo(Head(todo).is)
    BY <1>1 DEF InTodo
  <2>4. Head(todo).is \in {"asked", "resolved"} => \A k : ~InTodo(k)'
    BY <1>1, <2>1 DEF InOrder, InTodo
  <2>5. InTodo("asked") /\ InTodo("resolved") => FALSE
    BY <2>1 DEF InOrder, InTodo
  <2>6. InOrder'
    <3>1. \A i, j \in DOMAIN todo' : todo'[i].is \in {"asked", "resolved"} => i = j
      BY <1>1, <2>1 DEF InOrder
    <3>2. known'.ask \/ InTodo("asked")' \/ InRing("asked") => ask \in Published
      BY <1>2, <2>1, <2>3 DEF InOrder, Published
    <3> QED BY <1>2, <2>1, <2>2, <3>1, <3>2 DEF InOrder
  <2>7. ask = "pending" => known'.ask \/ InTodo("list")' \/ InTodo("asked")' \/ InRing("asked")
    BY <1>3, <2>1, <2>3 DEF InOrder, WillKnow
  <2>8. ask = "settled" /\ (known'.ask \/ InTodo("asked")' \/ InRing("asked")) =>
          InTodo("resolved")' \/ InRing("resolved")
    <3>1. CASE Head(todo).is = "asked"
      BY <2>1, <2>3, <2>5, <3>1 DEF WillKnow
    <3>2. CASE Head(todo).is = "resolved"
      BY <2>1, <2>3, <2>4, <3>2 DEF InOrder
    <3>3. CASE Head(todo).is \notin {"asked", "resolved"}
      BY <1>2, <1>3, <2>1, <3>3 DEF WillKnow
    <3> QED BY <3>1, <3>2, <3>3
  <2> QED BY <2>2, <2>6, <2>7, <2>8 DEF WillKnow
<1> QED BY <1>4, <1>5 DEF MonitorInv

LEMMA ForwardKnows ==
  ASSUME IInv, MonitorInv, Forward
  PROVE  MonitorInv'
<1> USE DEF Forward, System, client, told
<1>1. /\ 1 \in DOMAIN unread /\ Head(unread) = unread[1] /\ Head(unread) \in Events
      /\ \A i \in DOMAIN unread' : /\ i + 1 \in DOMAIN unread /\ i + 1 > 1 /\ i \in Nat
                                   /\ unread'[i] = unread[i + 1]
      /\ \A i \in DOMAIN unread : i = 1 \/ (i - 1 \in DOMAIN unread' /\ unread[i] = unread'[i - 1])
  <2>1. unread \in Seq(Events)
    BY DEF IInv, Shape
  <2>2. DOMAIN unread' \subseteq Nat
    BY <2>1, TailFacts
  <2> QED BY <2>1, <2>2, TailFacts
<1>2. todo = <<>> /\ \A k : ~InTodo(k)
  BY DEF Waiting, InTodo
<1>3. /\ \A k : InTodo(k)' <=> Names(Head(unread)) /\ Head(unread).is = k
      /\ DOMAIN todo' \subseteq 1..1 /\ \A i \in DOMAIN todo' : todo'[i] = Head(unread)
  <2>1. CASE Names(Head(unread))
    BY <1>1, <2>1, OnePlan DEF InTodo
  <2>2. CASE ~Names(Head(unread))
    BY <2>2 DEF InTodo
  <2> QED BY <2>1, <2>2
<1>4. MonitorPlans' /\ SubscribesFirst'
  <2>1. Head(unread).is \in Kinds
    BY <1>1, EventKinds
  <2> QED BY <1>2, <1>3, <2>1, Subscribed DEF MonitorPlans, SubscribesFirst
<1>5. ASSUME Current'
      PROVE  InOrder' /\ WillKnow'
  <2>1. InOrder /\ WillKnow
    BY <1>2, <1>5 DEF Current, MonitorInv, Waiting
  <2>2. \A k : InRing(k)' => InRing(k)
    BY <1>1 DEF InRing
  <2>3. \A k : InRing(k) => InRing(k)' \/ Head(unread).is = k
    BY <1>1 DEF InRing
  <2>4. InRing(Head(unread).is)
    BY <1>1 DEF InRing
  <2>5. \A i, j \in DOMAIN unread' : unread'[i].is = "resolved" /\ unread'[j].is = "asked" => j < i
    <3> SUFFICES ASSUME NEW i \in DOMAIN unread', NEW j \in DOMAIN unread',
                        unread'[i].is = "resolved", unread'[j].is = "asked"
                 PROVE  j < i
      OBVIOUS
    <3>1. j + 1 < i + 1
      BY <1>1, <2>1 DEF InOrder
    <3> QED BY <1>1, <3>1
  <2>6. Head(unread).is = "resolved" => ~InRing("asked")'
    <3> SUFFICES ASSUME Head(unread).is = "resolved", NEW i \in DOMAIN unread',
                        unread'[i].is = "asked"
                 PROVE  FALSE
      BY DEF InRing
    <3>1. i + 1 < 1
      BY <1>1, <2>1 DEF InOrder
    <3> QED BY <1>1, <3>1
  <2>7. InOrder'
    <3>1. \A i, j \in DOMAIN todo' : i = j
      BY <1>3
    <3>2. known.ask \/ InTodo("asked")' \/ InRing("asked")' => ask \in Published
      BY <1>3, <2>1, <2>2, <2>4 DEF InOrder
    <3>3. InTodo("resolved")' \/ InRing("resolved")' => ask = "settled"
      BY <1>3, <2>1, <2>2, <2>4 DEF InOrder
    <3>4. InTodo("resolved")' => ~InRing("asked")'
      BY <1>3, <2>6
    <3> QED BY <2>5, <3>1, <3>2, <3>3, <3>4 DEF InOrder, codex
  <2>8. ask = "pending" => known.ask \/ InTodo("asked")' \/ InRing("asked")'
    BY <1>2, <1>3, <2>1, <2>3 DEF WillKnow, Names
  <2>9. ask = "settled" /\ (known.ask \/ InTodo("asked")' \/ InRing("asked")') =>
          InTodo("resolved")' \/ InRing("resolved")'
    BY <1>2, <1>3, <2>1, <2>2, <2>3, <2>4 DEF WillKnow, Names
  <2> QED BY <2>7, <2>8, <2>9 DEF WillKnow, codex
<1> QED BY <1>4, <1>5 DEF MonitorInv

\* A plan with a gap to report, or to return, ends what is known.
LEMMA GivesUp ==
  ASSUME MonitorInv, mode = "monitor", mode' = mode, subscribed',
         todo' \in {Steps(<<"gap">>), Steps(<<"gap", "return">>), Steps(<<"return">>)}
  PROVE  MonitorInv'
<1>1. "gap" \in Others /\ "return" \in Others
  BY TaskNames
<1>2. MonitorPlans' /\ (InTodo("gap")' \/ InTodo("return")')
  BY <1>1, Plan1, Plan2 DEF MonitorPlans, InTodo
<1> QED BY <1>2 DEF MonitorInv, SubscribesFirst, Current

LEMMA MonitorActs ==
  ASSUME IInv, MonitorInv, mode = "monitor", Acts
  PROVE  MonitorInv'
<1>1. /\ known \in [end : BOOLEAN, ask : BOOLEAN, gap : BOOLEAN]
      /\ todo # <<>> => todo[1] = Head(todo) /\ 1 \in DOMAIN todo
  BY TailFacts DEF IInv, Shape
<1>2. ASSUME todo # <<>>
      PROVE  Head(todo).is \notin {"start", "stop", "probe"}
  BY <1>1, <1>2 DEF MonitorInv, MonitorPlans, Kinds
<1>3. CASE Subscribe
  BY <1>3, FirstDone DEF Subscribe, Doing, Done, System, client, codex, told
<1>4. CASE StartTurn \/ AskStop \/ Probe
  BY <1>2, <1>4 DEF StartTurn, AskStop, Probe, Doing
<1>5. CASE ReadTurn
  <2>1. todo # <<>> /\ Head(todo).is = "read" /\ todo' = Tail(todo) /\ ~over
    BY <1>5 DEF ReadTurn, Doing, Done
  <2>2. known'.ask = known.ask /\ (known.gap => known'.gap)
    BY <1>1, <1>5 DEF ReadTurn, Tells
  <2>3. subscribed' /\ UNCHANGED <<mode, ask, unread, lagged, here, over>>
    BY <1>5, <2>1, Subscribed DEF ReadTurn, ring, System, client, codex
  <2> QED BY <2>1, <2>2, <2>3, FirstDone
<1>6. CASE Send
  <2>1. todo # <<>> /\ todo' = Tail(todo) /\ Head(todo).is \notin Calls
    BY <1>6 DEF Send, Sending, Done
  <2>2. subscribed' /\ UNCHANGED <<mode, ask, unread, lagged, here, over>>
    BY <1>6, <2>1, Subscribed DEF Send, Calls, ring, codex
  <2>3. /\ known.gap => known'.gap
        /\ Head(todo).is = "gap" => known'.gap
        /\ known'.ask = CASE Head(todo).is = "asked" -> TRUE
                          [] Head(todo).is = "resolved" -> FALSE
                          [] Head(todo).is = "list" -> ask = "pending"
                          [] OTHER -> known.ask
    <3>1. Sent(Head(todo))
      BY <1>6 DEF Send
    <3> DEFINE k == Head(todo).is
    <3>2. CASE k = "asked"
      BY <1>1, <3>1, <3>2 DEF Sent, Tells
    <3>3. CASE k = "resolved"
      BY <1>1, <3>1, <3>3 DEF Sent, Tells
    <3>4. CASE k = "list"
      BY <1>1, <3>1, <3>4 DEF Sent, Tells
    <3>5. CASE k \in {"gap", "end"}
      BY <1>1, <3>1, <3>5 DEF Sent, Tells
    <3>6. CASE k \notin {"asked", "resolved", "list", "gap", "end"}
      BY <3>1, <3>6 DEF Sent, told
    <3> QED BY <3>2, <3>3, <3>4, <3>5, <3>6
  <2> QED BY <2>1, <2>2, <2>3, FirstDone DEF Calls
<1>7. CASE SendFails
  <2>1. todo' = Steps(<<"return">>) /\ Head(todo).is \notin Calls /\ UNCHANGED <<mode, subscribed>>
    BY <1>7 DEF SendFails, Sending, ring, System
  <2> QED BY <2>1, Subscribed, GivesUp DEF Calls
<1>8. CASE Return
  <2>1. over' /\ todo' = <<>> /\ Head(todo).is = "return" /\ UNCHANGED <<mode, subscribed>>
    BY <1>8 DEF Return, Doing, ring, System
  <2>2. MonitorPlans' /\ ~Current'
    BY <2>1 DEF MonitorPlans, Current
  <2> QED BY <2>1, <2>2, Subscribed DEF MonitorInv, SubscribesFirst
<1> QED BY <1>3, <1>4, <1>5, <1>6, <1>7, <1>8 DEF Acts

LEMMA MonitorCodex ==
  ASSUME IInv, MonitorInv, Codex
  PROVE  MonitorInv'
<1>1. \A e \in Events : e.is \in {"delta", "end", "other", "closed"} /\ Publish(e)
        /\ UNCHANGED <<ask, Reader>> => MonitorInv'
  BY PublishedKeeps
<1>2. made + 1 \in Nat
  BY DEF IInv, Shape, TypeOK
<1>3. CASE Speak
  BY <1>1, <1>2, <1>3, PieceFacts DEF Speak
<1>4. CASE OtherTurn
  BY <1>1, <1>4, EventFacts DEF OtherTurn, codex
<1>5. CASE CloseTransport
  BY <1>1, <1>5, EventFacts DEF CloseTransport
<1>6. ASSUME NEW how \in Ended, NEW flat \in BOOLEAN, EndTurn(how, flat) PROVE MonitorInv'
  BY <1>1, <1>6, EventFacts DEF EndTurn
<1> QED BY <1>3, <1>4, <1>5, <1>6 DEF Codex

LEMMA MonitorApproving ==
  ASSUME IInv, MonitorInv, Approving
  PROVE  MonitorInv'
<1> USE DEF Published
<1>1. CASE RecordAsk \/ DecideAsk \/ WithdrawAsk
  <2>1. Event("other") \in Events /\ Event("other").is = "other"
    BY EventFacts
  <2> QED BY <1>1, <2>1, PublishedKeeps DEF RecordAsk, DecideAsk, WithdrawAsk
<1>2. CASE PublishAsk
  BY <1>2, EventFacts, PublishedKeeps DEF PublishAsk
<1>3. CASE PublishDecision
  BY <1>3, EventFacts, PublishedKeeps DEF PublishDecision
<1>4. CASE AnswerAsk
  <2>1. PICK kind \in {"resolved", "required"} : Publish(Event(kind))
    BY <1>4 DEF AnswerAsk
  <2> QED BY <1>4, <2>1, EventFacts, PublishedKeeps DEF AnswerAsk
<1> QED BY <1>1, <1>2, <1>3, <1>4 DEF Approving

LEMMA MonitorTakes ==
  ASSUME IInv, MonitorInv, mode = "monitor", Takes \/ TimeOut
  PROVE  MonitorInv'
<1>1. mode \notin Owners
  BY DEF Owners
<1>2. CASE SeesClientGone \/ ForwardGap
  <2>1. todo = <<>> /\ UNCHANGED <<mode, subscribed>>
    BY <1>2 DEF SeesClientGone, ForwardGap, Waiting, ring, System
  <2>2. todo' \in {Steps(<<"gap">>), Steps(<<"gap", "return">>), Steps(<<"return">>)}
    BY <1>2 DEF SeesClientGone, ForwardGap
  <2> QED BY <2>1, <2>2, Subscribed, GivesUp
<1> QED BY <1>1, <1>2, ForwardKnows
        DEF Takes, TimeOut, TakePiece, TakeEnd, TakeRequired, TakeApproval, Skip, TakeLoss

LEMMA MonitorNext ==
  ASSUME IInv, MonitorInv, [Next]_vars
  PROVE  MonitorInv'
<1>1. mode' = mode
  BY DEF Next, Codex, Approving, Takes, Acts, Speak, OtherTurn, CloseTransport, EndTurn, RecordAsk,
    PublishAsk, DecideAsk, PublishDecision, WithdrawAsk, AnswerAsk, Reader, TakePiece, TakeEnd,
    TakeRequired, TakeApproval, Skip, TakeLoss, SeesClientGone, Forward, ForwardGap, Heard, TimeOut,
    Subscribe, StartTurn, AskStop, Probe, ReadTurn, Send, SendFails, Return, ClientReads,
    ClientLeaves, System, vars
<1>2. CASE mode # "monitor"
  BY <1>1, <1>2 DEF MonitorInv
<1>3. CASE mode = "monitor" /\ (ClientReads \/ UNCHANGED vars)
  <2>1. UNCHANGED <<mode, ask, unread, subscribed, lagged, todo, over, known, here>>
    BY <1>3 DEF ClientReads, vars, codex, ring, told, client
  <2> QED BY <2>1 DEF MonitorInv, MonitorPlans, SubscribesFirst, Current, InOrder, WillKnow, InTodo,
            InRing
<1>4. CASE mode = "monitor" /\ ClientLeaves
  <2>1. UNCHANGED <<mode, subscribed, todo, known>> /\ here' = FALSE
    BY <1>4 DEF ClientLeaves, ring, told
  <2> QED BY <2>1 DEF MonitorInv, MonitorPlans, SubscribesFirst, Current
<1> QED BY <1>2, <1>3, <1>4, MonitorActs, MonitorCodex, MonitorApproving, MonitorTakes DEF Next

LEMMA MonitorStarts == Init => MonitorInv
<1> SUFFICES ASSUME Init, mode = "monitor"
             PROVE  MonitorPlans /\ SubscribesFirst /\ InOrder /\ WillKnow
  BY DEF MonitorInv
<1>1. /\ todo = Opening("monitor") /\ unread = <<>> /\ ask = "none" /\ ~known.ask
  BY DEF Init
<1>2. \A i \in DOMAIN todo : todo[i].is \notin {"asked", "resolved"}
  BY <1>1, MonitorOpens
<1> QED BY <1>1, <1>2, MonitorOpens DEF SubscribesFirst, InOrder, WillKnow, InTodo, InRing

\* A monitor that is up to date and reported no gap shows its client the approval
\* that is pending and none that was decided, wherever the question and the
\* decision fall between the subscription, the snapshot, the list and the events.
THEOREM MonitorIsCurrent == Spec => []MonitorKnowsPending
<1>1. IInv /\ MonitorInv /\ [Next]_vars => MonitorInv'
  BY MonitorNext
<1>2. Spec => []MonitorInv
  BY <1>1, MonitorStarts, Invariant, PTL DEF Spec
<1>3. MonitorInv => MonitorKnowsPending
  BY DEF MonitorInv, MonitorKnowsPending, Current, WillKnow, Waiting, InTodo, InRing
<1> QED BY <1>2, <1>3, PTL
=============================================================================
