------------------------- MODULE LedgerDocumentsProofs -------------------------
(***************************************************************************)
(* Theorems about LedgerDocuments, for any finite set of documents, any    *)
(* number of requests, any interval and any number of days.                *)
(*                                                                         *)
(* A request is described by Lawful, from what it has read, saved and      *)
(* entered and from what is committed.  A step of one request leaves       *)
(* everything committed alone (LocalStep) until it commits (WrittenStep).  *)
(***************************************************************************)
EXTENDS LedgerDocuments, FiniteSetTheorems, SequenceTheorems, TLAPS

StageOf(w) == Stages(w.op)[w.pc]

Left(w) == ToSet(w.todo)

Distinct(s) == \A i, j \in DOMAIN s : s[i] = s[j] => i = j

SavesFirst == {"approve_and_enter", "reconcile_and_enter"}

Enters == SavesFirst \cup {"attach_and_enter", "post", "generate"}

KeyOf(d) == IF kind = "recurring" THEN <<d, day>> ELSE <<d>>

\* An entry is there or was.
Known(d) == (\E e \in entries : e.doc = d) \/ d \in deleted

\* Only an offering that is reconciled is wanted in the journal.
Plain(r) == r.wanted => r.status = "RECONCILED"

-----------------------------------------------------------------------------
(* What is true of a request.                                              *)

Shape(w) ==
    /\ w \in Requests
    /\ w.op = None => w = Idle
    /\ w.op # None => w.op \in OpsOf(kind)
    /\ w.op = "reschedule" => w.date \in Dates
    /\ Distinct(w.todo)
    /\ w.todo # <<>> => w.pc <= Len(Stages(w.op))

\* What it has read allows what it does.
Sight(w) ==
    \A d \in Docs :
        /\ Plain(w.seen[d])
        /\ d \in Left(w) \/ w.saved[d] # None =>
               /\ w.seen[d].status \in StartsFrom(w.op)
               /\ w.op = "generate" => w.seen[d].due <= day

\* What it has saved comes from what it has read, and nobody has saved it since.
Saves(w) ==
    \A d \in Docs : w.saved[d] # None =>
        /\ w.saved[d] = Saved(w.op, w.seen[d], w.date)
        /\ rows[d] = w.seen[d] \/ d \in clashed
        /\ w.op = "reschedule" => d \in clashed

\* What it has entered is new, once per document.
News(w) ==
    /\ \A e \in w.new : w.op \in Enters /\ e.key = KeyOf(e.doc) /\ e.day = day
    /\ \A e \in w.new, f \in entries : e.key # f.key
    /\ \A e, f \in w.new : e.key = f.key => e = f

\* The documents that are still to come.
ToCome(w) ==
    \A d \in Left(w) :
        /\ d # At(w) => w.saved[d] = None /\ \A e \in w.new : e.doc # d
        /\ w.op \notin SavesFirst => w.saved[d] = None

\* The document in hand, by the stage it is at.
InHand(w) ==
    LET st == StageOf(w)
    IN  w.todo # <<>> =>
            /\ \A e \in w.new : e.doc = At(w) => /\ st \in {"lines", "save"}
                                                 /\ st = "save" => e.lines /\ w.op \notin SavesFirst
            /\ w.op = "approve_and_enter" /\ st \in {"enter", "lines"} => w.saved[At(w)] # None
            /\ w.op = "reconcile_and_enter" /\ st # "save" => w.saved[At(w)] # None
            /\ w.op = "approve_and_enter" /\ st \in {"save", "enter"}
                   => w.allowed \/ At(w) \in w.found
            /\ w.op = "reconcile_and_enter" /\ st = "enter" => w.allowed \/ At(w) \in w.found
            /\ w.op \in SavesFirst /\ st = "lines" => \E e \in w.new : e.doc = At(w)
            /\ w.op = "post" /\ st \in {"lines", "save"} => \E e \in w.new : e.doc = At(w)

\* A document it has finished: what it entered is complete and belongs to an
\* agreed document, and what it agreed to has its entry.
Done(w, d) ==
    /\ \A e \in w.new : e.doc = d => /\ e.lines
                                     /\ w.saved[d] # None
                                     /\ w.saved[d].status = AgreedStatus
    /\ w.saved[d] # None /\ w.op \in SavesFirst \cup {"post"} =>
           (\E e \in w.new : e.doc = d) \/ Known(d)

Finished(w) == \A d \in Docs \ Left(w) : Done(w, d)

Found(w) == kind # "recurring" => \A d \in w.found : Known(d)

Besides(w) ==
    Shape(w) /\ Sight(w) /\ News(w) /\ ToCome(w) /\ InHand(w) /\ Finished(w) /\ Found(w)

Lawful(w) == Saves(w) /\ Besides(w)

\* No two requests have saved one document or entered one key.
Apart(v, w) ==
    /\ \A d \in Docs : v.saved[d] = None \/ w.saved[d] = None
    /\ \A e \in v.new, f \in w.new : e.key # f.key

-----------------------------------------------------------------------------
(* What is true of what is committed.                                      *)

Keyed ==
    /\ \A e \in entries : /\ e.key = IF kind = "recurring" THEN <<e.doc, e.day>> ELSE <<e.doc>>
                          /\ e.day <= day
    /\ \A e, f \in entries : e.key = f.key => e = f

Kept == \A d \in Docs : Plain(rows[d]) /\ (MustHaveEntry(d) => Known(d) \/ d \in torn)

\* The next date is an interval after every entry there is.
Ahead ==
    kind = "recurring" =>
        \A e \in entries : rows[e.doc].due - e.day >= Interval \/ e.doc \in clashed

Committed ==
    /\ TypeOK /\ Keyed /\ Kept /\ EntryOfAgreed /\ Ahead /\ SpacedOut

Inv ==
    /\ Committed
    /\ \A h \in Handlers : Lawful(work[h])
    /\ \A g, h \in Handlers : g # h => Apart(work[g], work[h])

-----------------------------------------------------------------------------
(* Stages and the documents in a batch.                                    *)

LEMMA StagesOf ==
    /\ Stages("approve_and_enter") = <<"check", "save", "enter", "lines">>
    /\ Stages("attach_and_enter") = <<"check", "enter", "lines", "save">>
    /\ Stages("reconcile_and_enter") = <<"save", "check", "enter", "lines">>
    /\ Stages("post") = <<"check", "enter", "lines", "save">>
    /\ Stages("generate") = <<"check", "enter", "save">>
    /\ \A op \in Ops \ Enters : Stages(op) = <<"save">>
BY DEF Stages, Ops, OpsOf, Kinds, Enters, SavesFirst

\* The stages by their place.
LEMMA StageAt ==
    /\ LET s == Stages("approve_and_enter")
       IN  /\ s[1] = "check" /\ s[2] = "save" /\ s[3] = "enter"
           /\ s[4] = "lines" /\ Len(s) = 4
    /\ LET s == Stages("attach_and_enter")
       IN  /\ s[1] = "check" /\ s[2] = "enter" /\ s[3] = "lines"
           /\ s[4] = "save" /\ Len(s) = 4
    /\ LET s == Stages("reconcile_and_enter")
       IN  /\ s[1] = "save" /\ s[2] = "check" /\ s[3] = "enter"
           /\ s[4] = "lines" /\ Len(s) = 4
    /\ LET s == Stages("post")
       IN  /\ s[1] = "check" /\ s[2] = "enter" /\ s[3] = "lines"
           /\ s[4] = "save" /\ Len(s) = 4
    /\ LET s == Stages("generate")
       IN  /\ s[1] = "check" /\ s[2] = "enter" /\ s[3] = "save"
           /\ Len(s) = 3
BY StagesOf

LEMMA OpsOfKind ==
    /\ \A k \in Kinds : OpsOf(k) \subseteq Ops
    /\ \A op \in Ops : Len(Stages(op)) \in 1 .. 4 /\ LoopsTo(op) <= Len(Stages(op))
<1>1. \A k \in Kinds : OpsOf(k) \subseteq Ops
  BY DEF Ops
<1>2. ASSUME NEW op \in Ops
      PROVE  Len(Stages(op)) \in 1 .. 4 /\ LoopsTo(op) <= Len(Stages(op))
  <2>1. CASE op \in Ops \ Enters
    <3>1. Stages(op) = <<"save">> /\ op # "post"
      BY <2>1, StagesOf DEF Enters
    <3>2. Len(Stages(op)) = 1 /\ LoopsTo(op) = 1
      BY <3>1 DEF LoopsTo
    <3>3. QED BY <3>2
  <2>2. CASE op \in {"approve_and_enter", "attach_and_enter", "reconcile_and_enter", "post"}
    <3>1. /\ Len(Stages("approve_and_enter")) = 4 /\ Len(Stages("attach_and_enter")) = 4
          /\ Len(Stages("reconcile_and_enter")) = 4 /\ Len(Stages("post")) = 4
      BY StagesOf
    <3>2. Len(Stages(op)) = 4
      BY <2>2, <3>1
    <3>3. QED BY <3>2 DEF LoopsTo
  <2>3. CASE op = "generate"
    <3>1. Len(Stages(op)) = 3
      BY <2>3, StagesOf
    <3>2. QED BY <3>1, <2>3 DEF LoopsTo
  <2>4. QED BY <2>1, <2>2, <2>3 DEF Enters, SavesFirst
<1>3. QED BY <1>1, <1>2

LEMMA TailFacts ==
    ASSUME NEW s \in Seq(Docs), s # <<>>, Distinct(s)
    PROVE  /\ Head(s) \in ToSet(s) /\ ToSet(s) \subseteq Docs
           /\ Tail(s) \in Seq(Docs) /\ Distinct(Tail(s))
           /\ ToSet(Tail(s)) = ToSet(s) \ {Head(s)}
<1>1. Len(s) \in Nat /\ Len(s) > 0 /\ DOMAIN s = 1 .. Len(s) /\ Head(s) = s[1]
  OBVIOUS
<1>2. /\ Tail(s) \in Seq(Docs) /\ Len(Tail(s)) = Len(s) - 1
      /\ DOMAIN Tail(s) = 1 .. Len(s) - 1
      /\ \A i \in 1 .. Len(s) - 1 : Tail(s)[i] = s[i + 1]
  BY <1>1
<1>3. Distinct(Tail(s))
  BY <1>1, <1>2 DEF Distinct
<1>4. ToSet(Tail(s)) = {s[i] : i \in 2 .. Len(s)}
  <2>1. \A i \in 2 .. Len(s) : i - 1 \in 1 .. Len(s) - 1 /\ Tail(s)[i - 1] = s[i]
    BY <1>1, <1>2
  <2>2. \A i \in 1 .. Len(s) - 1 : i + 1 \in 2 .. Len(s)
    BY <1>1
  <2>3. ToSet(Tail(s)) = {Tail(s)[i] : i \in 1 .. Len(s) - 1}
    BY <1>2 DEF ToSet
  <2>4. ASSUME NEW d PROVE d \in ToSet(Tail(s)) <=> d \in {s[i] : i \in 2 .. Len(s)}
    <3>1. d \in ToSet(Tail(s)) <=> \E i \in 1 .. Len(s) - 1 : Tail(s)[i] = d
      BY <2>3
    <3>2. (\E i \in 1 .. Len(s) - 1 : Tail(s)[i] = d) <=> \E i \in 2 .. Len(s) : s[i] = d
      BY <1>2, <2>1, <2>2
    <3>3. QED BY <3>1, <3>2
  <2>5. QED BY <2>4
<1>5. ToSet(s) \ {s[1]} = {s[i] : i \in 2 .. Len(s)}
  BY <1>1 DEF ToSet, Distinct
<1>6. s[1] \in ToSet(s) /\ ToSet(s) \subseteq Docs
  BY <1>1 DEF ToSet
<1>7. QED BY <1>1, <1>2, <1>3, <1>4, <1>5, <1>6

LEMMA NoneLeft ==
    ASSUME NEW s \in Seq(Docs)
    PROVE  ToSet(s) \subseteq Docs /\ (s = <<>> <=> ToSet(s) = {})
<1>1. Len(s) \in Nat /\ DOMAIN s = 1 .. Len(s) /\ \A i \in DOMAIN s : s[i] \in Docs
  OBVIOUS
<1>2. s = <<>> => ToSet(s) = {}
  BY DEF ToSet
<1>3. s # <<>> => s[1] \in ToSet(s)
  BY <1>1 DEF ToSet
<1>4. QED BY <1>1, <1>2, <1>3 DEF ToSet

\* What the record of a request is after its document is finished.
LEMMA NextDocFacts ==
    ASSUME NEW w \in Requests, w.op \in Ops, w.todo # <<>>, Distinct(w.todo)
    PROVE  /\ NextDoc(w) \in Requests
           /\ NextDoc(w).op = w.op /\ NextDoc(w).seen = w.seen /\ NextDoc(w).saved = w.saved
           /\ NextDoc(w).new = w.new /\ NextDoc(w).date = w.date
           /\ NextDoc(w).allowed = w.allowed /\ NextDoc(w).found = w.found \ {At(w)}
           /\ NextDoc(w).todo = Tail(w.todo) /\ NextDoc(w).pc = LoopsTo(w.op)
           /\ Left(NextDoc(w)) = Left(w) \ {At(w)} /\ Distinct(NextDoc(w).todo)
           /\ At(w) \in Left(w) /\ Left(w) \subseteq Docs
<1> DEFINE x == NextDoc(w)
<1>1. w.todo \in Seq(Docs)
  BY DEF Requests
<1>2. /\ x.op = w.op /\ x.seen = w.seen /\ x.saved = w.saved /\ x.new = w.new
      /\ x.date = w.date /\ x.allowed = w.allowed /\ x.found = w.found \ {At(w)}
      /\ x.todo = Tail(w.todo) /\ x.pc = LoopsTo(w.op)
  BY DEF NextDoc, Requests
<1>3. Tail(w.todo) \in Seq(Docs) /\ LoopsTo(w.op) \in 1 .. 4
  BY <1>1, TailFacts DEF LoopsTo
<1>4. x \in Requests
  BY <1>3 DEF NextDoc, Requests
<1>5. QED BY <1>1, <1>2, <1>4, TailFacts DEF Left, At

\* The first stage of a document is nothing that needs an earlier one.
LEMMA FirstStage ==
    ASSUME NEW op \in Ops
    PROVE  LET first == Stages(op)[LoopsTo(op)]
           IN  /\ first # "lines"
               /\ op = "approve_and_enter" => first = "check"
               /\ op = "reconcile_and_enter" => first = "save"
               /\ op = "post" => first = "enter"
<1>1. CASE op \in Ops \ Enters
  <2>1. Stages(op) = <<"save">> /\ LoopsTo(op) = 1
    BY <1>1, StagesOf DEF Enters, LoopsTo
  <2>2. Stages(op)[LoopsTo(op)] = "save"
    BY <2>1
  <2>3. QED BY <2>2, <1>1 DEF Enters, SavesFirst
<1>2. CASE op = "post"
  <2>1. LoopsTo(op) = 2
    BY <1>2 DEF LoopsTo
  <2>2. QED BY <1>2, <2>1, StageAt
<1>3. CASE op \in Enters \ {"post"}
  <2>1. LoopsTo(op) = 1
    BY <1>3 DEF LoopsTo
  <2>2. QED BY <1>3, <2>1, StageAt DEF Enters, SavesFirst
<1>4. QED BY <1>1, <1>2, <1>3

\* When the document in hand is done, the request goes on with the next one.
LEMMA FinishDoc ==
    ASSUME NEW w, Shape(w), Sight(w), News(w), Finished(w), Found(w),
           kind \in Kinds, w.op # None, w.todo # <<>>,
           \A d \in Left(w) \ {At(w)} : w.saved[d] = None /\ \A e \in w.new : e.doc # d,
           Done(w, At(w))
    PROVE  Besides(NextDoc(w))
<1> DEFINE x == NextDoc(w)
<1>1. w \in Requests /\ w.op \in OpsOf(kind) /\ w.op \in Ops /\ Distinct(w.todo)
  BY OpsOfKind DEF Shape
<1>2. /\ x \in Requests /\ x.op = w.op /\ x.seen = w.seen /\ x.saved = w.saved
      /\ x.new = w.new /\ x.date = w.date /\ x.allowed = w.allowed
      /\ x.found = w.found \ {At(w)} /\ x.pc = LoopsTo(w.op)
      /\ Left(x) = Left(w) \ {At(w)} /\ Distinct(x.todo)
      /\ At(w) \in Left(w) /\ Left(w) \subseteq Docs
  BY <1>1, NextDocFacts
<1> HIDE DEF x
<1>3. Shape(x)
  BY <1>1, <1>2, OpsOfKind DEF Shape
<1>4. Sight(x)
  BY <1>2 DEF Sight
<1>5. News(x)
  BY <1>2 DEF News
<1>6. ToCome(x)
  BY <1>2 DEF ToCome
<1>7. InHand(x)
  <2>1. CASE x.todo = <<>>
    BY <2>1 DEF InHand
  <2>2. CASE x.todo # <<>>
    <3>1. At(x) \in Left(x)
      BY <2>2, <1>2, TailFacts DEF Left, At, Requests
    <3>2. \A e \in x.new : e.doc # At(x)
      BY <3>1, <1>2
    <3>3. /\ StageOf(x) # "lines"
          /\ x.op = "approve_and_enter" => StageOf(x) = "check"
          /\ x.op = "reconcile_and_enter" => StageOf(x) = "save"
          /\ x.op = "post" => StageOf(x) = "enter"
      BY <1>1, <1>2, FirstStage DEF StageOf
    <3>4. QED BY <3>2, <3>3 DEF InHand, SavesFirst
  <2>3. QED BY <2>1, <2>2
<1>8. Finished(x)
  BY <1>2 DEF Finished, Done
<1>9. Found(x)
  BY <1>2 DEF Found
<1>10. Besides(x)
  BY <1>3, <1>4, <1>5, <1>6, <1>7, <1>8, <1>9 DEF Besides
<1>11. QED BY <1>10 DEF x

-----------------------------------------------------------------------------
(* Steps that commit nothing.                                              *)

\* Nothing is said of a request but in terms of it and of what is committed.
LEMMA SteadyRequest ==
    ASSUME NEW w, Besides(w), kind \in Kinds, None \notin Ops, UNCHANGED <<kind, day>>,
           kind # "recurring" => \A d \in Docs : Known(d) => Known(d)',
           \A e \in w.new, f \in entries' : e.key # f.key
    PROVE  Besides(w)'
<1>1. Shape(w)' BY DEF Besides, Shape
<1>2. Sight(w)' BY DEF Besides, Sight, Plain
<1>3. News(w)' BY DEF Besides, News, KeyOf
<1>4. ToCome(w)' BY DEF Besides, ToCome
<1>5. InHand(w)' BY DEF Besides, InHand
<1>6. Finished(w)'
  <2>1. w.op \in SavesFirst \cup {"post"} => kind # "recurring"
    <3>1. w.op # None => w.op \in OpsOf(kind)
      BY DEF Besides, Shape
    <3>2. w.op \in SavesFirst \cup {"post"} => w.op \in Ops
      BY DEF SavesFirst, Ops, OpsOf, Kinds
    <3>3. QED BY <3>1, <3>2 DEF OpsOf, SavesFirst
  <2>2. ASSUME NEW d \in Docs \ Left(w) PROVE Done(w, d)'
    BY <2>1, <2>2 DEF Besides, Finished, Done, AgreedStatus
  <2>3. QED BY <2>2 DEF Finished
<1>7. Found(w)'
  BY DEF Besides, Found, Shape, Requests
<1>8. QED BY <1>1, <1>2, <1>3, <1>4, <1>5, <1>6, <1>7 DEF Besides

LEMMA SteadySaves ==
    ASSUME NEW w, Saves(w), UNCHANGED <<rows, day>>, clashed \subseteq clashed'
    PROVE  Saves(w)'
BY DEF Saves, Saved, NextDue

\* A step of one request that commits nothing.
LEMMA LocalStep ==
    ASSUME Inv, NEW h \in Handlers, NEW x, work' = [work EXCEPT ![h] = x],
           UNCHANGED <<kind, rows, entries, open, day, torn, deleted>>,
           clashed \subseteq clashed', clashed' \subseteq Docs,
           Besides(x), Saves(x)', \A g \in Handlers \ {h} : Apart(x, work[g])
    PROVE  Inv'
<1>1. x \in Requests
  BY DEF Besides, Shape
<1>2. \A g \in Handlers : work'[g] = IF g = h THEN x ELSE work[g]
  BY DEF Inv, Committed, TypeOK
<1>3. TypeOK'
  BY <1>1 DEF Inv, Committed, TypeOK
<1>4. \A d : MustHaveEntry(d)' = MustHaveEntry(d) /\ Known(d)' = Known(d)
  BY DEF MustHaveEntry, Known
<1>5. Keyed' /\ Kept'
  BY <1>4 DEF Inv, Committed, Keyed, Kept, Plain
<1>6. EntryOfAgreed' /\ Ahead' /\ SpacedOut'
  BY DEF Inv, Committed, EntryOfAgreed, AgreedStatus, Ahead, SpacedOut
<1>7. ASSUME NEW g \in Handlers PROVE Lawful(work[g])'
  <2>1. CASE g = h
    <3>1. Besides(x)'
      BY <1>4, NoneAssumption, SteadyRequest DEF Inv, Committed, TypeOK, Besides, News
    <3>2. QED BY <3>1, <1>2, <2>1 DEF Lawful
  <2>2. CASE g # h
    <3>1. PICK v : v = work[g]
      OBVIOUS
    <3>2. Besides(v) /\ Saves(v)
      BY <3>1 DEF Inv, Lawful
    <3>3. Besides(v)'
      BY <1>4, <3>2, NoneAssumption, SteadyRequest DEF Inv, Committed, TypeOK, Besides, News
    <3>4. Saves(v)'
      BY <3>2, SteadySaves
    <3>5. QED BY <3>1, <3>3, <3>4, <1>2, <2>2 DEF Lawful
  <2>3. QED BY <2>1, <2>2
<1>8. ASSUME NEW g \in Handlers, NEW k \in Handlers, g # k
      PROVE  Apart(work'[g], work'[k])
  <2>1. CASE g # h /\ k # h
    BY <2>1, <1>2, <1>8 DEF Inv
  <2>2. CASE g = h
    BY <2>2, <1>2, <1>8
  <2>3. CASE k = h
    <3>1. Apart(x, work[g])
      BY <2>3, <1>8
    <3>2. Apart(work[g], x)
      BY <3>1 DEF Apart
    <3>3. QED BY <3>2, <2>3, <1>2, <1>8
  <2>4. QED BY <2>1, <2>2, <2>3
<1>9. (\A g, k \in Handlers : g # k => Apart(work[g], work[k]))'
  BY <1>8 DEF Apart
<1>10. QED BY ONLY <1>3, <1>5, <1>6, <1>7, <1>9 DEF Inv, Committed

\* A step of one request that saves nothing and enters nothing.
LEMMA QuietStep ==
    ASSUME Inv, NEW h \in Handlers, NEW x, work' = [work EXCEPT ![h] = x],
           UNCHANGED <<kind, rows, entries, open, day, clashed, torn, deleted>>,
           Besides(x), Saves(x),
           \A d \in Docs : x.saved[d] = None \/ x.saved[d] = work[h].saved[d],
           \A e \in x.new : \E f \in work[h].new : f.key = e.key
    PROVE  Inv'
<1>1. Saves(x)'
  BY SteadySaves
<1>2. \A g \in Handlers \ {h} : Apart(x, work[g])
  BY DEF Inv, Apart
<1>3. clashed' \subseteq Docs
  BY DEF Inv, Committed, TypeOK
<1>4. QED BY <1>1, <1>2, <1>3, LocalStep

-----------------------------------------------------------------------------
(* What comes after a stage.                                               *)

LEMMA Following ==
    ASSUME NEW op \in Ops, NEW i \in 1 .. Len(Stages(op))
    PROVE  LET st == Stages(op)[i]
               after == Stages(op)[i + 1]
           IN  /\ st = "check" =>
                    /\ op \in Enters /\ i < Len(Stages(op))
                    /\ after = IF op = "approve_and_enter" THEN "save" ELSE "enter"
               /\ st = "save" /\ op \in SavesFirst =>
                    /\ i < Len(Stages(op))
                    /\ after = IF op = "approve_and_enter" THEN "enter" ELSE "check"
               /\ st = "save" /\ op \notin SavesFirst => i = Len(Stages(op))
               /\ st = "enter" =>
                    /\ op \in Enters /\ i < Len(Stages(op))
                    /\ after = IF op = "generate" THEN "save" ELSE "lines"
               /\ st = "enter" /\ op = "attach_and_enter" =>
                    /\ i + 2 <= Len(Stages(op))
                    /\ Stages(op)[i + 2] = "save"
               /\ st = "lines" => op \in Enters \ {"generate"}
               /\ st = "lines" /\ op \in SavesFirst => i = Len(Stages(op))
               /\ st = "lines" /\ op \notin SavesFirst => i < Len(Stages(op)) /\ after = "save"
<1>1. CASE op \in Ops \ Enters
  <2>1. Stages(op) = <<"save">>
    BY <1>1, StagesOf
  <2>2. Len(Stages(op)) = 1 /\ i = 1 /\ Stages(op)[1] = "save"
    BY <2>1
  <2>3. QED BY <1>1, <2>2 DEF Enters
<1>2. CASE op = "approve_and_enter"
  <2>1. LET s == Stages(op)
        IN  /\ s[1] = "check" /\ s[2] = "save" /\ s[3] = "enter"
            /\ s[4] = "lines" /\ Len(s) = 4
    BY ONLY <1>2, StageAt, Zenon
  <2>2. i \in {1, 2, 3, 4}
    BY <2>1
  <2>3. CASE i = 1
    <3>1. i + 1 = 2 /\ i + 2 = 3
      BY ONLY <2>3
    <3>2. QED BY ONLY <1>2, <2>1, <2>3, <3>1 DEF Enters, SavesFirst
  <2>4. CASE i = 2
    <3>1. i + 1 = 3 /\ i + 2 = 4
      BY ONLY <2>4
    <3>2. QED BY ONLY <1>2, <2>1, <2>4, <3>1 DEF Enters, SavesFirst
  <2>5. CASE i = 3
    <3>1. i + 1 = 4 /\ i + 2 = 5
      BY ONLY <2>5
    <3>2. QED BY ONLY <1>2, <2>1, <2>5, <3>1 DEF Enters, SavesFirst
  <2>6. CASE i = 4
    <3>1. i + 1 = 5 /\ i + 2 = 6
      BY ONLY <2>6
    <3>2. QED BY ONLY <1>2, <2>1, <2>6, <3>1 DEF Enters, SavesFirst
  <2>7. QED BY ONLY <2>2, <2>3, <2>4, <2>5, <2>6
<1>3. CASE op = "attach_and_enter"
  <2>1. LET s == Stages(op)
        IN  /\ s[1] = "check" /\ s[2] = "enter" /\ s[3] = "lines"
            /\ s[4] = "save" /\ Len(s) = 4
    BY ONLY <1>3, StageAt, Zenon
  <2>2. i \in {1, 2, 3, 4}
    BY <2>1
  <2>3. CASE i = 1
    <3>1. i + 1 = 2 /\ i + 2 = 3
      BY ONLY <2>3
    <3>2. QED BY ONLY <1>3, <2>1, <2>3, <3>1 DEF Enters, SavesFirst
  <2>4. CASE i = 2
    <3>1. i + 1 = 3 /\ i + 2 = 4
      BY ONLY <2>4
    <3>2. QED BY ONLY <1>3, <2>1, <2>4, <3>1 DEF Enters, SavesFirst
  <2>5. CASE i = 3
    <3>1. i + 1 = 4 /\ i + 2 = 5
      BY ONLY <2>5
    <3>2. QED BY ONLY <1>3, <2>1, <2>5, <3>1 DEF Enters, SavesFirst
  <2>6. CASE i = 4
    <3>1. i + 1 = 5 /\ i + 2 = 6
      BY ONLY <2>6
    <3>2. QED BY ONLY <1>3, <2>1, <2>6, <3>1 DEF Enters, SavesFirst
  <2>7. QED BY ONLY <2>2, <2>3, <2>4, <2>5, <2>6
<1>4. CASE op = "reconcile_and_enter"
  <2>1. LET s == Stages(op)
        IN  /\ s[1] = "save" /\ s[2] = "check" /\ s[3] = "enter"
            /\ s[4] = "lines" /\ Len(s) = 4
    BY ONLY <1>4, StageAt, Zenon
  <2>2. i \in {1, 2, 3, 4}
    BY <2>1
  <2>3. CASE i = 1
    <3>1. i + 1 = 2 /\ i + 2 = 3
      BY ONLY <2>3
    <3>2. QED BY ONLY <1>4, <2>1, <2>3, <3>1 DEF Enters, SavesFirst
  <2>4. CASE i = 2
    <3>1. i + 1 = 3 /\ i + 2 = 4
      BY ONLY <2>4
    <3>2. QED BY ONLY <1>4, <2>1, <2>4, <3>1 DEF Enters, SavesFirst
  <2>5. CASE i = 3
    <3>1. i + 1 = 4 /\ i + 2 = 5
      BY ONLY <2>5
    <3>2. QED BY ONLY <1>4, <2>1, <2>5, <3>1 DEF Enters, SavesFirst
  <2>6. CASE i = 4
    <3>1. i + 1 = 5 /\ i + 2 = 6
      BY ONLY <2>6
    <3>2. QED BY ONLY <1>4, <2>1, <2>6, <3>1 DEF Enters, SavesFirst
  <2>7. QED BY ONLY <2>2, <2>3, <2>4, <2>5, <2>6
<1>5. CASE op = "post"
  <2>1. LET s == Stages(op)
        IN  /\ s[1] = "check" /\ s[2] = "enter" /\ s[3] = "lines"
            /\ s[4] = "save" /\ Len(s) = 4
    BY ONLY <1>5, StageAt, Zenon
  <2>2. i \in {1, 2, 3, 4}
    BY <2>1
  <2>3. CASE i = 1
    <3>1. i + 1 = 2 /\ i + 2 = 3
      BY ONLY <2>3
    <3>2. QED BY ONLY <1>5, <2>1, <2>3, <3>1 DEF Enters, SavesFirst
  <2>4. CASE i = 2
    <3>1. i + 1 = 3 /\ i + 2 = 4
      BY ONLY <2>4
    <3>2. QED BY ONLY <1>5, <2>1, <2>4, <3>1 DEF Enters, SavesFirst
  <2>5. CASE i = 3
    <3>1. i + 1 = 4 /\ i + 2 = 5
      BY ONLY <2>5
    <3>2. QED BY ONLY <1>5, <2>1, <2>5, <3>1 DEF Enters, SavesFirst
  <2>6. CASE i = 4
    <3>1. i + 1 = 5 /\ i + 2 = 6
      BY ONLY <2>6
    <3>2. QED BY ONLY <1>5, <2>1, <2>6, <3>1 DEF Enters, SavesFirst
  <2>7. QED BY ONLY <2>2, <2>3, <2>4, <2>5, <2>6
<1>6. CASE op = "generate"
  <2>1. LET s == Stages(op) IN s[1] = "check" /\ s[2] = "enter" /\ s[3] = "save" /\ Len(s) = 3
    BY ONLY <1>6, StageAt, Zenon
  <2>2. i \in {1, 2, 3}
    BY <2>1
  <2>3. CASE i = 1
    <3>1. i + 1 = 2 /\ i + 2 = 3
      BY ONLY <2>3
    <3>2. QED BY ONLY <1>6, <2>1, <2>3, <3>1 DEF Enters, SavesFirst
  <2>4. CASE i = 2
    <3>1. i + 1 = 3 /\ i + 2 = 4
      BY ONLY <2>4
    <3>2. QED BY ONLY <1>6, <2>1, <2>4, <3>1 DEF Enters, SavesFirst
  <2>5. CASE i = 3
    <3>1. i + 1 = 4 /\ i + 2 = 5
      BY ONLY <2>5
    <3>2. QED BY ONLY <1>6, <2>1, <2>5, <3>1 DEF Enters, SavesFirst
  <2>6. QED BY ONLY <2>2, <2>3, <2>4, <2>5
<1>7. QED BY <1>1, <1>2, <1>3, <1>4, <1>5, <1>6 DEF Enters, SavesFirst

\* What the record of a request is after a stage.
LEMMA AfterFacts ==
    ASSUME NEW w \in Requests, w.op \in Ops, w.pc <= Len(Stages(w.op))
    PROVE  /\ w.pc = Len(Stages(w.op)) => After(w) = NextDoc(w)
           /\ w.pc < Len(Stages(w.op)) =>
                LET x == After(w)
                IN  /\ x \in Requests /\ x.pc = w.pc + 1 /\ x.pc <= Len(Stages(x.op))
                    /\ x.op = w.op /\ x.todo = w.todo /\ x.seen = w.seen
                    /\ x.found = w.found /\ x.allowed = w.allowed /\ x.saved = w.saved
                    /\ x.new = w.new /\ x.date = w.date
                    /\ Left(x) = Left(w) /\ At(x) = At(w)
                    /\ StageOf(x) = Stages(w.op)[w.pc + 1]
<1>1. Len(Stages(w.op)) \in 1 .. 4 /\ w.pc \in 1 .. 4
  BY OpsOfKind DEF Requests
<1>2. w.pc = Len(Stages(w.op)) => After(w) = NextDoc(w)
  BY DEF After
<1>3. ASSUME w.pc < Len(Stages(w.op)), NEW x, x = After(w)
      PROVE  /\ x \in Requests /\ x.pc = w.pc + 1 /\ x.pc <= Len(Stages(x.op))
             /\ x.op = w.op /\ x.todo = w.todo /\ x.seen = w.seen
             /\ x.found = w.found /\ x.allowed = w.allowed /\ x.saved = w.saved
             /\ x.new = w.new /\ x.date = w.date
  <2>1. x = [w EXCEPT !.pc = @ + 1]
    BY <1>1, <1>3 DEF After
  <2>2. w.pc + 1 \in 1 .. 4
    <3>1. \A m, n \in 1 .. 4 : m < n => m + 1 \in 1 .. 4
      OBVIOUS
    <3>2. QED BY <1>1, <1>3, <3>1
  <2>3. x \in Requests /\ x.pc = w.pc + 1 /\ x.op = w.op
    BY <2>1, <2>2 DEF Requests
  <2>4. /\ x.todo = w.todo /\ x.seen = w.seen /\ x.found = w.found /\ x.allowed = w.allowed
        /\ x.saved = w.saved /\ x.new = w.new /\ x.date = w.date
    BY <2>1 DEF Requests
  <2>5. QED BY <1>1, <1>3, <2>3, <2>4
<1>4. QED BY <1>2, <1>3 DEF Left, At, StageOf

\* What a request saves.
LEMMA SavedFacts ==
    ASSUME NEW op \in Ops, NEW r \in Rows, NEW date \in Dates \cup {None},
           op = "reschedule" => date \in Dates, day \in Nat,
           r.status \in StartsFrom(op)
    PROVE  LET s == Saved(op, r, date)
           IN  /\ s \in Rows /\ s # None
               /\ s.wanted => r.wanted \/ op = "reconcile_and_enter"
               /\ op = "reconcile_and_enter" => s.status = "RECONCILED"
               /\ op = "approve_and_enter" => s.status = "APPROVED"
               /\ op = "attach_and_enter" => s.status = "APPROVED"
               /\ op = "post" => s.status = "POSTED"
               /\ op \in {"reschedule", "stop", "generate"} => s.status = "PENDING"
               /\ op = "attach_proof" => s.status = r.status
               /\ s.status = "POSTED" => op = "post"
               /\ op = "reject" => s.status = "REJECTED"
               /\ op = "generate" => s.due = day + Interval
               /\ op = "stop" => s.due = r.due
<1>1. ASSUME NEW x \in Statuses, NEW s, s = [r EXCEPT !.status = x]
      PROVE  s \in Rows /\ s # None /\ s.status = x /\ s.wanted = r.wanted /\ s.due = r.due
  BY <1>1, NoneAssumption DEF Rows
<1>2. r \in Rows /\ r # None
  BY NoneAssumption
<1>3. CASE op = "approve"
  <2>1. Saved(op, r, date) = [r EXCEPT !.status = "APPROVED"]
    BY <1>3 DEF Saved
  <2>2. QED BY <1>3, <2>1, <1>1 DEF Statuses
<1>4. CASE op = "approve_and_enter"
  <2>1. Saved(op, r, date) = [r EXCEPT !.status = "APPROVED"]
    BY <1>4 DEF Saved
  <2>2. QED BY <1>4, <2>1, <1>1 DEF Statuses
<1>5. CASE op = "reject"
  <2>1. Saved(op, r, date) = [r EXCEPT !.status = "REJECTED"]
    BY <1>5 DEF Saved
  <2>2. QED BY <1>5, <2>1, <1>1 DEF Statuses
<1>6. CASE op = "reconcile"
  <2>1. Saved(op, r, date) = [r EXCEPT !.status = "RECONCILED"]
    BY <1>6 DEF Saved
  <2>2. QED BY <1>6, <2>1, <1>1 DEF Statuses
<1>7. CASE op = "confirm"
  <2>1. Saved(op, r, date) = [r EXCEPT !.status = "CONFIRMED"]
    BY <1>7 DEF Saved
  <2>2. QED BY <1>7, <2>1, <1>1 DEF Statuses
<1>8. CASE op = "skip"
  <2>1. Saved(op, r, date) = [r EXCEPT !.status = "SKIPPED"]
    BY <1>8 DEF Saved
  <2>2. QED BY <1>8, <2>1, <1>1 DEF Statuses
<1>9. CASE op = "post"
  <2>1. Saved(op, r, date) = [r EXCEPT !.status = "POSTED"]
    BY <1>9 DEF Saved
  <2>2. QED BY <1>9, <2>1, <1>1 DEF Statuses
<1>10. CASE op = "reconcile_and_enter"
  <2>1. Saved(op, r, date) = [r EXCEPT !.status = "RECONCILED", !.wanted = TRUE]
    BY <1>10 DEF Saved
  <2>2. QED BY <1>10, <2>1, NoneAssumption DEF Rows, Statuses
<1>11. CASE op = "reschedule"
  <2>1. Saved(op, r, date) = [r EXCEPT !.due = date]
    BY <1>11 DEF Saved
  <2>2. r.status = "PENDING"
    BY <1>11 DEF StartsFrom
  <2>3. QED BY <1>11, <2>1, <2>2, NoneAssumption, DaysAssumption DEF Rows, Statuses
<1>12. CASE op = "stop"
  <2>1. Saved(op, r, date) = [r EXCEPT !.active = FALSE]
    BY <1>12 DEF Saved
  <2>2. r.status = "PENDING"
    BY <1>12 DEF StartsFrom
  <2>3. QED BY <1>12, <2>1, <2>2, NoneAssumption, DaysAssumption DEF Rows, Statuses
<1>13. CASE op = "generate"
  <2>1. Saved(op, r, date) = [r EXCEPT !.due = day + Interval]
    BY <1>13 DEF Saved, NextDue
  <2>2. r.status = "PENDING"
    BY <1>13 DEF StartsFrom
  <2>3. QED BY <1>13, <2>1, <2>2, NoneAssumption, DaysAssumption DEF Rows, Statuses
<1>14. CASE op \in {"attach_proof", "attach_and_enter"}
  <2>1. Saved(op, r, date) = r /\ r.status = "APPROVED"
    BY <1>14 DEF Saved, StartsFrom
  <2>2. QED BY <1>14, <1>2, <2>1
<1>15. QED BY <1>3, <1>4, <1>5, <1>6, <1>7, <1>8, <1>9, <1>10, <1>11, <1>12, <1>13, <1>14
          DEF Ops, OpsOf, Kinds

\* What enters the journal does so for a document that is agreed to.
LEMMA Agreeing ==
    ASSUME kind \in Kinds, day \in Nat, NEW op \in OpsOf(kind), NEW r \in Rows,
           NEW date \in Dates \cup {None}, op = "reschedule" => date \in Dates,
           r.status \in StartsFrom(op), NEW s, s = Saved(op, r, date)
    PROVE  op \in Enters \/ r.status = AgreedStatus => s.status = AgreedStatus
<1>1. op \in Ops
  BY OpsOfKind
<1>2. /\ op = "reconcile_and_enter" => s.status = "RECONCILED"
      /\ op = "approve_and_enter" => s.status = "APPROVED"
      /\ op = "attach_and_enter" => s.status = "APPROVED"
      /\ op = "post" => s.status = "POSTED"
      /\ op \in {"reschedule", "stop", "generate"} => s.status = "PENDING"
      /\ op = "attach_proof" => s.status = r.status
  BY <1>1, SavedFacts
<1>3. op \notin {"attach_proof", "attach_and_enter", "post"} => r.status = "PENDING"
  BY DEF StartsFrom
<1>4. CASE kind = "petty_cash"
  <2>1. AgreedStatus = "APPROVED" /\ op \in {"reject", "approve_and_enter"}
    BY <1>4 DEF OpsOf, AgreedStatus
  <2>2. QED BY ONLY <1>2, <1>3, <2>1 DEF Enters, SavesFirst
<1>5. CASE kind = "request"
  <2>1. /\ AgreedStatus = "APPROVED"
        /\ op \in {"reject", "approve", "attach_proof", "attach_and_enter"}
    BY <1>5 DEF OpsOf, AgreedStatus
  <2>2. QED BY ONLY <1>2, <1>3, <2>1 DEF Enters, SavesFirst
<1>6. CASE kind = "offering"
  <2>1. AgreedStatus = "RECONCILED" /\ op \in {"reconcile", "reconcile_and_enter"}
    BY <1>6 DEF OpsOf, AgreedStatus
  <2>2. QED BY ONLY <1>2, <1>3, <2>1 DEF Enters, SavesFirst
<1>7. CASE kind = "bank_row"
  <2>1. AgreedStatus = "POSTED" /\ op \in {"confirm", "skip", "post"}
    BY <1>7 DEF OpsOf, AgreedStatus
  <2>2. op = "post" => r.status = "CONFIRMED"
    BY DEF StartsFrom
  <2>3. QED BY ONLY <1>2, <1>3, <2>1, <2>2 DEF Enters, SavesFirst
<1>8. CASE kind = "recurring"
  <2>1. AgreedStatus = "PENDING" /\ op \in {"reschedule", "stop", "generate"}
    BY <1>8 DEF OpsOf, AgreedStatus
  <2>2. QED BY ONLY <1>2, <2>1
<1>9. QED BY <1>4, <1>5, <1>6, <1>7, <1>8 DEF Kinds

-----------------------------------------------------------------------------
(* A request begins.                                                       *)

LEMMA IdleFacts ==
    /\ Idle \in Requests /\ Idle.op = None /\ Idle.todo = <<>> /\ Idle.pc = 1
    /\ Idle.new = {} /\ Idle.found = {} /\ Idle.saved = Nothing /\ Idle.date = None
    /\ \A d \in Docs : ~Idle.seen[d].wanted
    /\ \A d \in Docs : Nothing[d] = None
<1>1. Fresh \in Rows /\ ~Fresh.wanted
  BY DEF Fresh, Rows, Statuses
<1>2. Nothing \in [Docs -> Rows \cup {None}] /\ \A d \in Docs : Nothing[d] = None
  BY DEF Nothing
<1>3. [d \in Docs |-> Fresh] \in [Docs -> Rows]
  BY <1>1
<1>4. /\ Idle.op = None /\ Idle.todo = <<>> /\ Idle.pc = 1 /\ Idle.new = {}
      /\ Idle.found = {} /\ Idle.saved = Nothing /\ Idle.date = None
      /\ Idle.seen = [d \in Docs |-> Fresh]
  BY DEF Idle
<1>5. Idle \in Requests
  BY <1>2, <1>3 DEF Idle, Requests
<1>6. QED BY <1>1, <1>2, <1>4, <1>5

LEMMA IdleRequest ==
    Besides(Idle) /\ Saves(Idle)
<1>1. Left(Idle) = {} /\ Distinct(Idle.todo)
  BY IdleFacts, NoneLeft DEF Left, Distinct, Requests
<1>2. Idle.op # "reschedule" /\ Idle.op \notin Ops
  BY IdleFacts, NoneAssumption DEF Ops, OpsOf, Kinds
<1>3. Shape(Idle)
  BY <1>1, <1>2, IdleFacts DEF Shape
<1>4. Sight(Idle)
  BY <1>1, IdleFacts DEF Sight, Plain
<1>5. QED BY <1>1, <1>3, <1>4, IdleFacts
         DEF Besides, News, ToCome, InHand, Finished, Done, Found, Saves

\* A request that has read its documents and done nothing yet.
LEMMA StartFacts ==
    ASSUME Inv, NEW x \in Requests, x.op \in OpsOf(kind), x.pc = 1, x.found = {},
           x.saved = Nothing, x.new = {}, Distinct(x.todo),
           x.op = "reschedule" => x.date \in Dates,
           \A d \in Docs : Plain(x.seen[d]),
           \A d \in ToSet(x.todo) : May(x.op, x.seen[d])
    PROVE  Besides(x) /\ Saves(x)
<1>1. kind \in Kinds /\ x.op \in Ops /\ x.op # None
  BY OpsOfKind, NoneAssumption DEF Inv, Committed, TypeOK
<1>2. \A d \in Docs : x.saved[d] = None
  BY IdleFacts
<1>3. Len(Stages(x.op)) >= 1
  BY <1>1, OpsOfKind
<1>4. Shape(x)
  BY <1>1, <1>3 DEF Shape
<1>5. Sight(x)
  BY <1>2 DEF Sight, Left, May
<1>6. InHand(x)
  <2>1. /\ x.op = "approve_and_enter" => StageOf(x) = "check"
        /\ x.op = "reconcile_and_enter" => StageOf(x) = "save"
        /\ x.op = "post" => StageOf(x) = "check"
    BY StageAt DEF StageOf
  <2>2. QED BY <2>1 DEF InHand, SavesFirst
<1>7. News(x) /\ Found(x)
  BY DEF News, Found
<1>8. \A d \in Left(x) : d \in Docs
  BY NoneLeft DEF Left, Requests
<1>9. ToCome(x) /\ Finished(x) /\ Saves(x)
  BY <1>2, <1>8 DEF ToCome, Finished, Done, Saves
<1>10. QED BY <1>4, <1>5, <1>6, <1>7, <1>9 DEF Besides

LEMMA ReadFacts ==
    ASSUME Inv, NEW ds
    PROVE  /\ Read(ds) \in [Docs -> Rows] /\ \A d \in Docs : Plain(Read(ds)[d])
           /\ \A d \in Docs \cap ds : Read(ds)[d] = rows[d]
<1>1. Fresh \in Rows /\ ~Fresh.wanted
  BY DEF Fresh, Rows, Statuses
<1>2. QED BY <1>1 DEF Read, Inv, Committed, TypeOK, Kept, Plain

LEMMA BeginKeeps ==
    ASSUME Inv, NEW h \in Handlers, NEW op, NEW d \in Docs, NEW date \in Dates \cup {None},
           Begin(h, op, d, date)
    PROVE  Inv'
<1>1. PICK x : x = [Idle EXCEPT !.op = op, !.todo = <<d>>, !.seen = Read({d}), !.date = date]
  OBVIOUS
<1>2. /\ op \in OpsOf(kind) /\ May(op, rows[d])
      /\ op = "reschedule" => date \in Dates
      /\ work' = [work EXCEPT ![h] = x]
      /\ UNCHANGED <<kind, rows, entries, open, day, clashed, torn, deleted>>
  BY <1>1 DEF Begin
<1>3. <<d>> \in Seq(Docs) /\ Distinct(<<d>>) /\ ToSet(<<d>>) = {d}
  BY DEF Distinct, ToSet
<1>4. op \in Ops
  BY <1>2, OpsOfKind DEF Inv, Committed, TypeOK
<1>5. /\ x \in Requests /\ x.op = op /\ x.todo = <<d>> /\ x.seen = Read({d}) /\ x.date = date
      /\ x.pc = 1 /\ x.new = {} /\ x.found = {} /\ x.saved = Nothing
  BY <1>1, <1>3, <1>4, IdleFacts, ReadFacts DEF Requests
<1>6. /\ \A e \in Docs : Plain(x.seen[e])
      /\ \A e \in ToSet(x.todo) : May(x.op, x.seen[e])
  BY <1>2, <1>3, <1>5, ReadFacts
<1>7. Besides(x) /\ Saves(x)
  BY <1>2, <1>3, <1>5, <1>6, StartFacts
<1>8. QED BY <1>2, <1>5, <1>7, IdleFacts, QuietStep

LEMMA BeginBatchKeeps ==
    ASSUME Inv, NEW h \in Handlers, NEW op, BeginBatch(h, op)
    PROVE  Inv'
<1> DEFINE due == {d \in Docs : May(op, rows[d])}
<1>1. PICK todo \in SetToSeqs(due) :
          work' = [work EXCEPT ![h] = [Idle EXCEPT !.op = op, !.todo = todo,
                                                   !.seen = Read(ToSet(todo))]]
  BY DEF BeginBatch
<1>2. /\ op \in OpsOf(kind) \cap Batched
      /\ UNCHANGED <<kind, rows, entries, open, day, clashed, torn, deleted>>
  BY DEF BeginBatch
<1>3. todo \in [1 .. Cardinality(due) -> due] /\ Distinct(todo)
  BY DEF SetToSeqs, Distinct
<1>4. todo \in Seq(Docs) /\ ToSet(todo) \subseteq due
  <2>1. Cardinality(due) \in Nat
    BY DocsAssumption, FS_Subset, FS_CardinalityType
  <2>2. \A n \in Nat : \A s \in [1 .. n -> due] : s \in Seq(Docs) /\ DOMAIN s = 1 .. n
    <3>1. due \subseteq Docs
      OBVIOUS
    <3>2. \A n \in Nat : [1 .. n -> due] \subseteq Seq(due)
      BY SeqDef
    <3>3. Seq(due) \subseteq Seq(Docs)
      BY <3>1
    <3>4. QED BY <3>2, <3>3
  <2>3. todo \in Seq(Docs) /\ DOMAIN todo = 1 .. Cardinality(due)
    BY <1>3, <2>1, <2>2
  <2>4. QED BY <1>3, <2>3 DEF ToSet
<1>5. PICK x : x = [Idle EXCEPT !.op = op, !.todo = todo, !.seen = Read(ToSet(todo))]
  OBVIOUS
<1>6. op \in Ops /\ op # "reschedule"
  BY <1>2, OpsOfKind DEF Batched, Inv, Committed, TypeOK
<1>7. /\ x \in Requests /\ x.op = op /\ x.todo = todo /\ x.seen = Read(ToSet(todo))
      /\ x.pc = 1 /\ x.new = {} /\ x.found = {} /\ x.saved = Nothing
  BY <1>4, <1>5, <1>6, IdleFacts, ReadFacts DEF Requests
<1>8. /\ \A e \in Docs : Plain(x.seen[e])
      /\ \A e \in ToSet(x.todo) : May(x.op, x.seen[e])
  BY <1>4, <1>7, ReadFacts
<1>9. Besides(x) /\ Saves(x)
  BY <1>2, <1>3, <1>6, <1>7, <1>8, StartFacts
<1>10. QED BY <1>1, <1>2, <1>5, <1>7, <1>9, IdleFacts, QuietStep

-----------------------------------------------------------------------------
(* A request goes on with the document in hand, or gives it up.            *)

LEMMA HandFacts ==
    ASSUME Inv, NEW h \in Handlers, NEW st, AtStage(h, st), NEW w, w = work[h]
    PROVE  /\ Besides(w) /\ Saves(w) /\ Shape(w) /\ Sight(w) /\ News(w) /\ ToCome(w)
           /\ InHand(w) /\ Finished(w) /\ Found(w)
           /\ kind \in Kinds /\ day \in Nat
           /\ w \in Requests /\ w.op \in OpsOf(kind) /\ w.op \in Ops /\ w.op # None
           /\ w.todo # <<>> /\ w.todo \in Seq(Docs) /\ Distinct(w.todo)
           /\ StageOf(w) = st /\ w.pc \in 1 .. Len(Stages(w.op))
           /\ At(w) \in Left(w) /\ Left(w) \subseteq Docs /\ At(w) \in Docs
<1>1. kind \in Kinds /\ day \in Nat /\ Besides(w) /\ Saves(w)
  BY DaysAssumption DEF Inv, Committed, TypeOK, Lawful
<1>2. Shape(w) /\ Sight(w) /\ News(w) /\ ToCome(w) /\ InHand(w) /\ Finished(w) /\ Found(w)
  BY <1>1 DEF Besides
<1>3. w.op # None /\ w.todo # <<>> /\ StageOf(w) = st
  BY DEF AtStage, Busy, StageOf, Stage
<1>4. w \in Requests /\ w.op \in OpsOf(kind) /\ Distinct(w.todo) /\ w.pc <= Len(Stages(w.op))
  BY <1>2, <1>3 DEF Shape
<1>5. w.op \in Ops /\ w.todo \in Seq(Docs) /\ w.pc \in 1 .. 4
  BY <1>1, <1>4, OpsOfKind DEF Requests
<1>6. w.pc \in 1 .. Len(Stages(w.op))
  BY <1>4, <1>5, OpsOfKind
<1>7. At(w) \in Left(w) /\ Left(w) \subseteq Docs
  BY <1>3, <1>4, <1>5, TailFacts DEF At, Left
<1>8. QED BY <1>1, <1>2, <1>3, <1>4, <1>5, <1>6, <1>7

LEMMA CheckKeeps ==
    ASSUME Inv, NEW h \in Handlers, Check(h)
    PROVE  Inv'
<1>1. PICK w : w = work[h]
  OBVIOUS
<1>2. PICK found : found = {d \in ToSet(w.todo) : HasEntry(h, d)}
  OBVIOUS
<1>3. PICK y : y = [w EXCEPT !.found = found, !.allowed = open \/ w.op \in Batched]
  OBVIOUS
<1>4. PICK x : x = After(y)
  OBVIOUS
<1>5. /\ AtStage(h, "check") /\ PeriodAllows(w.op, At(w) \in found)
      /\ work' = [work EXCEPT ![h] = x]
      /\ UNCHANGED <<kind, rows, entries, open, day, clashed, torn, deleted>>
  BY <1>1, <1>2, <1>3, <1>4 DEF Check
<1>6. /\ Saves(w) /\ Shape(w) /\ Sight(w) /\ News(w) /\ ToCome(w)
      /\ InHand(w) /\ Finished(w) /\ Found(w)
      /\ w \in Requests /\ w.op \in OpsOf(kind) /\ w.op \in Ops
      /\ w.todo # <<>> /\ StageOf(w) = "check" /\ w.pc \in 1 .. Len(Stages(w.op))
      /\ Left(w) \subseteq Docs
  BY <1>1, <1>5, HandFacts
<1>7. found \subseteq Docs /\ open \in BOOLEAN
  BY <1>2, <1>6 DEF Left, Inv, Committed, TypeOK
<1>8. /\ y \in Requests /\ y.op = w.op /\ y.pc = w.pc /\ y.todo = w.todo /\ y.seen = w.seen
      /\ y.found = found /\ (y.allowed <=> open \/ w.op \in Batched) /\ y.saved = w.saved
      /\ y.new = w.new /\ y.date = w.date
  BY <1>3, <1>6, <1>7 DEF Requests
<1>9. /\ w.op \in Enters /\ w.pc < Len(Stages(w.op))
      /\ Stages(w.op)[w.pc + 1] = IF w.op = "approve_and_enter" THEN "save" ELSE "enter"
  BY <1>6, Following DEF StageOf
<1>10. /\ x \in Requests /\ x.op = w.op /\ x.todo = w.todo /\ x.seen = w.seen
       /\ x.found = found /\ (x.allowed <=> open \/ w.op \in Batched) /\ x.saved = w.saved
       /\ x.new = w.new /\ x.date = w.date /\ Left(x) = Left(w) /\ At(x) = At(w)
       /\ x.pc <= Len(Stages(x.op))
       /\ StageOf(x) = IF w.op = "approve_and_enter" THEN "save" ELSE "enter"
  BY <1>4, <1>6, <1>8, <1>9, AfterFacts DEF Left, At
<1>11. Shape(x) /\ Sight(x) /\ News(x) /\ ToCome(x) /\ Finished(x) /\ Saves(x)
  <2>1. Shape(x)
    BY <1>6, <1>10, NoneAssumption DEF Shape
  <2>2. Sight(x)
    BY <1>6, <1>10 DEF Sight
  <2>3. News(x) /\ ToCome(x)
    BY <1>6, <1>10 DEF News, ToCome
  <2>4. Finished(x)
    BY <1>6, <1>10 DEF Finished, Done
  <2>5. Saves(x)
    BY <1>6, <1>10 DEF Saves
  <2>6. QED BY <2>1, <2>2, <2>3, <2>4, <2>5
<1>12. Found(x)
  <2>1. ASSUME kind # "recurring", NEW d \in found
        PROVE  Known(d)
    <3>1. PICK e \in entries : e.key = <<d>>
      BY <1>2, <2>1 DEF HasEntry, Key
    <3>2. e.key = <<e.doc>>
      BY <2>1, <3>1 DEF Inv, Committed, Keyed
    <3>3. e.doc = d
      BY <3>1, <3>2
    <3>4. QED BY <3>1, <3>3 DEF Known
  <2>2. QED BY <2>1, <1>10 DEF Found
<1>13. InHand(x)
  <2>1. \A e \in w.new : e.doc # At(w)
    BY <1>6 DEF InHand
  <2>2. w.op = "reconcile_and_enter" => w.saved[At(w)] # None
    BY <1>6 DEF InHand
  <2>3. w.op \in SavesFirst => open \/ At(w) \in found
    BY <1>5 DEF PeriodAllows, SavesFirst
  <2>4. QED BY <1>10, <2>1, <2>2, <2>3 DEF InHand, SavesFirst
<1>14. QED BY <1>1, <1>5, <1>10, <1>11, <1>12, <1>13, QuietStep DEF Besides

LEMMA GivenUp ==
    ASSUME Inv, NEW h \in Handlers, Reset(h),
           UNCHANGED <<kind, rows, entries, open, day, clashed, torn, deleted>>
    PROVE  Inv'
BY IdleRequest, IdleFacts, QuietStep DEF Reset

LEMMA SkipEntryKeeps ==
    ASSUME Inv, NEW h \in Handlers, SkipEntry(h)
    PROVE  Inv'
<1>1. PICK w : w = work[h]
  OBVIOUS
<1>2. /\ AtStage(h, "enter") /\ (At(w) \in w.found \/ ~w.allowed)
      /\ work' = [work EXCEPT ![h] = IF w.op = "attach_and_enter" THEN [w EXCEPT !.pc = @ + 2]
                                                                  ELSE NextDoc(w)]
      /\ UNCHANGED <<kind, rows, entries, open, day, clashed, torn, deleted>>
  BY <1>1 DEF SkipEntry
<1>3. /\ Saves(w) /\ Shape(w) /\ Sight(w) /\ News(w) /\ ToCome(w)
      /\ InHand(w) /\ Finished(w) /\ Found(w) /\ kind \in Kinds
      /\ w \in Requests /\ w.op \in OpsOf(kind) /\ w.op \in Ops /\ w.op # None
      /\ w.todo # <<>> /\ Distinct(w.todo)
      /\ StageOf(w) = "enter" /\ w.pc \in 1 .. Len(Stages(w.op))
      /\ At(w) \in Left(w) /\ Left(w) \subseteq Docs
  BY <1>1, <1>2, HandFacts
<1>4. \A e \in w.new : e.doc # At(w)
  BY <1>3 DEF InHand
<1>5. CASE w.op = "attach_and_enter"
  <2>1. PICK x : x = [w EXCEPT !.pc = @ + 2]
    OBVIOUS
  <2>2. w.pc + 2 <= Len(Stages(w.op)) /\ Stages(w.op)[w.pc + 2] = "save"
    BY <1>3, <1>5, Following DEF StageOf
  <2>3. w.pc + 2 \in 1 .. 4
    <3>1. \A m, n \in 1 .. 4 : m + 2 <= n => m + 2 \in 1 .. 4
      OBVIOUS
    <3>2. QED BY <2>2, <3>1, <1>3, OpsOfKind DEF Requests
  <2>4. /\ x \in Requests /\ x.op = w.op /\ x.pc = w.pc + 2 /\ x.todo = w.todo /\ x.seen = w.seen
        /\ x.found = w.found /\ x.allowed = w.allowed /\ x.saved = w.saved
        /\ x.new = w.new /\ x.date = w.date
    BY <2>1, <2>3, <1>3 DEF Requests
  <2>5. Left(x) = Left(w) /\ At(x) = At(w) /\ StageOf(x) = "save" /\ x.pc <= Len(Stages(x.op))
    BY <2>2, <2>4 DEF Left, At, StageOf
  <2>6. Shape(x) /\ Sight(x)
    BY <1>3, <2>4, <2>5 DEF Shape, Sight
  <2>7. News(x) /\ ToCome(x) /\ Found(x) /\ Saves(x)
    BY <1>3, <2>4, <2>5 DEF News, ToCome, Found, Saves
  <2>8. Finished(x)
    BY <1>3, <2>4, <2>5 DEF Finished, Done
  <2>9. InHand(x)
    BY <1>4, <1>5, <2>4, <2>5 DEF InHand, SavesFirst
  <2>10. QED BY <1>1, <1>2, <1>5, <2>1, <2>4, <2>6, <2>7, <2>8, <2>9, QuietStep DEF Besides
<1>6. CASE w.op # "attach_and_enter"
  <2>1. PICK x : x = NextDoc(w)
    OBVIOUS
  <2>2. \A d \in Left(w) \ {At(w)} : w.saved[d] = None /\ \A e \in w.new : e.doc # d
    BY <1>3 DEF ToCome
  <2>3. Done(w, At(w))
    <3>1. w.op = "post" => w.saved[At(w)] = None
      BY <1>3 DEF ToCome, SavesFirst
    <3>2. w.op \in SavesFirst => /\ w.op \in {"approve_and_enter", "reconcile_and_enter"}
                                /\ kind # "recurring"
      BY <1>3 DEF SavesFirst, OpsOf
    <3>3. w.op \in SavesFirst => At(w) \in w.found
      BY <1>2, <1>3, <3>2 DEF InHand
    <3>4. w.op \in SavesFirst => Known(At(w))
      BY <1>3, <3>2, <3>3 DEF Found
    <3>5. QED BY <1>4, <3>1, <3>4 DEF Done
  <2>4. Besides(x)
    BY <1>3, <2>1, <2>2, <2>3, FinishDoc
  <2>5. x.saved = w.saved /\ x.new = w.new /\ x.op = w.op /\ x.seen = w.seen /\ x.date = w.date
    BY <1>3, <2>1, NextDocFacts
  <2>6. Saves(x)
    BY <1>3, <2>5 DEF Saves
  <2>7. QED BY <1>1, <1>2, <1>6, <2>1, <2>4, <2>5, <2>6, QuietStep
<1>7. QED BY <1>5, <1>6

LEMMA RollbackKeeps ==
    ASSUME Inv, NEW h \in Handlers, Rollback(h)
    PROVE  Inv'
BY GivenUp DEF Rollback

LEMMA DuplicateKeeps ==
    ASSUME Inv, NEW h \in Handlers, Duplicate(h)
    PROVE  Inv'
<1>1. PICK w : w = work[h]
  OBVIOUS
<1>2. /\ AtStage(h, "enter")
      /\ work' = [work EXCEPT ![h] = IF w.op \in Batched THEN NextDoc(w) ELSE Idle]
      /\ UNCHANGED <<kind, rows, entries, open, day, clashed, torn, deleted>>
  BY <1>1 DEF Duplicate
<1>3. CASE w.op \notin Batched
  BY <1>2, <1>3, GivenUp DEF Reset
<1>4. CASE w.op \in Batched
  <2>1. /\ Saves(w) /\ Shape(w) /\ Sight(w) /\ News(w) /\ ToCome(w)
        /\ InHand(w) /\ Finished(w) /\ Found(w) /\ kind \in Kinds
        /\ w \in Requests /\ w.op \in Ops /\ w.op # None
        /\ w.todo # <<>> /\ Distinct(w.todo) /\ StageOf(w) = "enter"
        /\ At(w) \in Left(w) /\ Left(w) \subseteq Docs
    BY <1>1, <1>2, HandFacts
  <2>2. PICK x : x = NextDoc(w)
    OBVIOUS
  <2>3. \A d \in Left(w) \ {At(w)} : w.saved[d] = None /\ \A e \in w.new : e.doc # d
    BY <2>1 DEF ToCome
  <2>4. w.op \notin SavesFirst
    BY <1>4 DEF Batched, SavesFirst
  <2>5. Done(w, At(w))
    BY <2>1, <2>4 DEF Done, InHand, ToCome
  <2>6. Besides(x)
    BY <2>1, <2>2, <2>3, <2>5, FinishDoc
  <2>7. x.saved = w.saved /\ x.new = w.new /\ x.op = w.op /\ x.seen = w.seen /\ x.date = w.date
    BY <2>1, <2>2, NextDocFacts
  <2>8. Saves(x)
    BY <2>1, <2>7 DEF Saves
  <2>9. QED BY <1>1, <1>2, <1>4, <2>2, <2>6, <2>7, <2>8, QuietStep
<1>5. QED BY <1>3, <1>4

LEMMA FailOneKeeps ==
    ASSUME Inv, NEW h \in Handlers, FailOne(h)
    PROVE  Inv'
<1>1. PICK w : w = work[h]
  OBVIOUS
<1>2. PICK y : y = [w EXCEPT !.new = {e \in @ : e.doc # At(w)}]
  OBVIOUS
<1>3. PICK x : x = NextDoc(y)
  OBVIOUS
<1>4. /\ AtStage(h, "enter") \/ AtStage(h, "save")
      /\ w.op = "generate"
      /\ work' = [work EXCEPT ![h] = x]
      /\ UNCHANGED <<kind, rows, entries, open, day, clashed, torn, deleted>>
  BY <1>1, <1>2, <1>3 DEF FailOne
<1>5. /\ Saves(w) /\ Shape(w) /\ Sight(w) /\ News(w) /\ ToCome(w)
      /\ Finished(w) /\ Found(w) /\ kind \in Kinds
      /\ w \in Requests /\ w.op \in Ops /\ w.op # None
      /\ w.todo # <<>> /\ Distinct(w.todo) /\ At(w) \in Left(w) /\ Left(w) \subseteq Docs
      /\ w.pc \in 1 .. Len(Stages(w.op))
  BY <1>1, <1>4, HandFacts
<1>6. /\ y \in Requests /\ y.op = w.op /\ y.pc = w.pc /\ y.todo = w.todo /\ y.seen = w.seen
      /\ y.found = w.found /\ y.allowed = w.allowed /\ y.saved = w.saved
      /\ y.new = {e \in w.new : e.doc # At(w)} /\ y.date = w.date
  BY <1>2, <1>5 DEF Requests
<1>7. Left(y) = Left(w) /\ At(y) = At(w)
  BY <1>6 DEF Left, At
<1>8. Shape(y) /\ Sight(y)
  BY <1>5, <1>6, <1>7 DEF Shape, Sight
<1>9. News(y) /\ Found(y)
  BY <1>5, <1>6 DEF News, Found
<1>10. w.op \notin SavesFirst \cup {"post"}
  BY <1>4 DEF SavesFirst
<1>11. Finished(y)
  BY <1>5, <1>6, <1>7, <1>10 DEF Finished, Done
<1>12. \A d \in Left(y) \ {At(y)} : y.saved[d] = None /\ \A e \in y.new : e.doc # d
  BY <1>5, <1>6, <1>7 DEF ToCome
<1>13. Done(y, At(y))
  BY <1>6, <1>7, <1>10 DEF Done
<1>14. Besides(x)
  BY <1>3, <1>5, <1>6, <1>8, <1>9, <1>11, <1>12, <1>13, FinishDoc
<1>15. x.saved = w.saved /\ x.new = y.new /\ x.op = w.op /\ x.seen = w.seen /\ x.date = w.date
  BY <1>3, <1>5, <1>6, NextDocFacts
<1>16. Saves(x)
  BY <1>5, <1>15 DEF Saves
<1>17. QED BY <1>1, <1>4, <1>6, <1>14, <1>15, <1>16, QuietStep

-----------------------------------------------------------------------------
(* A request saves and enters.                                             *)

LEMMA EnterKeeps ==
    ASSUME Inv, NEW h \in Handlers, Enter(h)
    PROVE  Inv'
<1>1. PICK w : w = work[h]
  OBVIOUS
<1>2. PICK e : e = [doc |-> At(w), day |-> day, key |-> Key(h, At(w)),
                    lines |-> w.op = "generate"]
  OBVIOUS
<1>3. PICK y : y = [w EXCEPT !.new = @ \cup {e}]
  OBVIOUS
<1>4. PICK x : x = After(y)
  OBVIOUS
<1>5. /\ AtStage(h, "enter") /\ At(w) \notin w.found /\ w.allowed
      /\ ~KeyHeld(h, At(w)) /\ ~HasEntry(h, At(w))
      /\ work' = [work EXCEPT ![h] = x]
      /\ UNCHANGED <<kind, rows, entries, open, day, clashed, torn, deleted>>
  BY <1>1, <1>2, <1>3, <1>4 DEF Enter
<1>6. /\ Saves(w) /\ Shape(w) /\ Sight(w) /\ News(w) /\ ToCome(w)
      /\ InHand(w) /\ Finished(w) /\ Found(w) /\ day \in Nat
      /\ w \in Requests /\ w.op \in OpsOf(kind) /\ w.op \in Ops /\ w.op # None
      /\ w.todo # <<>> /\ StageOf(w) = "enter" /\ w.pc \in 1 .. Len(Stages(w.op))
      /\ At(w) \in Left(w) /\ Left(w) \subseteq Docs /\ At(w) \in Docs
  BY <1>1, <1>5, HandFacts
<1>7. /\ e.doc = At(w) /\ e.day = day /\ e.key = KeyOf(At(w))
      /\ e.lines = (w.op = "generate") /\ e \in Entry
  <2>1. Key(h, At(w)) = KeyOf(At(w))
    BY DEF Key, KeyOf
  <2>2. KeyOf(At(w)) \in Seq(Docs \cup Nat \cup Handlers)
    <3>1. \A S : \A a, b \in S : <<a>> \in Seq(S) /\ <<a, b>> \in Seq(S)
      OBVIOUS
    <3>2. QED BY <1>6, <3>1 DEF KeyOf
  <2>3. day \in 0 .. LastDay /\ (w.op = "generate") \in BOOLEAN
    BY DEF Inv, Committed, TypeOK
  <2>4. QED BY <1>2, <1>6, <2>1, <2>2, <2>3 DEF Entry
<1>8. /\ y \in Requests /\ y.op = w.op /\ y.pc = w.pc /\ y.todo = w.todo /\ y.seen = w.seen
      /\ y.found = w.found /\ y.allowed = w.allowed /\ y.saved = w.saved
      /\ y.new = w.new \cup {e} /\ y.date = w.date
  BY <1>3, <1>6, <1>7 DEF Requests
<1>9. /\ w.op \in Enters /\ w.pc < Len(Stages(w.op))
      /\ Stages(w.op)[w.pc + 1] = IF w.op = "generate" THEN "save" ELSE "lines"
  BY <1>6, Following DEF StageOf
<1>10. /\ x \in Requests /\ x.op = w.op /\ x.todo = w.todo /\ x.seen = w.seen
       /\ x.found = w.found /\ x.allowed = w.allowed /\ x.saved = w.saved
       /\ x.new = w.new \cup {e} /\ x.date = w.date /\ Left(x) = Left(w) /\ At(x) = At(w)
       /\ x.pc <= Len(Stages(x.op))
       /\ StageOf(x) = IF w.op = "generate" THEN "save" ELSE "lines"
  BY <1>4, <1>6, <1>8, <1>9, AfterFacts DEF Left, At
<1>11. \A f \in w.new : f.doc # At(w)
  BY <1>6 DEF InHand
<1>12. Shape(x) /\ Sight(x) /\ Saves(x) /\ Found(x)
  <2>1. Shape(x)
    BY <1>6, <1>10 DEF Shape
  <2>2. Sight(x)
    BY <1>6, <1>10 DEF Sight
  <2>3. QED BY <1>6, <1>10, <2>1, <2>2 DEF Saves, Found
<1>13. News(x)
  <2>1. \A f \in w.new : f.key # e.key
    <3>1. ASSUME NEW f \in w.new PROVE KeyOf(f.doc) # KeyOf(At(w))
      <4>1. f.doc # At(w)
        BY <1>11, <3>1
      <4>2. QED BY <4>1 DEF KeyOf
    <3>2. QED BY <3>1, <1>6, <1>7 DEF News
  <2>2. \A f \in entries : e.key # f.key
    BY <1>5, <1>7 DEF HasEntry, Key, KeyOf
  <2>3. QED BY <1>6, <1>7, <1>9, <1>10, <2>1, <2>2 DEF News
<1>14. ToCome(x)
  BY <1>6, <1>7, <1>10 DEF ToCome
<1>15. Finished(x)
  <2>1. ASSUME NEW d \in Docs \ Left(w) PROVE Done(x, d)
    <3>1. Done(w, d) /\ e.doc # d
      BY <1>6, <1>7, <2>1 DEF Finished
    <3>2. QED BY <3>1, <1>10 DEF Done
  <2>2. QED BY <2>1, <1>10 DEF Finished
<1>16. InHand(x)
  <2>1. \A f \in x.new : f.doc = At(w) => f = e
    BY <1>10, <1>11
  <2>2. w.op \in SavesFirst => w.saved[At(w)] # None
    BY <1>6 DEF InHand, SavesFirst
  <2>3. e.lines <=> w.op = "generate"
    BY <1>7
  <2>4. e \in x.new
    BY <1>10
  <2>5. QED BY <1>7, <1>10, <2>1, <2>2, <2>3, <2>4 DEF InHand, SavesFirst
<1>17. \A g \in Handlers \ {h} : Apart(x, work[g])
  <2>1. ASSUME NEW g \in Handlers \ {h} PROVE Apart(x, work[g])
    <3>1. Apart(w, work[g])
      BY <1>1, <2>1 DEF Inv
    <3>2. \A f \in work[g].new : e.key # f.key
      BY <1>5, <1>7, <2>1 DEF KeyHeld, Key, KeyOf
    <3>3. QED BY <1>10, <3>1, <3>2 DEF Apart
  <2>2. QED BY <2>1
<1>18. Saves(x)' /\ clashed' \subseteq Docs
  BY <1>5, <1>12, SteadySaves DEF Inv, Committed, TypeOK
<1>19. Besides(x)
  BY <1>12, <1>13, <1>14, <1>15, <1>16 DEF Besides
<1>20. QED BY <1>5, <1>17, <1>18, <1>19, LocalStep

LEMMA SaveDocKeeps ==
    ASSUME Inv, NEW h \in Handlers, SaveDoc(h)
    PROVE  Inv'
<1>1. PICK w : w = work[h]
  OBVIOUS
<1>2. PICK d : d = At(w)
  OBVIOUS
<1>3. PICK s : s = Saved(w.op, w.seen[d], w.date)
  OBVIOUS
<1>4. PICK y : y = [w EXCEPT !.saved[d] = s]
  OBVIOUS
<1>5. PICK x : x = After(y)
  OBVIOUS
<1>6. /\ AtStage(h, "save")
      /\ \A g \in Handlers \ {h} : work[g].saved[d] = None
      /\ work' = [work EXCEPT ![h] = x]
      /\ clashed' = IF rows[d] # w.seen[d] \/ w.op = "reschedule"
                       THEN clashed \cup {d} ELSE clashed
      /\ UNCHANGED <<kind, rows, entries, open, day, torn, deleted>>
  BY <1>1, <1>2, <1>3, <1>4, <1>5 DEF SaveDoc
<1>7. /\ Saves(w) /\ Shape(w) /\ Sight(w) /\ News(w) /\ ToCome(w)
      /\ InHand(w) /\ Finished(w) /\ Found(w) /\ day \in Nat /\ kind \in Kinds
      /\ w \in Requests /\ w.op \in OpsOf(kind) /\ w.op \in Ops /\ w.op # None
      /\ w.todo # <<>> /\ Distinct(w.todo)
      /\ StageOf(w) = "save" /\ w.pc \in 1 .. Len(Stages(w.op))
      /\ d \in Left(w) /\ Left(w) \subseteq Docs /\ d \in Docs
  BY <1>1, <1>2, <1>6, HandFacts
<1>8. /\ w.seen[d] \in Rows /\ w.seen[d].status \in StartsFrom(w.op)
      /\ w.date \in Dates \cup {None}
      /\ w.op = "reschedule" => w.date \in Dates
  BY <1>7 DEF Requests, Sight, Shape
<1>9. s \in Rows /\ s # None
  BY <1>3, <1>7, <1>8, SavedFacts
<1>10. w.op \in Enters => s.status = AgreedStatus
  BY <1>3, <1>7, <1>8, Agreeing
<1>11. /\ y \in Requests /\ y.op = w.op /\ y.pc = w.pc /\ y.todo = w.todo /\ y.seen = w.seen
       /\ y.found = w.found /\ y.allowed = w.allowed
       /\ y.saved = [w.saved EXCEPT ![d] = s]
       /\ y.new = w.new /\ y.date = w.date
  BY <1>4, <1>7, <1>9 DEF Requests
<1>12. /\ y.saved[d] = s
       /\ \A c \in Docs \ {d} : y.saved[c] = w.saved[c]
  BY <1>7, <1>11 DEF Requests
<1>13. Left(y) = Left(w) /\ At(y) = d
  BY <1>2, <1>11 DEF Left, At
<1>14. Shape(y)
  BY <1>7, <1>11 DEF Shape
<1>15. Sight(y)
  BY <1>7, <1>11, <1>12, <1>13 DEF Sight
<1>16. News(y) /\ Found(y)
  BY <1>7, <1>11 DEF News, Found
<1>17. Finished(y)
  <2>1. ASSUME NEW c \in Docs \ Left(w) PROVE Done(y, c)
    <3>1. Done(w, c) /\ c # d
      BY <1>7, <2>1 DEF Finished
    <3>2. QED BY <3>1, <2>1, <1>11, <1>12 DEF Done
  <2>2. QED BY <2>1, <1>13 DEF Finished
<1>18. \A c \in Left(w) \ {d} : w.saved[c] = None /\ \A e \in w.new : e.doc # c
  BY <1>2, <1>7 DEF ToCome
<1>19. clashed \subseteq clashed' /\ clashed' \subseteq Docs
  BY <1>6, <1>7 DEF Inv, Committed, TypeOK
<1>20. ASSUME x.op = w.op, x.seen = w.seen, x.saved = y.saved, x.date = w.date
       PROVE  Saves(x)'
  <2>1. PICK v : v = w
    OBVIOUS
  <2>2. Saves(v)'
    BY <1>6, <1>7, <1>19, <2>1, SteadySaves
  <2>3. s = Saved(w.op, w.seen[d], w.date)'
    BY <1>3, <1>6 DEF Saved, NextDue
  <2>4. rows[d] = w.seen[d] \/ d \in clashed'
    BY <1>6
  <2>5. w.op = "reschedule" => d \in clashed'
    BY <1>6
  <2>6. QED BY <1>6, <1>12, <1>20, <2>1, <2>2, <2>3, <2>4, <2>5 DEF Saves
<1>21. ASSUME x.saved = y.saved, x.new = w.new
       PROVE  \A g \in Handlers \ {h} : Apart(x, work[g])
  <2>1. ASSUME NEW g \in Handlers \ {h} PROVE Apart(x, work[g])
    <3>1. Apart(w, work[g])
      BY <1>1, <2>1 DEF Inv
    <3>2. work[g].saved[d] = None
      BY <1>6, <2>1
    <3>3. QED BY <1>12, <1>21, <3>1, <3>2 DEF Apart
  <2>2. QED BY <2>1
<1>22. CASE w.op \in SavesFirst
  <2>1. /\ w.pc < Len(Stages(w.op))
        /\ Stages(w.op)[w.pc + 1] = IF w.op = "approve_and_enter" THEN "enter" ELSE "check"
    BY <1>7, <1>22, Following DEF StageOf
  <2>2. /\ x \in Requests /\ x.op = w.op /\ x.todo = w.todo /\ x.seen = w.seen
        /\ x.found = w.found /\ x.allowed = w.allowed /\ x.saved = y.saved
        /\ x.new = w.new /\ x.date = w.date /\ Left(x) = Left(w) /\ At(x) = d
        /\ x.pc <= Len(Stages(x.op))
        /\ StageOf(x) = IF w.op = "approve_and_enter" THEN "enter" ELSE "check"
    BY <1>5, <1>7, <1>11, <1>13, <2>1, AfterFacts
  <2>3. Shape(x) /\ Sight(x)
    BY <1>7, <1>11, <1>13, <1>15, <2>2 DEF Shape, Sight
  <2>4. News(x) /\ Found(x)
    BY <1>7, <2>2 DEF News, Found
  <2>5. ToCome(x)
    BY <1>12, <1>18, <1>22, <2>2, <1>7 DEF ToCome
  <2>6. Finished(x)
    BY <1>11, <1>13, <1>17, <2>2 DEF Finished, Done
  <2>7. InHand(x)
    <3>1. \A e \in w.new : e.doc # d
      BY <1>2, <1>7, <1>22 DEF InHand
    <3>2. w.op = "approve_and_enter" => w.allowed \/ d \in w.found
      BY <1>2, <1>7 DEF InHand
    <3>3. QED BY <1>9, <1>12, <1>22, <2>2, <3>1, <3>2 DEF InHand, SavesFirst
  <2>8. Besides(x)
    BY <2>3, <2>4, <2>5, <2>6, <2>7 DEF Besides
  <2>9. QED BY <1>6, <1>19, <1>20, <1>21, <2>2, <2>8, LocalStep
<1>23. CASE w.op \notin SavesFirst
  <2>1. w.pc = Len(Stages(w.op))
    BY <1>7, <1>23, Following DEF StageOf
  <2>2. x = NextDoc(y)
    BY <1>5, <1>11, <1>7, <2>1, AfterFacts
  <2>3. \A c \in Left(y) \ {At(y)} : y.saved[c] = None /\ \A e \in y.new : e.doc # c
    BY <1>7, <1>11, <1>12, <1>13, <1>18
  <2>4. Done(y, At(y))
    <3>1. \A e \in w.new : e.doc = d => e.lines /\ w.op \in Enters
      BY <1>2, <1>7 DEF InHand, News
    <3>2. w.op = "post" => \E e \in w.new : e.doc = d
      BY <1>2, <1>7 DEF InHand
    <3>3. QED BY <1>9, <1>10, <1>11, <1>12, <1>13, <1>23, <3>1, <3>2 DEF Done
  <2>5. Besides(x)
    BY <1>7, <1>11, <1>14, <1>15, <1>16, <1>17, <2>2, <2>3, <2>4, FinishDoc
  <2>6. x.saved = y.saved /\ x.new = w.new /\ x.op = w.op /\ x.seen = w.seen /\ x.date = w.date
    BY <1>7, <1>11, <2>2, NextDocFacts
  <2>7. QED BY <1>6, <1>19, <1>20, <1>21, <2>5, <2>6, LocalStep
<1>24. QED BY <1>22, <1>23

LEMMA WriteLinesKeeps ==
    ASSUME Inv, NEW h \in Handlers, WriteLines(h)
    PROVE  Inv'
<1> DEFINE Lined(e, d) == IF e.doc = d THEN [e EXCEPT !.lines = TRUE] ELSE e
<1>1. PICK w : w = work[h]
  OBVIOUS
<1>2. PICK d : d = At(w)
  OBVIOUS
<1>3. PICK new : new = {Lined(e, d) : e \in w.new}
  OBVIOUS
<1>4. PICK y : y = [w EXCEPT !.new = new]
  OBVIOUS
<1>5. PICK x : x = After(y)
  OBVIOUS
<1>6. /\ AtStage(h, "lines")
      /\ work' = [work EXCEPT ![h] = x]
      /\ UNCHANGED <<kind, rows, entries, open, day, clashed, torn, deleted>>
  BY <1>1, <1>2, <1>3, <1>4, <1>5 DEF WriteLines
<1>7. /\ Saves(w) /\ Shape(w) /\ Sight(w) /\ News(w) /\ ToCome(w)
      /\ InHand(w) /\ Finished(w) /\ Found(w) /\ day \in Nat /\ kind \in Kinds
      /\ w \in Requests /\ w.op \in OpsOf(kind) /\ w.op \in Ops /\ w.op # None
      /\ w.todo # <<>> /\ Distinct(w.todo)
      /\ StageOf(w) = "lines" /\ w.pc \in 1 .. Len(Stages(w.op))
      /\ d \in Left(w) /\ Left(w) \subseteq Docs /\ d \in Docs
  BY <1>1, <1>2, <1>6, HandFacts
<1>8. ASSUME NEW e \in w.new
      PROVE  LET f == Lined(e, d)
             IN  /\ f \in Entry /\ f \in new /\ f.doc = e.doc /\ f.key = e.key /\ f.day = e.day
                 /\ f.doc = d => f.lines
                 /\ f.doc # d => f = e
  BY <1>3, <1>7 DEF Requests, Entry
<1>9. \A f \in new : \E e \in w.new : f = Lined(e, d)
  BY <1>3
<1> HIDE DEF Lined
<1>10. /\ new \subseteq Entry
       /\ \A f \in new : f.doc = d => f.lines
       /\ \A f \in new : \E e \in w.new : e.key = f.key /\ e.doc = f.doc /\ e.day = f.day
       /\ \A f \in new : f.doc # d => f \in w.new
       /\ \A e \in w.new : \E f \in new : f.doc = e.doc
  BY <1>8, <1>9
<1>11. /\ y \in Requests /\ y.op = w.op /\ y.pc = w.pc /\ y.todo = w.todo /\ y.seen = w.seen
       /\ y.found = w.found /\ y.allowed = w.allowed /\ y.saved = w.saved
       /\ y.new = new /\ y.date = w.date
  BY <1>4, <1>7, <1>10 DEF Requests
<1>12. Left(y) = Left(w) /\ At(y) = d
  BY <1>2, <1>11 DEF Left, At
<1>13. Shape(y) /\ Sight(y) /\ Found(y)
  BY <1>7, <1>11, <1>12 DEF Shape, Sight, Found
<1>14. News(y)
  <2>1. \A e \in new : w.op \in Enters /\ e.key = KeyOf(e.doc) /\ e.day = day
    BY <1>7, <1>10 DEF News
  <2>2. \A e \in new, f \in entries : e.key # f.key
    BY <1>7, <1>10 DEF News
  <2>3. ASSUME NEW e \in new, NEW f \in new, e.key = f.key
        PROVE  e = f
    <3>1. PICK a \in w.new : e = Lined(a, d)
      BY <1>9
    <3>2. PICK b \in w.new : f = Lined(b, d)
      BY <1>9
    <3>3. a.key = e.key /\ b.key = f.key
      BY <1>8, <3>1, <3>2
    <3>4. a = b
      BY <1>7, <2>3, <3>3 DEF News
    <3>5. QED BY <3>1, <3>2, <3>4
  <2>4. QED BY <1>11, <2>1, <2>2, <2>3 DEF News
<1>15. Finished(y)
  <2>1. ASSUME NEW c \in Docs \ Left(w) PROVE Done(y, c)
    <3>1. Done(w, c) /\ c # d
      BY <1>7, <2>1 DEF Finished
    <3>2. (\E e \in w.new : e.doc = c) => \E e \in new : e.doc = c
      BY <1>10
    <3>3. QED BY <3>1, <3>2, <1>10, <1>11 DEF Done
  <2>2. QED BY <2>1, <1>12 DEF Finished
<1>16. \A c \in Left(w) \ {d} : w.saved[c] = None /\ \A e \in new : e.doc # c
  BY <1>2, <1>7, <1>10 DEF ToCome
<1>17. w.op \in Enters \ {"generate"}
  BY <1>7, Following DEF StageOf
<1>18. CASE w.op \in SavesFirst
  <2>1. x = NextDoc(y)
    BY <1>5, <1>7, <1>11, <1>18, Following, AfterFacts DEF StageOf
  <2>2. Done(y, At(y))
    <3>1. w.saved[d] # None
      BY <1>2, <1>7, <1>18 DEF InHand, SavesFirst
    <3>2. \E e \in new : e.doc = d
      BY <1>2, <1>7, <1>10, <1>18 DEF InHand
    <3>3. w.saved[d].status = AgreedStatus
      <4>1. w.saved[d] = Saved(w.op, w.seen[d], w.date)
        BY <1>7, <3>1 DEF Saves
      <4>2. /\ w.seen[d] \in Rows /\ w.seen[d].status \in StartsFrom(w.op)
            /\ w.date \in Dates \cup {None}
            /\ w.op = "reschedule" => w.date \in Dates
        BY <1>7 DEF Requests, Sight, Shape
      <4>3. QED BY <1>7, <1>17, <4>1, <4>2, Agreeing
    <3>4. QED BY <1>10, <1>11, <1>12, <3>1, <3>2, <3>3 DEF Done
  <2>3. Besides(x)
    BY <1>7, <1>11, <1>12, <1>13, <1>14, <1>15, <1>16, <2>1, <2>2, FinishDoc
  <2>4. x.saved = w.saved /\ x.new = new /\ x.op = w.op /\ x.seen = w.seen /\ x.date = w.date
    BY <1>7, <1>11, <2>1, NextDocFacts
  <2>5. Saves(x)
    BY <1>7, <2>4 DEF Saves
  <2>6. QED BY <1>1, <1>6, <1>10, <2>3, <2>4, <2>5, QuietStep
<1>19. CASE w.op \notin SavesFirst
  <2>1. w.pc < Len(Stages(w.op)) /\ Stages(w.op)[w.pc + 1] = "save"
    BY <1>7, <1>19, Following DEF StageOf
  <2>2. /\ x \in Requests /\ x.op = w.op /\ x.todo = w.todo /\ x.seen = w.seen
        /\ x.found = w.found /\ x.allowed = w.allowed /\ x.saved = w.saved
        /\ x.new = new /\ x.date = w.date /\ Left(x) = Left(w) /\ At(x) = d
        /\ x.pc <= Len(Stages(x.op)) /\ StageOf(x) = "save"
    BY <1>5, <1>7, <1>11, <1>12, <2>1, AfterFacts
  <2>3. Shape(x) /\ Sight(x)
    BY <1>7, <2>2 DEF Shape, Sight
  <2>4. News(x) /\ Found(x) /\ Saves(x)
    BY <1>7, <1>11, <1>14, <2>2 DEF News, Found, Saves
  <2>5. ToCome(x)
    <3>1. w.saved[d] = None
      BY <1>7, <1>19 DEF ToCome
    <3>2. QED BY <1>16, <2>2, <3>1 DEF ToCome
  <2>6. Finished(x)
    BY <1>11, <1>12, <1>15, <2>2 DEF Finished, Done
  <2>7. InHand(x)
    <3>1. w.op = "post" => \E e \in new : e.doc = d
      BY <1>2, <1>7, <1>10 DEF InHand
    <3>2. QED BY <1>10, <1>19, <2>2, <3>1 DEF InHand, SavesFirst
  <2>8. QED BY <1>1, <1>6, <1>10, <2>2, <2>3, <2>4, <2>5, <2>6, <2>7, QuietStep DEF Besides
<1>20. QED BY <1>18, <1>19

-----------------------------------------------------------------------------
(* What a request has written is committed.  late holds the documents a    *)
(* client left half-way.                                                   *)

LEMMA WrittenStep ==
    ASSUME Inv, NEW h \in Handlers, Busy(h), Written(h), Reset(h),
           UNCHANGED <<kind, open, day, clashed, deleted>>,
           NEW late \in SUBSET Docs, torn' = torn \cup late,
           work[h].op = "generate" => late = {},
           \A d \in Left(work[h]) :
               \/ d \in late
               \/ work[h].saved[d] = None /\ \A e \in work[h].new : e.doc # d
    PROVE  Inv'
<1>1. PICK w : w = work[h]
  OBVIOUS
<1>2. PICK v : v = rows'
  OBVIOUS
<1>3. /\ kind \in Kinds /\ day \in Nat /\ day \in 0 .. LastDay /\ rows \in [Docs -> Rows]
      /\ entries \subseteq Entry /\ torn \subseteq Docs /\ w \in Requests
      /\ Keyed /\ Kept /\ EntryOfAgreed /\ Ahead /\ SpacedOut
      /\ Saves(w) /\ Shape(w) /\ Sight(w) /\ News(w) /\ Finished(w) /\ Besides(w)
  BY <1>1, DaysAssumption DEF Inv, Committed, TypeOK, Lawful, Besides
<1>4. w.op \in OpsOf(kind) /\ w.op \in Ops /\ w.new \subseteq Entry
  BY <1>1, <1>3, OpsOfKind DEF Busy, Shape, Requests
<1>5. /\ v = [d \in Docs |-> IF w.saved[d] = None THEN rows[d] ELSE w.saved[d]]
      /\ entries' = entries \cup w.new
  BY <1>1, <1>2 DEF Written
<1>6. \A d \in Docs : v[d] = IF w.saved[d] = None THEN rows[d] ELSE w.saved[d]
  BY <1>5
<1>7. ASSUME NEW d \in Docs, w.saved[d] # None
      PROVE  /\ v[d] = Saved(w.op, w.seen[d], w.date)
             /\ w.seen[d] \in Rows /\ Plain(w.seen[d])
             /\ w.seen[d].status \in StartsFrom(w.op)
             /\ rows[d] = w.seen[d] \/ d \in clashed
             /\ v[d] \in Rows
             /\ w.date \in Dates \cup {None} /\ (w.op = "reschedule" => w.date \in Dates)
  <2>1. v[d] = w.saved[d]
    BY <1>6, <1>7
  <2>2. w.saved[d] = Saved(w.op, w.seen[d], w.date) /\ (rows[d] = w.seen[d] \/ d \in clashed)
    BY <1>3, <1>7 DEF Saves
  <2>3. w.seen[d].status \in StartsFrom(w.op) /\ Plain(w.seen[d])
    BY <1>3, <1>7 DEF Sight
  <2>4. /\ w.seen[d] \in Rows /\ w.saved[d] \in Rows /\ w.date \in Dates \cup {None}
        /\ (w.op = "reschedule" => w.date \in Dates)
    BY <1>3, <1>7 DEF Requests, Shape
  <2>5. QED BY <2>1, <2>2, <2>3, <2>4
<1>8. v \in [Docs -> Rows]
  BY <1>3, <1>5, <1>6, <1>7
<1>9. TypeOK'
  <2>1. work' \in [Handlers -> Requests]
    BY IdleFacts DEF Reset, Inv, Committed, TypeOK
  <2>2. entries' \subseteq Entry
    BY <1>3, <1>4, <1>5
  <2>3. QED BY <1>2, <1>3, <1>8, <2>1, <2>2 DEF Inv, Committed, TypeOK
<1>10. Keyed'
  <2>1. \A e \in w.new : /\ e.key = IF kind = "recurring" THEN <<e.doc, e.day>> ELSE <<e.doc>>
                         /\ e.day <= day
    <3>1. \A e \in w.new : e.key = KeyOf(e.doc) /\ e.day = day
      BY <1>3 DEF News
    <3>2. day <= day
      BY <1>3
    <3>3. QED BY <3>1, <3>2 DEF KeyOf
  <2>2. \A e, f \in entries' : e.key = f.key => e = f
    BY <1>3, <1>5 DEF News, Keyed
  <2>3. QED BY <1>3, <1>5, <2>1, <2>2 DEF Keyed
\* What it has entered belongs to a document it has finished.
<1>11. ASSUME NEW e \in w.new, e.doc \notin late
       PROVE  /\ w.op \in Enters /\ e.day = day /\ e.lines /\ e.doc \in Docs
              /\ w.saved[e.doc] # None /\ v[e.doc].status = AgreedStatus
  <2>1. e.doc \in Docs \ Left(w)
    BY <1>1, <1>4, <1>11 DEF Entry
  <2>2. /\ w.op \in Enters /\ e.day = day
        /\ e.lines /\ w.saved[e.doc] # None /\ w.saved[e.doc].status = AgreedStatus
    BY <1>3, <1>11, <2>1 DEF News, Finished, Done
  <2>3. QED BY <1>6, <2>1, <2>2
<1>12. EntryOfAgreed'
  <2>1. ASSUME NEW e \in entries
        PROVE  (v[e.doc].status = AgreedStatus /\ e.lines) \/ e.doc \in clashed \cup torn
    <3>1. e.doc \in Docs
      BY <1>3 DEF Entry
    <3>2. CASE w.saved[e.doc] = None
      BY <1>3, <1>6, <3>1, <3>2 DEF EntryOfAgreed
    <3>3. CASE w.saved[e.doc] # None
      <4>1. CASE rows[e.doc] # w.seen[e.doc]
        BY <1>7, <3>1, <3>3, <4>1
      <4>2. CASE rows[e.doc] = w.seen[e.doc] /\ rows[e.doc].status = AgreedStatus /\ e.lines
        BY <1>3, <1>4, <1>7, <3>1, <3>3, <4>2, Agreeing
      <4>3. QED BY <1>3, <4>1, <4>2 DEF EntryOfAgreed
    <3>4. QED BY <3>2, <3>3
  <2>2. ASSUME NEW e \in w.new
        PROVE  (v[e.doc].status = AgreedStatus /\ e.lines) \/ e.doc \in clashed \cup torn'
    BY <1>11
  <2>3. AgreedStatus' = AgreedStatus
    BY DEF AgreedStatus
  <2>4. QED BY <1>2, <1>5, <2>1, <2>2, <2>3 DEF EntryOfAgreed
<1>13. \A d \in Docs : Known(d) => Known(d)'
  BY <1>5 DEF Known
<1>14. Kept'
  <2>1. ASSUME NEW d \in Docs, w.saved[d] = None
        PROVE  Plain(v[d]) /\ (MustHaveEntry(d)' => Known(d)' \/ d \in torn')
    BY <1>2, <1>3, <1>6, <1>13, <2>1 DEF Kept, MustHaveEntry
  <2>2. ASSUME NEW d \in Docs, w.saved[d] # None
        PROVE  Plain(v[d]) /\ (MustHaveEntry(d)' => Known(d)' \/ d \in torn')
    <3>1. /\ v[d].wanted => w.seen[d].wanted \/ w.op = "reconcile_and_enter"
          /\ w.op = "reconcile_and_enter" => v[d].status = "RECONCILED"
          /\ v[d].status = "POSTED" => w.op = "post"
          /\ w.op = "reject" => v[d].status = "REJECTED"
      BY <1>3, <1>4, <1>7, <2>2, SavedFacts
    <3>2. ~w.seen[d].wanted
      BY <1>7, <2>2 DEF Plain, StartsFrom
    <3>3. Plain(v[d])
      BY <3>1, <3>2 DEF Plain
    <3>4. MustHaveEntry(d)' => w.op \in SavesFirst \cup {"post"}
      <4>1. kind = "petty_cash" /\ v[d].status = "APPROVED" => w.op = "approve_and_enter"
        BY <1>4, <3>1 DEF OpsOf
      <4>2. QED BY <1>2, <3>1, <3>2, <4>1 DEF MustHaveEntry, SavesFirst
    <3>5. w.op \in SavesFirst \cup {"post"} => Known(d)' \/ d \in torn'
      <4>1. CASE d \in Left(w)
        BY <1>1, <2>2, <4>1
      <4>2. CASE d \notin Left(w)
        <5>1. w.op \in SavesFirst \cup {"post"} => (\E e \in w.new : e.doc = d) \/ Known(d)
          BY <1>3, <2>2, <4>2 DEF Finished, Done
        <5>2. (\E e \in w.new : e.doc = d) => Known(d)'
          BY <1>5 DEF Known
        <5>3. QED BY <1>13, <5>1, <5>2
      <4>3. QED BY <4>1, <4>2
    <3>6. QED BY <3>3, <3>4, <3>5
  <2>3. QED BY <1>2, <2>1, <2>2 DEF Kept, Plain
<1>15. ASSUME kind = "recurring", NEW e \in w.new
       PROVE  w.op = "generate" /\ e.doc \in Docs /\ w.saved[e.doc] # None /\ e.day = day
  <2>1. w.op \in Enters
    BY <1>3, <1>15 DEF News
  <2>2. w.op = "generate"
    BY <1>4, <1>15, <2>1 DEF OpsOf, Enters, SavesFirst
  <2>3. QED BY <1>1, <1>11, <1>15, <2>2
<1>16. \A d \in Docs : w.op = "generate" /\ w.saved[d] # None => v[d].due = day + Interval
  BY <1>3, <1>4, <1>7, SavedFacts
<1>17. Ahead'
  <2>1. ASSUME kind = "recurring", NEW e \in entries
        PROVE  v[e.doc].due - e.day >= Interval \/ e.doc \in clashed
    <3>1. e.doc \in Docs /\ e.day \in Nat /\ e.day <= day
      BY <1>3, <2>1, DaysAssumption DEF Entry, Keyed
    <3>2. rows[e.doc].due - e.day >= Interval \/ e.doc \in clashed
      BY <1>3, <2>1 DEF Ahead
    <3>3. CASE w.saved[e.doc] = None
      BY <1>6, <3>1, <3>2, <3>3
    <3>4. CASE w.saved[e.doc] # None /\ w.op = "generate"
      BY <1>3, <1>16, <3>1, <3>4, DaysAssumption
    <3>5. CASE w.saved[e.doc] # None /\ w.op = "stop"
      <4>1. v[e.doc].due = w.seen[e.doc].due
        BY <1>3, <1>4, <1>7, <3>1, <3>5, SavedFacts
      <4>2. QED BY <1>7, <3>1, <3>2, <3>5, <4>1
    <3>6. CASE w.saved[e.doc] # None /\ w.op = "reschedule"
      BY <1>3, <3>1, <3>6 DEF Saves
    <3>7. QED BY <1>4, <2>1, <3>3, <3>4, <3>5, <3>6 DEF OpsOf
  <2>2. ASSUME kind = "recurring", NEW e \in w.new
        PROVE  v[e.doc].due - e.day >= Interval
    BY <1>3, <1>15, <1>16, <2>2, DaysAssumption
  <2>3. QED BY <1>2, <1>5, <2>1, <2>2 DEF Ahead
<1>18. SpacedOut'
  <2>1. ASSUME kind = "recurring", NEW e \in entries, NEW f \in w.new, e.doc = f.doc
        PROVE  f.day - e.day >= Interval \/ e.doc \in clashed
    <3>1. /\ e.doc \in Docs /\ e.day \in Nat /\ f.day = day
          /\ w.op = "generate" /\ w.saved[e.doc] # None
      BY <1>3, <1>15, <2>1, DaysAssumption DEF Entry
    <3>2. w.seen[e.doc].due <= day /\ w.seen[e.doc].due \in Int
      BY <1>3, <1>7, <3>1 DEF Sight, Rows
    <3>3. rows[e.doc].due - e.day >= Interval \/ e.doc \in clashed
      BY <1>3, <2>1 DEF Ahead
    <3>4. rows[e.doc] = w.seen[e.doc] \/ e.doc \in clashed
      BY <1>7, <3>1
    <3>5. QED BY <1>3, <3>1, <3>2, <3>3, <3>4, DaysAssumption
  <2>2. ASSUME kind = "recurring", NEW e \in w.new, NEW f \in entries'
        PROVE  ~(e.day < f.day)
    <3>1. e.day = day /\ f.day <= day /\ f.day \in Nat
      BY <1>3, <1>4, <1>5, <1>15, <2>2, DaysAssumption DEF Keyed, News, Entry
    <3>2. QED BY <1>3, <3>1
  <2>3. QED BY <1>3, <1>5, <2>1, <2>2 DEF SpacedOut
<1>19. \A g \in Handlers : work'[g] = IF g = h THEN Idle ELSE work[g]
  BY DEF Reset, Inv, Committed, TypeOK
<1>20. ASSUME NEW g \in Handlers PROVE Lawful(work[g])'
  <2>1. CASE g = h
    <3>1. PICK x : x = Idle
      OBVIOUS
    <3>2. Besides(x) /\ Saves(x) /\ x.new = {} /\ \A d \in Docs : x.saved[d] = None
      BY <3>1, IdleRequest, IdleFacts
    <3>3. Besides(x)'
      BY <1>3, <1>13, <3>2, NoneAssumption, SteadyRequest
    <3>4. Saves(x)'
      BY <3>2 DEF Saves
    <3>5. QED BY <1>19, <2>1, <3>1, <3>3, <3>4 DEF Lawful
  <2>2. CASE g # h
    <3>1. PICK x : x = work[g]
      OBVIOUS
    <3>2. Besides(x) /\ Saves(x) /\ Apart(x, w)
      BY <1>1, <2>2, <3>1 DEF Inv, Lawful
    <3>3. Besides(x)'
      <4>1. \A e \in x.new, f \in entries' : e.key # f.key
        BY <1>5, <3>2 DEF Besides, News, Apart
      <4>2. QED BY <1>3, <1>13, <3>2, <4>1, NoneAssumption, SteadyRequest
    <3>4. Saves(x)'
      <4>1. \A d \in Docs : x.saved[d] # None => rows'[d] = rows[d]
        BY <1>2, <1>6, <3>2 DEF Apart
      <4>2. \A op, r, date : Saved(op, r, date)' = Saved(op, r, date)
        BY DEF Saved, NextDue
      <4>3. QED BY <3>2, <4>1, <4>2 DEF Saves
    <3>5. QED BY <1>19, <2>2, <3>1, <3>3, <3>4 DEF Lawful
  <2>3. QED BY <2>1, <2>2
<1>21. ASSUME NEW g \in Handlers, NEW k \in Handlers, g # k
       PROVE  Apart(work'[g], work'[k])
  <2>1. CASE g # h /\ k # h
    BY <1>19, <1>21, <2>1 DEF Inv
  <2>2. CASE g = h \/ k = h
    BY <1>19, <2>2, IdleFacts DEF Apart
  <2>3. QED BY <2>1, <2>2
<1>22. (\A g, k \in Handlers : g # k => Apart(work[g], work[k]))'
  BY <1>21 DEF Apart
<1>23. QED BY ONLY <1>9, <1>10, <1>12, <1>14, <1>17, <1>18, <1>20, <1>22 DEF Inv, Committed

LEMMA CommitKeeps ==
    ASSUME Inv, NEW h \in Handlers, Commit(h)
    PROVE  Inv'
<1>1. Left(work[h]) = {}
  BY NoneLeft DEF Commit, Left, Inv, Committed, TypeOK, Requests
<1>2. PICK late : late = {}
  OBVIOUS
<1>3. torn' = torn \cup late /\ late \in SUBSET Docs
  BY <1>2 DEF Commit
<1>4. QED BY <1>1, <1>2, <1>3, WrittenStep DEF Commit

LEMMA HangUpKeeps ==
    ASSUME Inv, NEW h \in Handlers, HangUp(h)
    PROVE  Inv'
<1>1. PICK w : w = work[h]
  OBVIOUS
<1>2. PICK late : late = {At(w)}
  OBVIOUS
<1>3. Shape(w) /\ ToCome(w) /\ w \in Requests /\ w.todo # <<>> /\ w.op # "generate"
  BY <1>1 DEF HangUp, Inv, Lawful, Besides, Committed, TypeOK
<1>4. At(w) \in Docs
  BY <1>3, TailFacts DEF At, Shape, Requests
<1>5. torn' = torn \cup late /\ late \in SUBSET Docs
  BY <1>1, <1>2, <1>4 DEF HangUp
<1>6. \A d \in Left(w) : \/ d \in late
                         \/ w.saved[d] = None /\ \A e \in w.new : e.doc # d
  BY <1>2, <1>3 DEF ToCome
<1>7. QED BY <1>1, <1>3, <1>5, <1>6, WrittenStep DEF HangUp

-----------------------------------------------------------------------------
(* What goes on around the requests.                                       *)

LEMMA DeleteEntryKeeps ==
    ASSUME Inv, NEW e \in entries, DeleteEntry(e)
    PROVE  Inv'
<1>1. /\ entries' = entries \ {e}
      /\ deleted' = IF kind = "recurring" THEN deleted ELSE deleted \cup {e.doc}
      /\ UNCHANGED <<kind, rows, work, open, day, clashed, torn>>
  BY DEF DeleteEntry
<1>2. /\ TypeOK /\ Keyed /\ Kept /\ EntryOfAgreed /\ Ahead /\ SpacedOut
      /\ kind \in Kinds /\ e.doc \in Docs
  BY DEF Inv, Committed, TypeOK, Entry
<1>3. kind # "recurring" => \A d \in Docs : Known(d) => Known(d)'
  BY <1>1 DEF Known
<1>4. TypeOK'
  BY <1>1, <1>2 DEF TypeOK
<1>5. Keyed'
  BY <1>1, <1>2 DEF Keyed
<1>6. EntryOfAgreed' /\ Ahead' /\ SpacedOut'
  BY <1>1, <1>2 DEF EntryOfAgreed, AgreedStatus, Ahead, SpacedOut
<1>7. Kept'
  <2>1. ASSUME NEW d \in Docs
        PROVE  Plain(rows[d]) /\ (MustHaveEntry(d)' => Known(d)' \/ d \in torn)
    <3>1. MustHaveEntry(d)' => MustHaveEntry(d) /\ kind # "recurring"
      BY <1>1 DEF MustHaveEntry
    <3>2. MustHaveEntry(d) => Known(d) \/ d \in torn
      BY <1>2 DEF Kept
    <3>3. QED BY <1>2, <1>3, <3>1, <3>2 DEF Kept
  <2>2. QED BY <1>1, <2>1 DEF Kept, Plain
<1>8. ASSUME NEW g \in Handlers PROVE Lawful(work[g])'
  <2>1. PICK x : x = work[g]
    OBVIOUS
  <2>2. Besides(x) /\ Saves(x)
    BY <2>1 DEF Inv, Lawful
  <2>3. \A a \in x.new, f \in entries' : a.key # f.key
    BY <1>1, <2>2 DEF Besides, News
  <2>4. Besides(x)'
    BY <1>1, <1>2, <1>3, <2>2, <2>3, NoneAssumption, SteadyRequest
  <2>5. Saves(x)'
    BY <1>1, <2>2, SteadySaves
  <2>6. QED BY <1>1, <2>1, <2>4, <2>5 DEF Lawful
<1>9. (\A g, k \in Handlers : g # k => Apart(work[g], work[k]))'
  BY <1>1 DEF Inv, Apart
<1>10. QED BY ONLY <1>4, <1>5, <1>6, <1>7, <1>8, <1>9 DEF Inv, Committed

LEMMA TurnPeriodKeeps ==
    ASSUME Inv, TurnPeriod
    PROVE  Inv'
<1>1. /\ open' \in BOOLEAN
      /\ UNCHANGED <<kind, rows, entries, work, day, clashed, torn, deleted>>
  BY DEF TurnPeriod
<1>2. TypeOK'
  BY <1>1 DEF Inv, Committed, TypeOK
<1>3. Keyed' /\ Kept' /\ EntryOfAgreed' /\ Ahead' /\ SpacedOut'
  BY <1>1 DEF Inv, Committed, Keyed, Kept, Plain, MustHaveEntry, Known, EntryOfAgreed,
              AgreedStatus, Ahead, SpacedOut
<1>4. ASSUME NEW g \in Handlers PROVE Lawful(work[g])'
  <2>1. PICK x : x = work[g]
    OBVIOUS
  <2>2. Besides(x) /\ Saves(x) /\ kind \in Kinds
    BY <2>1 DEF Inv, Lawful, Committed, TypeOK
  <2>3. \A d \in Docs : Known(d) => Known(d)'
    BY <1>1 DEF Known
  <2>4. Besides(x)'
    BY <1>1, <2>2, <2>3, NoneAssumption, SteadyRequest DEF Besides, News
  <2>5. Saves(x)'
    BY <1>1, <2>2, SteadySaves
  <2>6. QED BY <1>1, <2>1, <2>4, <2>5 DEF Lawful
<1>5. (\A g, k \in Handlers : g # k => Apart(work[g], work[k]))'
  BY <1>1 DEF Inv, Apart
<1>6. QED BY ONLY <1>2, <1>3, <1>4, <1>5 DEF Inv, Committed

LEMMA NextDayKeeps ==
    ASSUME Inv, NextDay
    PROVE  Inv'
<1>1. /\ day < LastDay /\ day' = day + 1
      /\ \A g \in Handlers : ~Busy(g)
      /\ UNCHANGED <<kind, rows, entries, work, open, clashed, torn, deleted>>
  BY DEF NextDay
<1>2. TypeOK /\ Keyed /\ Kept /\ EntryOfAgreed /\ Ahead /\ SpacedOut /\ kind \in Kinds
  BY DEF Inv, Committed, TypeOK
<1>3. TypeOK'
  <2>1. day \in 0 .. LastDay
    BY <1>2 DEF TypeOK
  <2>2. day + 1 \in 0 .. LastDay
    BY <1>1, <2>1, DaysAssumption
  <2>3. QED BY <1>1, <1>2, <2>2 DEF TypeOK
<1>4. Keyed'
  <2>1. \A e \in entries : e.day \in Nat /\ day \in Nat
    BY <1>2, DaysAssumption DEF TypeOK, Entry
  <2>2. QED BY <1>1, <1>2, <2>1 DEF Keyed
<1>5. Kept' /\ EntryOfAgreed' /\ Ahead' /\ SpacedOut'
  BY <1>1, <1>2 DEF Kept, Plain, MustHaveEntry, Known, EntryOfAgreed, AgreedStatus, Ahead, SpacedOut
<1>6. ASSUME NEW g \in Handlers PROVE work[g] = Idle
  BY <1>1, <1>6 DEF Inv, Lawful, Besides, Shape, Busy
<1>7. ASSUME NEW g \in Handlers PROVE Lawful(work[g])'
  <2>1. PICK x : x = Idle
    OBVIOUS
  <2>2. x = work'[g]
    BY <1>1, <1>6, <2>1
  <2>3. /\ Left(x) = {} /\ x.new = {} /\ x.found = {} /\ x.op = None /\ x.todo = <<>>
        /\ \A d \in Docs : x.saved[d] = None /\ ~x.seen[d].wanted
        /\ x \in Requests /\ Distinct(x.todo) /\ x.op # "reschedule"
    BY <2>1, IdleFacts, NoneLeft, NoneAssumption
       DEF Left, Distinct, Requests, Ops, OpsOf, Kinds
  <2>4. Shape(x)'
    BY <2>1, <2>3 DEF Shape
  <2>5. Sight(x)'
    BY <2>3 DEF Sight, Plain
  <2>6. /\ News(x)' /\ ToCome(x)' /\ InHand(x)' /\ Finished(x)' /\ Found(x)' /\ Saves(x)'
    BY <2>3 DEF News, ToCome, InHand, Finished, Done, Found, Saves
  <2>7. QED BY <2>2, <2>4, <2>5, <2>6 DEF Lawful, Besides
<1>8. (\A g, k \in Handlers : g # k => Apart(work[g], work[k]))'
  BY <1>1 DEF Inv, Apart
<1>9. QED BY ONLY <1>3, <1>4, <1>5, <1>7, <1>8 DEF Inv, Committed

-----------------------------------------------------------------------------
(* The invariant and the theorems.                                         *)

LEMMA InitInv == Init => Inv
<1>1. SUFFICES ASSUME Init PROVE Inv
  OBVIOUS
<1>2. Fresh \in Rows /\ ~Fresh.wanted /\ Fresh.status = "PENDING"
  BY DEF Fresh, Rows, Statuses
<1>3. TypeOK
  BY <1>1, <1>2, IdleFacts, DaysAssumption DEF Init, TypeOK
<1>4. Keyed /\ EntryOfAgreed /\ Ahead /\ SpacedOut
  BY <1>1 DEF Init, Keyed, EntryOfAgreed, Ahead, SpacedOut
<1>5. Kept
  BY <1>1, <1>2 DEF Init, Kept, Plain, MustHaveEntry
<1>6. \A h \in Handlers : work[h] = Idle
  BY <1>1 DEF Init
<1>7. \A h \in Handlers : Lawful(work[h])
  BY <1>6, IdleRequest DEF Lawful
<1>8. \A g, h \in Handlers : g # h => Apart(work[g], work[h])
  BY <1>6, IdleFacts DEF Apart
<1>9. QED BY <1>3, <1>4, <1>5, <1>7, <1>8 DEF Inv, Committed

LEMMA NextInv == Inv /\ [Next]_vars => Inv'
<1>1. SUFFICES ASSUME Inv, [Next]_vars PROVE Inv'
  OBVIOUS
<1>2. CASE \E h \in Handlers, op \in Ops, d \in Docs, date \in Dates \cup {None} :
             Begin(h, op, d, date)
  BY <1>1, <1>2, BeginKeeps
<1>3. CASE \E h \in Handlers, op \in Batched : BeginBatch(h, op)
  BY <1>1, <1>3, BeginBatchKeeps
<1>4. ASSUME NEW h \in Handlers,
             \/ Check(h) \/ SaveDoc(h) \/ SkipEntry(h) \/ Enter(h) \/ Duplicate(h)
             \/ FailOne(h) \/ WriteLines(h) \/ Commit(h) \/ Rollback(h) \/ HangUp(h)
      PROVE  Inv'
  BY <1>1, <1>4, CheckKeeps, SaveDocKeeps, SkipEntryKeeps, EnterKeeps, DuplicateKeeps,
     FailOneKeeps, WriteLinesKeeps, CommitKeeps, RollbackKeeps, HangUpKeeps
<1>5. CASE \E e \in entries : DeleteEntry(e)
  BY <1>1, <1>5, DeleteEntryKeeps
<1>6. CASE TurnPeriod
  BY <1>1, <1>6, TurnPeriodKeeps
<1>7. CASE NextDay
  BY <1>1, <1>7, NextDayKeeps
<1>8. CASE UNCHANGED vars
  <2>1. UNCHANGED <<kind, rows, entries, work, open, day, clashed, torn, deleted>>
    BY <1>8 DEF vars
  <2>2. TypeOK' /\ Keyed' /\ Kept' /\ EntryOfAgreed' /\ Ahead' /\ SpacedOut'
    BY <1>1, <2>1 DEF Inv, Committed, TypeOK, Keyed, Kept, Plain, MustHaveEntry, Known,
                      EntryOfAgreed, AgreedStatus, Ahead, SpacedOut
  <2>3. ASSUME NEW g \in Handlers PROVE Lawful(work[g])'
    <3>1. PICK x : x = work[g]
      OBVIOUS
    <3>2. Besides(x) /\ Saves(x) /\ kind \in Kinds
      BY <1>1, <3>1 DEF Inv, Lawful, Committed, TypeOK
    <3>3. \A d \in Docs : Known(d) => Known(d)'
      BY <2>1 DEF Known
    <3>4. Besides(x)'
      BY <2>1, <3>2, <3>3, NoneAssumption, SteadyRequest DEF Besides, News
    <3>5. Saves(x)'
      BY <2>1, <3>2, SteadySaves
    <3>6. QED BY <2>1, <3>1, <3>4, <3>5 DEF Lawful
  <2>4. (\A g, k \in Handlers : g # k => Apart(work[g], work[k]))'
    BY <1>1, <2>1 DEF Inv, Apart
  <2>5. QED BY ONLY <2>2, <2>3, <2>4 DEF Inv, Committed
<1>9. QED BY <1>1, <1>2, <1>3, <1>4, <1>5, <1>6, <1>7, <1>8 DEF Next

LEMMA InvHolds == Spec => []Inv
BY InitInv, NextInv, PTL DEF Spec

\* Every document, entry and request keeps its type.
THEOREM TypesHold == Spec => []TypeOK
<1>1. Inv => TypeOK
  BY DEF Inv, Committed
<1>2. QED BY <1>1, InvHolds, PTL

\* An entry in the journal belongs to a document that is approved, reconciled
\* or posted and has its lines, whatever requests, scheduler runs, rollbacks
\* and abandoned requests interleave; but for a decision that was saved over
\* another one and for a client that hung up half-way.
THEOREM AgreedHolds == Spec => []EntryOfAgreed
<1>1. Inv => EntryOfAgreed
  BY DEF Inv, Committed
<1>2. QED BY <1>1, InvHolds, PTL

\* A document has at most one entry, and one that must have its entry has it:
\* the unique key holds back whoever enters it again, at the check or at the
\* insert.
THEOREM OnceHolds == Spec => []EntryOnce
<1>1. Inv => EntryOnce
  <2>1. SUFFICES ASSUME Inv, NEW d \in Docs, NEW mine, mine = {e \in entries : e.doc = d}
                 PROVE  /\ kind # "recurring" => Cardinality(mine) <= 1
                        /\ MustHaveEntry(d) => mine # {} \/ d \in torn \cup deleted
    BY DEF EntryOnce
  <2>2. ASSUME kind # "recurring" PROVE Cardinality(mine) <= 1
    <3>1. \A e, f \in mine : e = f
      BY <2>1, <2>2 DEF Inv, Committed, Keyed
    <3>2. CASE mine = {}
      <4>1. Cardinality(mine) = 0
        BY <3>2, FS_EmptySet
      <4>2. QED BY <4>1
    <3>3. CASE mine # {}
      <4>1. PICK e : e \in mine
        BY <3>3
      <4>2. mine = {e}
        BY <3>1, <4>1
      <4>3. Cardinality(mine) = 1
        BY <4>2, FS_Singleton
      <4>4. QED BY <4>3
    <3>4. QED BY <3>2, <3>3
  <2>3. MustHaveEntry(d) => mine # {} \/ d \in torn \cup deleted
    BY <2>1 DEF Inv, Committed, Kept, Known
  <2>4. QED BY <2>2, <2>3
<1>2. QED BY <1>1, InvHolds, PTL

\* Two entries of a recurring entry are an interval apart, however often and
\* late the scheduler runs, unless an admin gave it another due date or saved
\* what the scheduler had meanwhile moved on.
THEOREM SpacedHolds == Spec => []SpacedOut
<1>1. Inv => SpacedOut
  BY DEF Inv, Committed
<1>2. QED BY <1>1, InvHolds, PTL

=============================================================================
