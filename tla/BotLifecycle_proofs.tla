------------------------ MODULE BotLifecycle_proofs -------------------------
(***************************************************************************)
(* Theorems about BotLifecycle, for every number of updates, workers,      *)
(* attempts and faults.  Two invariants carry them: one of the process, of *)
(* what may end a context, and one of each update, which accounts for the  *)
(* copies the customer sees while nothing has cut its handler short.       *)
(***************************************************************************)
EXTENDS BotLifecycle, SequenceTheorems, TLAPS

\* A context ends for a reason; workers stop, and Run returns, after a signal.
ProcessInv ==
    /\ run # "polling" => stopped = Workers
    /\ stopped > 0 => signalled
    /\ drain # "watching" => signalled
    /\ base = "done" => signalled /\ (drain = "over" \/ run # "polling")

\* The places before an update is answered, those where the answer is awaited.
Before  == {"queued", "placeholder", "call", "wait", "error"}
Waiting == {"call", "wait"}
Mains   == {"answer", "error"}

\* The texts of a handler: the main one, of which there is one, comes first.
Shape(u) ==
    /\ where[u] = "queued" =>
          hiccups[u] = 0 /\ ~known[u] /\ \A t \in Texts : seen[u][t] = 0
    /\ where[u] = "placeholder" => todo[u] = <<"placeholder">>
    /\ where[u] \in Before => plan[u] = {} /\ seen[u]["answer"] = 0 /\ seen[u]["error"] = 0
    /\ where[u] = "deliver" =>
          /\ todo[u] # <<>>
          /\ \A i \in DOMAIN todo[u] : todo[u][i] # "placeholder"
          /\ \A i \in DOMAIN todo[u] : i > 1 => todo[u][i] \notin Mains
          /\ todo[u][1] = "answer" => seen[u]["error"] = 0
          /\ todo[u][1] = "error" => seen[u]["answer"] = 0
    /\ known[u] /\ seen[u]["answer"] = 0 /\ seen[u]["error"] = 0 => seen[u]["placeholder"] > 0
    /\ "placeholder" \notin plan[u]

\* Fewer requests failed than an attempt at each text allows for.
Limit(u)  == IF kind[u] = "keyboard" THEN 1 ELSE Retries
Steady(u) == ~Cut(u) /\ hiccups[u] < Limit(u)

Unseen(u, t) == seen[u][t] = 0
Arrived(u, t) == seen[u][t] \in 1..(1 + hiccups[u])

\* The placeholder, before its answer: known, or never sent.
PlaceholderStands(u) ==
    IF known[u] THEN seen[u]["placeholder"] <= 1 + hiccups[u]
    ELSE Unseen(u, "placeholder")

\* What the customer sees while the placeholder is sent, while the answer is
\* awaited, while its texts are delivered, and at the end.
AtPlaceholder(u) ==
    /\ kind[u] = "message" /\ ~known[u]
    /\ attempt[u] <= 1 + hiccups[u]
    /\ seen[u]["placeholder"] < attempt[u]
    /\ \A t \in Texts : t # "placeholder" => Unseen(u, t)

AtCall(u) ==
    /\ \A t \in Texts : t # "placeholder" => Unseen(u, t)
    /\ PlaceholderStands(u)
    /\ known[u] => kind[u] = "message"

AtDelivery(u) ==
    /\ attempt[u] <= 1 + hiccups[u]
    /\ \A t \in plan[u] : Arrived(u, t) \/ \E i \in DOMAIN todo[u] : todo[u][i] = t
    /\ \A i \in DOMAIN todo[u] : i > 1 => Unseen(u, todo[u][i])
    /\ \A i, j \in DOMAIN todo[u] : todo[u][i] = todo[u][j] => i = j
    /\ seen[u][todo[u][1]] < attempt[u]
    /\ IF todo[u][1] \in Mains /\ Unseen(u, todo[u][1])
       THEN PlaceholderStands(u)
       ELSE seen[u]["placeholder"] <= hiccups[u]

AtReturn(u) ==
    /\ \A t \in plan[u] : Arrived(u, t)
    /\ seen[u]["placeholder"] <= hiccups[u]

\* The account of a handler that was not cut short.
Account(u) == Steady(u) =>
    /\ where[u] # "error"
    /\ where[u] = "placeholder" => AtPlaceholder(u)
    /\ where[u] \in Waiting => AtCall(u)
    /\ where[u] = "deliver" => AtDelivery(u)
    /\ where[u] = "return" => AtReturn(u)

UpdateInv == \A u \in Updates : Shape(u) /\ Account(u)

IInv == TypeOK /\ ProcessInv /\ UpdateInv

-----------------------------------------------------------------------------
(* The other updates                                                       *)

\* A step of a handler leaves the process as it was.
LEMMA ProcessSame ==
    ASSUME ProcessInv, UNCHANGED process
    PROVE  ProcessInv'
  BY DEF ProcessInv, process

\* Nothing that belongs to an update changes.
Same(v) ==
    /\ where'[v] = where[v] /\ kind'[v] = kind[v] /\ todo'[v] = todo[v]
    /\ attempt'[v] = attempt[v] /\ known'[v] = known[v] /\ seen'[v] = seen[v]
    /\ plan'[v] = plan[v] /\ hiccups'[v] = hiccups[v]

\* What ends a handler's context while it runs does not revive it.
LEMMA Frame ==
    ASSUME NEW v \in Updates, Shape(v), Account(v), Same(v), Cut(v) => Cut(v)'
    PROVE  Shape(v)' /\ Account(v)'
  <1>1. Shape(v)'
    BY DEF Shape, Same
  <1>2. Steady(v)' => Steady(v)
    BY DEF Steady, Limit, Same
  <1>3. Account(v)'
    BY <1>2 DEF Account, AtPlaceholder, AtCall, AtDelivery, AtReturn, Same,
        PlaceholderStands, Unseen, Arrived
  <1> QED BY <1>1, <1>3

\* A step of the process, or of one update, keeps the accounts of all others.
LEMMA FrameAll ==
    ASSUME IInv, UNCHANGED <<where, kind, delivery>>,
           \A v \in Updates : Cut(v) => Cut(v)'
    PROVE  UpdateInv'
  <1> SUFFICES ASSUME NEW v \in Updates PROVE Shape(v)' /\ Account(v)'
    BY DEF UpdateInv
  <1> QED BY Frame DEF IInv, UpdateInv, Same, delivery

\* A step of one update leaves the accounts of all others alone.
LEMMA FrameOthers ==
    ASSUME IInv, NEW u \in Updates, UNCHANGED base,
           \A v \in Updates \ {u} : Same(v) /\ (v \in expired => v \in expired'),
           Shape(u)' /\ Account(u)'
    PROVE  UpdateInv'
  <1> SUFFICES ASSUME NEW v \in Updates, v # u PROVE Shape(v)' /\ Account(v)'
    BY DEF UpdateInv
  <1>1. Cut(v) => Cut(v)'
    BY DEF Cut
  <1> QED BY <1>1, Frame DEF IInv, UpdateInv

-----------------------------------------------------------------------------
(* The texts of a reply                                                    *)

\* The sequence Answered plans: the answer, then the first n extras.
LEMMA ReplyTexts ==
    ASSUME NEW n \in 0..MaxExtras, NEW texts, texts = <<"answer">> \o SubSeq(Extras, 1, n)
    PROVE  /\ texts \in Seq(Texts) /\ DOMAIN texts = 1..(n + 1)
           /\ texts[1] = "answer"
           /\ \A i \in 2..(n + 1) : texts[i] = Extras[i - 1]
  <1>1. n \in 0..4
    BY LifecycleAssumption
  <1>2. Extras \in Seq(Texts) /\ Len(Extras) = 4
    BY DEF Extras, Texts
  <1>3. /\ SubSeq(Extras, 1, n) \in Seq(Texts)
        /\ Len(SubSeq(Extras, 1, n)) = n
        /\ \A i \in 1..n : SubSeq(Extras, 1, n)[i] = Extras[i]
    <2>1. 1 \in Int /\ n \in Int /\ \A i \in 1..n : Extras[i] \in Texts
      BY <1>1 DEF Texts
    <2>2. /\ SubSeq(Extras, 1, n) \in Seq(Texts)
          /\ Len(SubSeq(Extras, 1, n)) = IF 1 <= n THEN n - 1 + 1 ELSE 0
          /\ \A i \in 1..(n - 1 + 1) : SubSeq(Extras, 1, n)[i] = Extras[1 + i - 1]
      BY <2>1, SubSeqProperties
    <2> QED BY <1>1, <2>2
  <1>4. <<"answer">> \in Seq(Texts) /\ Len(<<"answer">>) = 1
    BY DEF Texts
  <1> QED BY <1>1, <1>3, <1>4, ConcatProperties

\* It names every text once, and one main text.
LEMMA ReplyTextsDiffer ==
    ASSUME NEW n \in 0..MaxExtras, NEW texts, texts = <<"answer">> \o SubSeq(Extras, 1, n)
    PROVE  /\ \A i \in DOMAIN texts : texts[i] # "placeholder"
           /\ \A i \in DOMAIN texts : i > 1 => texts[i] \notin Mains
           /\ \A i, j \in DOMAIN texts : texts[i] = texts[j] => i = j
  <1>1. n \in 0..4
    BY LifecycleAssumption
  <1>2. \A i \in 1..4 : Extras[i] \notin Mains \cup {"placeholder"}
    BY DEF Extras, Mains
  <1>3. \A i, j \in 1..4 : Extras[i] = Extras[j] => i = j
    BY DEF Extras
  <1>4. \A i \in 2..(n + 1) : i - 1 \in 1..4 /\ texts[i] = Extras[i - 1]
    BY <1>1, ReplyTexts
  <1>5. \A i \in DOMAIN texts : i = 1 \/ i \in 2..(n + 1)
    BY <1>1, ReplyTexts
  <1>6. texts[1] = "answer"
    BY ReplyTexts
  <1>7. \A i \in DOMAIN texts : texts[i] # "placeholder"
    <2> SUFFICES ASSUME NEW i \in DOMAIN texts PROVE texts[i] # "placeholder"
      OBVIOUS
    <2>1. CASE i = 1
      BY <1>6, <2>1
    <2>2. CASE i \in 2..(n + 1)
      BY <1>2, <1>4, <2>2
    <2> QED BY <1>5, <2>1, <2>2
  <1>8. \A i \in DOMAIN texts : i > 1 => texts[i] \notin Mains
    BY <1>2, <1>4, <1>5
  <1>9. ASSUME NEW i \in DOMAIN texts, NEW j \in DOMAIN texts, texts[i] = texts[j] PROVE i = j
    <2>1. CASE i = 1 \/ j = 1
      <3>1. "answer" \in Mains
        BY DEF Mains
      <3>2. texts[i] \in Mains /\ texts[j] \in Mains
        BY <1>6, <1>9, <2>1, <3>1
      <3>3. ~(i > 1) /\ ~(j > 1)
        BY <1>8, <3>2
      <3> QED BY <1>1, <1>5, <3>3
    <2>2. CASE i # 1 /\ j # 1
      <3>1. Extras[i - 1] = Extras[j - 1] /\ i - 1 \in 1..4 /\ j - 1 \in 1..4
        BY <1>4, <1>5, <1>9, <2>2
      <3>2. i - 1 = j - 1
        BY <1>3, <3>1
      <3>3. i \in Int /\ j \in Int
        BY <1>1, <1>5
      <3> QED BY <3>2, <3>3
    <2> QED BY <2>1, <2>2
  <1> QED BY <1>7, <1>8, <1>9

LEMMA ShortTexts ==
    /\ <<>> \in Seq(Texts) /\ <<"placeholder">> \in Seq(Texts) /\ <<"error">> \in Seq(Texts)
  BY DEF Texts

LEMMA PlanType ==
    ASSUME TypeOK, NEW u \in Updates, NEW texts \in Seq(Texts), Plan(u, texts)
    PROVE  todo' \in [Updates -> Seq(Texts)] /\ attempt' \in [Updates -> 1..Retries]
  <1>1. 1 \in 1..Retries
    BY LifecycleAssumption
  <1> QED BY <1>1 DEF Plan, TypeOK

\* What is left of a plan after its first text.
LEMMA Rest ==
    ASSUME NEW s \in Seq(Texts), s # <<>>
    PROVE  /\ Tail(s) \in Seq(Texts) /\ s[1] \in Texts /\ Head(s) = s[1]
           /\ DOMAIN Tail(s) = 1..(Len(s) - 1) /\ DOMAIN s = 1..Len(s)
           /\ Len(s) \in Nat \ {0} /\ Len(Tail(s)) = Len(s) - 1
           /\ \A i \in DOMAIN Tail(s) : i + 1 \in DOMAIN s /\ Tail(s)[i] = s[i + 1]
           /\ \A i \in DOMAIN s : i > 1 => i - 1 \in DOMAIN Tail(s) /\ Tail(s)[i - 1] = s[i]
  OBVIOUS

-----------------------------------------------------------------------------
(* The process                                                             *)

LEMMA InitHolds == Init => IInv
  <1> SUFFICES ASSUME Init PROVE IInv
    OBVIOUS
  <1>1. TypeOK
    <2>1. todo \in [Updates -> Seq(Texts)]
      BY ShortTexts DEF Init
    <2>2. seen \in [Updates -> [Texts -> Nat]] /\ hiccups \in [Updates -> Nat]
      BY DEF Init
    <2>3. /\ grace \in Graces /\ stopped \in 0..Workers /\ faults \in 0..MaxFaults
          /\ attempt \in [Updates -> 1..Retries]
      BY LifecycleAssumption DEF Init
    <2> QED BY <2>1, <2>2, <2>3 DEF Init, TypeOK
  <1>2. ProcessInv
    BY LifecycleAssumption DEF Init, ProcessInv
  <1>3. UpdateInv
    BY DEF Init, UpdateInv, Shape, Account, Before, Waiting, Texts
  <1> QED BY <1>1, <1>2, <1>3 DEF IInv

\* The signal, the workers, Run and its drain.
LEMMA ProcessStep ==
    ASSUME IInv,
           Signal \/ WorkerStops \/ RunReturns \/ ProcessEnds \/ DrainStarts \/ DrainEnds
    PROVE  IInv'
  <1> USE DEF IInv
  <1>1. UNCHANGED <<where, kind, delivery, expired, grace>>
    BY DEF Signal, WorkerStops, RunReturns, ProcessEnds, DrainStarts, DrainEnds
  <1>2. \A v \in Updates : Cut(v) => Cut(v)'
    BY <1>1 DEF Cut, Signal, WorkerStops, RunReturns, ProcessEnds, DrainStarts, DrainEnds
  <1>3. UpdateInv'
    BY <1>1, <1>2, FrameAll
  <1>4. ASSUME Signal PROVE TypeOK' /\ ProcessInv'
    BY <1>4 DEF Signal, TypeOK, ProcessInv, delivery
  <1>5. ASSUME WorkerStops PROVE TypeOK' /\ ProcessInv'
    <2>1. stopped' = stopped + 1 /\ stopped' \in 0..Workers
      BY <1>5, LifecycleAssumption DEF WorkerStops, TypeOK
    <2>2. run = "polling" /\ signalled
      BY <1>5, LifecycleAssumption DEF WorkerStops, ProcessInv, TypeOK
    <2> QED BY <1>5, <2>1, <2>2 DEF WorkerStops, TypeOK, ProcessInv, delivery
  <1>6. ASSUME RunReturns PROVE TypeOK' /\ ProcessInv'
    <2>1. signalled
      BY <1>6, LifecycleAssumption DEF RunReturns, ProcessInv
    <2> QED BY <1>6, <2>1 DEF RunReturns, TypeOK, ProcessInv, delivery
  <1>7. ASSUME ProcessEnds PROVE TypeOK' /\ ProcessInv'
    BY <1>7 DEF ProcessEnds, TypeOK, ProcessInv, delivery
  <1>8. ASSUME DrainStarts PROVE TypeOK' /\ ProcessInv'
    BY <1>8 DEF DrainStarts, TypeOK, ProcessInv, delivery
  <1>9. ASSUME DrainEnds PROVE TypeOK' /\ ProcessInv'
    BY <1>9 DEF DrainEnds, TypeOK, ProcessInv, delivery
  <1> QED BY <1>3, <1>4, <1>5, <1>6, <1>7, <1>8, <1>9

LEMMA DeadlineStep ==
    ASSUME IInv, NEW u \in Updates, DeadlinePasses(u)
    PROVE  IInv'
  <1>1. TypeOK'
    BY DEF DeadlinePasses, IInv, TypeOK, Running, process, delivery
  <1>2. UpdateInv'
    BY FrameAll DEF DeadlinePasses, Cut, process
  <1> QED BY <1>1, <1>2, ProcessSame DEF IInv, DeadlinePasses

-----------------------------------------------------------------------------
(* A handler before its answer                                             *)

LEMMA TakeStep ==
    ASSUME IInv, NEW u \in Updates, Take(u)
    PROVE  IInv'
  <1> USE DEF IInv
  <1>1. ProcessInv'
    BY ProcessSame DEF Take
  <1>2. TypeOK'
    <2> PICK k \in Kinds :
            /\ kind' = [kind EXCEPT ![u] = k]
            /\ IF k = "message" /\ StreamEnabled
               THEN Move(u, "placeholder") /\ Plan(u, <<"placeholder">>)
               ELSE Move(u, "call") /\ UNCHANGED <<todo, attempt>>
      BY DEF Take
    <2>1. todo' \in [Updates -> Seq(Texts)] /\ attempt' \in [Updates -> 1..Retries]
      <3>1. CASE k = "message" /\ StreamEnabled
        BY <3>1, ShortTexts, PlanType
      <3>2. CASE ~(k = "message" /\ StreamEnabled)
        BY <3>2 DEF TypeOK
      <3> QED BY <3>1, <3>2
    <2>2. where' \in [Updates -> {"queued", "placeholder", "call", "wait", "error",
                                  "deliver", "return", "returned"}]
      BY DEF Move, TypeOK
    <2>3. kind' \in [Updates -> Kinds \cup {"none"}]
      BY DEF TypeOK
    <2>4. UNCHANGED <<process, expired, known, seen, plan, hiccups, faults>>
      BY DEF Take
    <2> QED BY <2>1, <2>2, <2>3, <2>4 DEF TypeOK, process
  <1>3. Shape(u) /\ where[u] = "queued"
    BY DEF UpdateInv, Take
  <1>4. hiccups[u] = 0 /\ ~known[u] /\ \A t \in Texts : seen[u][t] = 0
    BY <1>3 DEF Shape
  <1>5. \/ where'[u] = "placeholder" /\ todo'[u] = <<"placeholder">> /\ attempt'[u] = 1
           /\ kind'[u] = "message"
        \/ where'[u] = "call" /\ todo'[u] = todo[u] /\ attempt'[u] = attempt[u]
    BY DEF Take, Move, Plan, TypeOK
  <1>6. Shape(u)'
    BY <1>3, <1>4, <1>5 DEF Take, Shape, Before
  <1>7. Account(u)'
    BY <1>4, <1>5 DEF Take, Account, AtPlaceholder, AtCall, Waiting, Unseen, PlaceholderStands, Texts
  <1>8. \A v \in Updates \ {u} : Same(v)
    BY DEF Take, Move, Plan, Same, TypeOK
  <1>9. UpdateInv'
    BY <1>6, <1>7, <1>8, FrameOthers DEF Take, process
  <1> QED BY <1>1, <1>2, <1>9

LEMMA CallStep ==
    ASSUME IInv, NEW u \in Updates, Call(u)
    PROVE  IInv'
  <1> USE DEF IInv
  <1>1. TypeOK'
    BY DEF Call, Move, TypeOK, process, delivery
  <1>2. Shape(u) /\ Account(u)
    BY DEF UpdateInv
  <1>3. Shape(u)'
    BY <1>2 DEF Call, Move, TypeOK, Shape, Before, delivery
  <1>4. Account(u)'
    <2> SUFFICES ASSUME Steady(u)' PROVE Account(u)'
      BY DEF Account
    <2>1. Steady(u) /\ ~Cut(u)
      BY DEF Steady, Limit, Cut, Call, process, delivery
    <2>2. where'[u] = "wait"
      BY <2>1 DEF Call, Move, TypeOK
    <2> QED BY <1>2, <2>1, <2>2
        DEF Call, Account, AtCall, Waiting, Unseen, PlaceholderStands, delivery
  <1>5. \A v \in Updates \ {u} : Same(v)
    BY DEF Call, Move, Same, TypeOK, delivery
  <1>6. UpdateInv'
    BY <1>3, <1>4, <1>5, FrameOthers DEF Call, process
  <1> QED BY <1>1, <1>6, ProcessSame DEF Call

LEMMA AnsweredStep ==
    ASSUME IInv, NEW u \in Updates, Answered(u)
    PROVE  IInv'
  <1> USE DEF IInv
  <1> PICK n \in 0..MaxExtras :
          LET texts == <<"answer">> \o SubSeq(Extras, 1, n)
          IN  Plan(u, texts) /\ plan' = [plan EXCEPT ![u] = {texts[i] : i \in DOMAIN texts}]
    BY DEF Answered
  <1> DEFINE texts == <<"answer">> \o SubSeq(Extras, 1, n)
  <1>1. /\ texts \in Seq(Texts) /\ DOMAIN texts = 1..(n + 1) /\ texts[1] = "answer"
        /\ \A i \in DOMAIN texts : texts[i] # "placeholder"
        /\ \A i \in DOMAIN texts : i > 1 => texts[i] \notin Mains
        /\ \A i, j \in DOMAIN texts : texts[i] = texts[j] => i = j
    BY ReplyTexts, ReplyTextsDiffer
  <1>2. 1 \in DOMAIN texts
    BY <1>1, LifecycleAssumption
  <1>3. \A i \in DOMAIN texts : texts[i] \in Texts
    BY <1>1
  <1> HIDE DEF texts
  <1>4. /\ todo'[u] = texts /\ attempt'[u] = 1 /\ plan'[u] = {texts[i] : i \in DOMAIN texts}
        /\ where'[u] = "deliver" /\ where[u] = "wait"
        /\ UNCHANGED <<process, expired, kind, known, seen, hiccups, faults>>
    BY DEF Answered, Move, Plan, TypeOK, texts
  <1>5. TypeOK'
    <2>1. todo' \in [Updates -> Seq(Texts)] /\ attempt' \in [Updates -> 1..Retries]
      BY <1>1, PlanType DEF texts
    <2>2. plan' \in [Updates -> SUBSET Texts]
      BY <1>3 DEF TypeOK, texts
    <2>3. where' \in [Updates -> {"queued", "placeholder", "call", "wait", "error",
                                  "deliver", "return", "returned"}]
      BY DEF Answered, Move, TypeOK
    <2> QED BY <1>4, <2>1, <2>2, <2>3 DEF TypeOK, process
  <1>7. Shape(u) /\ Account(u) /\ seen[u]["error"] = 0 /\ seen[u]["answer"] = 0
    BY <1>4 DEF UpdateInv, Shape, Before
  <1>8. Shape(u)'
    <2>1. texts # <<>>
      BY <1>2
    <2> QED BY <1>1, <1>4, <1>7, <2>1 DEF Shape, Before
  <1>9. Account(u)'
    <2> SUFFICES ASSUME Steady(u)' PROVE Account(u)'
      BY DEF Account
    <2>1. Steady(u)
      BY <1>4 DEF Steady, Limit, Cut, process
    <2>2. /\ \A t \in Texts : t # "placeholder" => seen[u][t] = 0
          /\ PlaceholderStands(u)
      BY <1>4, <1>7, <2>1 DEF Account, AtCall, Waiting, Unseen
    <2>3. \A i \in DOMAIN texts : seen[u][texts[i]] = 0
      BY <1>1, <1>3, <2>2
    <2>4. hiccups[u] \in Nat
      BY DEF TypeOK
    <2>5. \A t \in plan'[u] : \E i \in DOMAIN texts : texts[i] = t
      BY <1>4
    <2>6. PlaceholderStands(u)'
      BY <1>4, <2>2 DEF PlaceholderStands, Unseen
    <2>7. todo'[u][1] \in Mains /\ seen'[u][todo'[u][1]] = 0
      BY <1>1, <1>2, <1>4, <2>3 DEF Mains
    <2>8. AtDelivery(u)'
      <3>1. attempt'[u] <= 1 + hiccups'[u] /\ seen'[u][todo'[u][1]] < attempt'[u]
        BY <1>4, <2>4, <2>7
      <3>2. \A i \in DOMAIN todo'[u] : i > 1 => seen'[u][todo'[u][i]] = 0
        BY <1>4, <2>3
      <3>3. \A i, j \in DOMAIN todo'[u] : todo'[u][i] = todo'[u][j] => i = j
        BY <1>1, <1>4
      <3>4. \A t \in plan'[u] : \E i \in DOMAIN todo'[u] : todo'[u][i] = t
        BY <1>4, <2>5
      <3> QED BY <2>6, <2>7, <3>1, <3>2, <3>3, <3>4 DEF AtDelivery, Unseen
    <2> QED BY <1>4, <2>8 DEF Account, Waiting
  <1>10. \A v \in Updates \ {u} : Same(v)
    BY <1>4 DEF Answered, Move, Plan, Same, TypeOK
  <1>11. UpdateInv'
    BY <1>4, <1>8, <1>9, <1>10, FrameOthers DEF process
  <1> QED BY <1>4, <1>5, <1>11, ProcessSame

LEMMA FailedStep ==
    ASSUME IInv, NEW u \in Updates, Failed(u)
    PROVE  IInv'
  <1> USE DEF IInv
  <1>1. UNCHANGED <<process, expired, kind, known, seen, hiccups, faults>>
    BY DEF Failed
  <1>2. Shape(u) /\ Account(u) /\ plan[u] = {} /\ where[u] \in {"wait", "error"}
        /\ seen[u]["error"] = 0 /\ seen[u]["answer"] = 0
    BY DEF Failed, UpdateInv, Shape, Before
  <1>3. ASSUME Steady(u)'
        PROVE  /\ where[u] = "wait"
               /\ \A t \in Texts : t # "placeholder" => seen[u][t] = 0
               /\ PlaceholderStands(u) /\ (known[u] => kind[u] = "message")
               /\ hiccups[u] \in Nat
    <2>1. Steady(u)
      BY <1>1, <1>3 DEF Steady, Limit, Cut, process
    <2> QED BY <1>2, <2>1 DEF Account, AtCall, Waiting, Unseen, TypeOK
  <1>5. \A v \in Updates \ {u} : Same(v)
    BY DEF Failed, Move, Plan, Same, TypeOK
  <1>6. CASE kind[u] = "message"
    <2>1. Plan(u, <<"error">>) /\ plan' = [plan EXCEPT ![u] = {"error"}] /\ Move(u, "deliver")
      BY <1>6 DEF Failed
    <2>2. /\ todo'[u] = <<"error">> /\ attempt'[u] = 1 /\ plan'[u] = {"error"}
          /\ where'[u] = "deliver"
      BY <2>1 DEF Plan, Move, TypeOK
    <2>3. TypeOK'
      <3>1. todo' \in [Updates -> Seq(Texts)] /\ attempt' \in [Updates -> 1..Retries]
        BY <2>1, ShortTexts, PlanType
      <3>2. plan' \in [Updates -> SUBSET Texts]
        BY <2>1 DEF TypeOK, Texts
      <3>3. where' \in [Updates -> {"queued", "placeholder", "call", "wait", "error",
                                    "deliver", "return", "returned"}]
        BY <2>1 DEF Move, TypeOK
      <3> QED BY <1>1, <3>1, <3>2, <3>3 DEF TypeOK, process
    <2>4. /\ DOMAIN <<"error">> = {1} /\ <<"error">>[1] = "error" /\ <<"error">> # <<>>
      OBVIOUS
    <2>5. Shape(u)'
      BY <1>1, <1>2, <2>2, <2>4 DEF Shape, Before
    <2>6. Account(u)'
      BY <1>1, <1>3, <2>2, <2>4
      DEF Account, AtDelivery, Waiting, Unseen, Mains, PlaceholderStands, Texts
    <2>7. UpdateInv'
      BY <1>1, <1>5, <2>5, <2>6, FrameOthers DEF process
    <2> QED BY <1>1, <2>3, <2>7, ProcessSame
  <1>7. CASE kind[u] # "message"
    <2>1. Move(u, "return") /\ UNCHANGED <<todo, attempt, plan>>
      BY <1>7 DEF Failed
    <2>2. TypeOK'
      BY <1>1, <2>1 DEF Move, TypeOK, process
    <2>3. where'[u] = "return"
      BY <2>1 DEF Move, TypeOK
    <2>4. Shape(u)'
      BY <1>1, <1>2, <2>1, <2>3 DEF Shape, Before
    <2>5. Account(u)'
      BY <1>1, <1>2, <1>3, <1>7, <2>1, <2>3
      DEF Account, AtReturn, Waiting, Unseen, PlaceholderStands
    <2>6. UpdateInv'
      BY <1>1, <1>5, <2>4, <2>5, FrameOthers DEF process
    <2> QED BY <1>1, <2>2, <2>6, ProcessSame
  <1> QED BY <1>6, <1>7

-----------------------------------------------------------------------------
(* Messenger                                                               *)

\* The text a handler is at.
LEMMA SendingFacts ==
    ASSUME IInv, NEW u \in Updates, Sending(u)
    PROVE  /\ todo[u] \in Seq(Texts) /\ todo[u] # <<>>
           /\ Text(u) = todo[u][1] /\ Text(u) \in Texts
           /\ where[u] = "placeholder" <=> Text(u) = "placeholder"
           /\ Main(u) <=> Text(u) \in Mains
  <1>1. todo[u] \in Seq(Texts) /\ Shape(u)
    BY DEF IInv, TypeOK, UpdateInv
  <1>2. CASE where[u] = "placeholder"
    <2>1. todo[u] = <<"placeholder">>
      BY <1>1, <1>2 DEF Shape
    <2>2. Head(<<"placeholder">>) = "placeholder" /\ <<"placeholder">>[1] = "placeholder"
          /\ <<"placeholder">> # <<>>
      OBVIOUS
    <2>3. Text(u) = "placeholder" /\ todo[u][1] = "placeholder" /\ todo[u] # <<>>
      BY <2>1, <2>2 DEF Text
    <2> QED BY <1>1, <1>2, <2>3 DEF Main, Mains, Texts
  <1>3. CASE where[u] = "deliver"
    <2>1. todo[u] # <<>> /\ 1 \in DOMAIN todo[u]
      BY <1>1, <1>3, Rest DEF Shape
    <2>2. Text(u) = todo[u][1] /\ Text(u) \in Texts
      BY <1>1, <2>1, Rest DEF Text
    <2> QED BY <1>1, <1>3, <2>1, <2>2 DEF Shape, Main, Mains
  <1> QED BY <1>2, <1>3 DEF Sending

\* What a request that Telegram carried out makes of what the customer sees:
\* an edit that takes the placeholder's place, or a copy more of the text.
LEMMA ShownIs ==
    ASSUME IInv, NEW u \in Updates, Sending(u)
    PROVE  /\ Shown(u) \in [Updates -> [Texts -> Nat]]
           /\ \A v \in Updates \ {u} : Shown(u)[v] = seen[v]
           /\ \A t \in Texts \ {Text(u), "placeholder"} : Shown(u)[u][t] = seen[u][t]
           /\ known[u] /\ Main(u) /\ seen[u][Text(u)] > 0 => Shown(u)[u] = seen[u]
           /\ known[u] /\ Main(u) /\ seen[u][Text(u)] = 0 =>
                 /\ Shown(u)[u][Text(u)] = 1
                 /\ seen[u]["placeholder"] > 0
                 /\ Shown(u)[u]["placeholder"] = seen[u]["placeholder"] - 1
           /\ ~(known[u] /\ Main(u)) =>
                 /\ Shown(u)[u][Text(u)] = seen[u][Text(u)] + 1
                 /\ Text(u) # "placeholder" =>
                       Shown(u)[u]["placeholder"] = seen[u]["placeholder"]
  <1>1. /\ seen \in [Updates -> [Texts -> Nat]] /\ Text(u) \in Texts
        /\ Main(u) => Text(u) # "placeholder"
        /\ "placeholder" \in Texts
    BY SendingFacts DEF IInv, TypeOK, Mains, Texts
  <1>2. CASE ~(known[u] /\ Main(u))
    <2>1. Shown(u) = [seen EXCEPT ![u][Text(u)] = @ + 1]
      BY <1>2 DEF Shown
    <2> QED BY <1>1, <1>2, <2>1
  <1>3. CASE known[u] /\ Main(u) /\ seen[u][Text(u)] > 0
    <2>1. Shown(u) = seen
      BY <1>3 DEF Shown
    <2> QED BY <1>1, <1>3, <2>1
  <1>4. CASE known[u] /\ Main(u) /\ seen[u][Text(u)] = 0
    <2>1. Shown(u) = [seen EXCEPT ![u]["placeholder"] = @ - 1, ![u][Text(u)] = 1]
      BY <1>4 DEF Shown
    <2>2. seen[u]["answer"] = 0 /\ seen[u]["error"] = 0
      <3>1. where[u] = "deliver" /\ Text(u) = todo[u][1] /\ Text(u) \in Mains
        BY <1>1, <1>4, SendingFacts DEF Sending
      <3> QED BY <1>4, <3>1 DEF IInv, UpdateInv, Shape, Mains
    <2>3. seen[u]["placeholder"] > 0
      BY <1>4, <2>2 DEF IInv, UpdateInv, Shape
    <2> QED BY <1>1, <1>4, <2>1, <2>3
  <1> QED
    <2>1. seen[u][Text(u)] \in Nat
      BY <1>1
    <2>2. seen[u][Text(u)] > 0 \/ seen[u][Text(u)] = 0
      BY <2>1
    <2> QED BY <1>2, <1>3, <1>4, <2>2

\* Going on with the next text, or with the call, or to the end.
LEMMA NextTextIs ==
    ASSUME IInv, NEW u \in Updates, Sending(u), NextText(u)
    PROVE  /\ todo' \in [Updates -> Seq(Texts)] /\ attempt' \in [Updates -> 1..Retries]
           /\ where' \in [Updates -> {"queued", "placeholder", "call", "wait", "error",
                                      "deliver", "return", "returned"}]
           /\ \A v \in Updates \ {u} :
                 where'[v] = where[v] /\ todo'[v] = todo[v] /\ attempt'[v] = attempt[v]
           /\ attempt'[u] = 1
           /\ \A i \in DOMAIN todo'[u] : i + 1 \in DOMAIN todo[u] /\ i + 1 > 1
                                         /\ todo'[u][i] = todo[u][i + 1]
           /\ \A i \in DOMAIN todo[u] : i > 1 => i - 1 \in DOMAIN todo'[u]
                                                /\ todo'[u][i - 1] = todo[u][i]
           /\ \/ where[u] = "placeholder" /\ where'[u] = "call"
              \/ where[u] = "deliver" /\ where'[u] = "deliver" /\ 1 \in DOMAIN todo'[u]
              \/ where[u] = "deliver" /\ where'[u] = "return" /\ DOMAIN todo'[u] = {}
  <1> DEFINE s == todo[u]
  <1>1. s \in Seq(Texts) /\ s # <<>> /\ where[u] \in {"placeholder", "deliver"}
    BY SendingFacts DEF Sending
  <1>2. /\ Tail(s) \in Seq(Texts) /\ Len(s) \in Nat \ {0}
        /\ DOMAIN Tail(s) = 1..(Len(s) - 1) /\ DOMAIN s = 1..Len(s)
        /\ \A i \in DOMAIN Tail(s) : i + 1 \in DOMAIN s /\ Tail(s)[i] = s[i + 1]
        /\ \A i \in DOMAIN s : i > 1 => i - 1 \in DOMAIN Tail(s) /\ Tail(s)[i - 1] = s[i]
    BY <1>1, Rest
  <1>3. Plan(u, Tail(s))
    BY DEF NextText
  <1>4. todo' \in [Updates -> Seq(Texts)] /\ attempt' \in [Updates -> 1..Retries]
    BY <1>2, <1>3, PlanType DEF IInv
  <1>5. todo'[u] = Tail(s) /\ attempt'[u] = 1
        /\ \A v \in Updates \ {u} : todo'[v] = todo[v] /\ attempt'[v] = attempt[v]
    BY <1>3 DEF Plan, IInv, TypeOK
  <1>6. where' \in [Updates -> {"queued", "placeholder", "call", "wait", "error",
                                "deliver", "return", "returned"}]
    BY DEF NextText, Move, IInv, TypeOK
  <1>7. \A v \in Updates \ {u} : where'[v] = where[v]
    BY DEF NextText, Move, IInv, TypeOK
  <1>8. CASE where[u] = "placeholder"
    <2>1. s = <<"placeholder">>
      BY <1>8 DEF IInv, UpdateInv, Shape
    <2>2. Len(s) = 1
      BY <2>1
    <2>3. where'[u] = "call"
      BY <1>8, <2>2 DEF NextText, Move, IInv, TypeOK
    <2> QED BY <1>2, <1>4, <1>5, <1>6, <1>7, <1>8, <2>3
  <1>9. CASE where[u] = "deliver" /\ Len(s) > 1
    <2>1. where'[u] = "deliver" /\ 1 \in DOMAIN Tail(s)
      BY <1>2, <1>9 DEF NextText
    <2> QED BY <1>2, <1>4, <1>5, <1>6, <1>7, <1>9, <2>1
  <1>10. CASE where[u] = "deliver" /\ ~(Len(s) > 1)
    <2>1. where'[u] = "return" /\ DOMAIN Tail(s) = {}
      BY <1>2, <1>10 DEF NextText, Move, IInv, TypeOK
    <2> QED BY <1>2, <1>4, <1>5, <1>6, <1>7, <1>10, <2>1
  <1> QED BY <1>1, <1>8, <1>9, <1>10

\* A text that is tried again, or followed by the next one, whether or not the
\* customer has seen it, keeps the shape of what the handler has to send.
LEMMA ShapeKept ==
    ASSUME IInv, NEW u \in Updates, Sending(u), seen' \in {seen, Shown(u)}, plan' = plan,
           UNCHANGED <<where, todo>> \/ NextText(u),
           \/ known' = known
           \/ known'[u] = (known[u] \/ Text(u) = "placeholder") /\ seen' = Shown(u)
    PROVE  Shape(u)'
  <1>1. Shape(u) /\ where[u] \in {"placeholder", "deliver"}
    BY DEF IInv, UpdateInv, Sending
  <1>2. /\ where[u] = "placeholder" <=> Text(u) = "placeholder"
        /\ Main(u) <=> Text(u) \in Mains
        /\ Text(u) = todo[u][1] /\ Text(u) \in Texts
    BY SendingFacts
  <1>3. /\ \A t \in Texts \ {Text(u), "placeholder"} : seen'[u][t] = seen[u][t]
        /\ seen'[u] = seen[u] \/ seen'[u] = Shown(u)[u]
    BY ShownIs
  <1>4. {"answer", "error", "placeholder"} \subseteq Texts /\ Mains = {"answer", "error"}
    BY DEF Texts, Mains
  <1>5. seen[u] \in [Texts -> Nat] /\ seen'[u] \in [Texts -> Nat]
    BY ShownIs DEF IInv, TypeOK
  <1>6. known'[u] /\ seen'[u]["answer"] = 0 /\ seen'[u]["error"] = 0 => seen'[u]["placeholder"] > 0
    <2> SUFFICES ASSUME known'[u], seen'[u]["answer"] = 0, seen'[u]["error"] = 0
                 PROVE  seen'[u]["placeholder"] > 0
      OBVIOUS
    <2>1. CASE Main(u)
      <3>1. known[u]
        BY <1>2, <1>4, <2>1
      <3>2. seen'[u] = seen[u]
        BY <1>2, <1>3, <1>4, <1>5, <2>1, <3>1, ShownIs
      <3> QED BY <1>1, <3>1, <3>2 DEF Shape
    <2>2. CASE ~Main(u)
      <3>1. seen[u]["answer"] = 0 /\ seen[u]["error"] = 0
        BY <1>2, <1>3, <1>4, <2>2
      <3>2. seen'[u]["placeholder"] >= seen[u]["placeholder"]
        BY <1>2, <1>3, <1>4, <1>5, <2>2, ShownIs
      <3>3. CASE known[u]
        BY <1>1, <1>4, <1>5, <3>1, <3>2, <3>3 DEF Shape
      <3>4. CASE ~known[u]
        <4>1. Text(u) = "placeholder" /\ seen' = Shown(u)
          BY <3>4
        <4> QED BY <1>4, <1>5, <2>2, <4>1, ShownIs
      <3> QED BY <3>3, <3>4
    <2> QED BY <2>1, <2>2
  <1>7. CASE UNCHANGED <<where, todo>>
    BY <1>1, <1>2, <1>3, <1>4, <1>6, <1>7 DEF Shape, Before
  <1>8. CASE NextText(u)
    <2>1. CASE where[u] = "placeholder" /\ where'[u] = "call"
      <3>1. seen'[u]["answer"] = 0 /\ seen'[u]["error"] = 0 /\ plan'[u] = {}
        BY <1>1, <1>2, <1>3, <1>4, <2>1 DEF Shape, Before
      <3> QED BY <1>6, <2>1, <3>1 DEF Shape
    <2>2. CASE where[u] = "deliver" /\ where'[u] = "deliver" /\ 1 \in DOMAIN todo'[u]
      <3>1. \A i \in DOMAIN todo'[u] : todo'[u][i] # "placeholder" /\ todo'[u][i] \notin Mains
        <4> SUFFICES ASSUME NEW i \in DOMAIN todo'[u]
                     PROVE  todo'[u][i] # "placeholder" /\ todo'[u][i] \notin Mains
          OBVIOUS
        <4>1. i + 1 \in DOMAIN todo[u] /\ i + 1 > 1 /\ todo'[u][i] = todo[u][i + 1]
          BY <1>8, NextTextIs
        <4> QED BY <1>1, <2>2, <4>1 DEF Shape
      <3>2. todo'[u] # <<>>
        BY <2>2
      <3> QED BY <1>1, <1>4, <1>6, <2>2, <3>1, <3>2 DEF Shape, Before
    <2>3. CASE where'[u] = "return"
      BY <1>1, <1>6, <2>3 DEF Shape, Before
    <2> QED BY <1>8, <2>1, <2>2, <2>3, NextTextIs
  <1> QED BY <1>7, <1>8

LEMMA AcknowledgedStep ==
    ASSUME IInv, NEW u \in Updates, Acknowledged(u)
    PROVE  IInv'
  <1> USE DEF IInv
  <1>1. /\ Sending(u) /\ ~Cut(u) /\ NextText(u) /\ seen' = Shown(u)
        /\ known' = [known EXCEPT ![u] = @ \/ Text(u) = "placeholder"]
        /\ UNCHANGED <<process, expired, kind, plan, hiccups, faults>>
    BY DEF Acknowledged
  <1>2. known'[u] = (known[u] \/ Text(u) = "placeholder")
        /\ known' \in [Updates -> BOOLEAN]
    BY <1>1 DEF TypeOK
  <1>3. TypeOK'
    BY <1>1, <1>2, NextTextIs, ShownIs DEF TypeOK, process
  <1>4. Shape(u)'
    BY <1>1, <1>2, ShapeKept
  <1>5. Account(u)'
    <2> SUFFICES ASSUME Steady(u)' PROVE Account(u)'
      BY DEF Account
    <2>1. Steady(u)
      BY <1>1 DEF Steady, Limit, Cut, process
    <2>2. hiccups[u] \in Nat /\ seen[u] \in [Texts -> Nat] /\ attempt[u] \in Nat
      BY LifecycleAssumption DEF TypeOK
    <2>3. Account(u) /\ Shape(u)
      BY DEF UpdateInv
    <2>4. /\ where[u] = "placeholder" <=> Text(u) = "placeholder"
          /\ Main(u) <=> Text(u) \in Mains
          /\ Text(u) = todo[u][1] /\ Text(u) \in Texts
          /\ 1 \in DOMAIN todo[u]
      BY <1>1, SendingFacts, Rest
    <2>5. CASE where[u] = "placeholder" /\ where'[u] = "call"
      <3>1. AtPlaceholder(u)
        BY <2>1, <2>3, <2>5 DEF Account
      <3>2. /\ Text(u) = "placeholder" /\ ~Main(u) /\ known'[u]
            /\ kind'[u] = "message" /\ hiccups'[u] = hiccups[u]
        BY <1>1, <1>2, <2>4, <2>5, <3>1 DEF AtPlaceholder, Mains
      <3>3. seen'[u]["placeholder"] = seen[u]["placeholder"] + 1
            /\ \A t \in Texts \ {"placeholder"} : seen'[u][t] = seen[u][t]
        BY <1>1, <3>2, ShownIs
      <3>4. seen[u]["placeholder"] < attempt[u] /\ attempt[u] <= 1 + hiccups[u]
            /\ \A t \in Texts \ {"placeholder"} : seen[u][t] = 0
        BY <3>1 DEF AtPlaceholder, Unseen
      <3>5. seen'[u]["placeholder"] <= 1 + hiccups'[u]
        BY <2>2, <2>4, <3>2, <3>3, <3>4
      <3>6. AtCall(u)'
        BY <3>2, <3>3, <3>4, <3>5 DEF AtCall, Unseen, PlaceholderStands
      <3> QED BY <2>5, <3>6 DEF Account, Waiting
    <2>6. CASE where[u] = "deliver"
      <3>1. AtDelivery(u)
        BY <2>1, <2>3, <2>6 DEF Account
      <3>2. Text(u) # "placeholder" /\ "placeholder" \in Texts
        BY <2>4, <2>6 DEF Texts
      <3>3. seen'[u][Text(u)] \in 1..(1 + hiccups[u])
        <4>1. seen[u][Text(u)] < attempt[u] /\ attempt[u] <= 1 + hiccups[u]
          BY <2>4, <3>1 DEF AtDelivery
        <4> QED BY <1>1, <2>2, <2>4, <4>1, ShownIs
      <3>4. seen'[u]["placeholder"] <= hiccups[u]
        BY <1>1, <2>2, <2>4, <3>1, <3>2, ShownIs
        DEF AtDelivery, PlaceholderStands, Unseen
      <3>5. \A t \in Texts \ {Text(u), "placeholder"} : seen'[u][t] = seen[u][t]
        BY <1>1, ShownIs
      <3>6. \A i \in DOMAIN todo[u] : i > 1 =>
                todo[u][i] \in Texts \ {Text(u), "placeholder"} /\ seen'[u][todo[u][i]] = 0
        <4> SUFFICES ASSUME NEW i \in DOMAIN todo[u], i > 1
                     PROVE  todo[u][i] \in Texts \ {Text(u), "placeholder"}
                            /\ seen'[u][todo[u][i]] = 0
          OBVIOUS
        <4>1. todo[u][i] \in Texts
          BY <1>1, SendingFacts
        <4>2. todo[u][i] # Text(u) /\ todo[u][i] # "placeholder" /\ seen[u][todo[u][i]] = 0
          BY <2>3, <2>4, <2>6, <3>1 DEF AtDelivery, Shape, Unseen
        <4> QED BY <3>5, <4>1, <4>2
      <3>7. ASSUME NEW t \in plan[u]
            PROVE  Arrived(u, t)' \/ \E i \in DOMAIN todo'[u] : todo'[u][i] = t
        <4>1. t \in Texts
          BY DEF TypeOK
        <4>2. CASE t = Text(u)
          BY <1>1, <3>3, <4>2 DEF Arrived
        <4>3. CASE t # Text(u) /\ \E i \in DOMAIN todo[u] : todo[u][i] = t
          <5>1. PICK i \in DOMAIN todo[u] : todo[u][i] = t
            BY <4>3
          <5>2. i > 1
            BY <1>1, <2>4, <4>3, <5>1, SendingFacts, Rest
          <5> QED BY <1>1, <5>1, <5>2, NextTextIs
        <4>4. CASE t # Text(u) /\ Arrived(u, t)
          <5>1. t # "placeholder"
            BY <2>3 DEF Shape
          <5> QED BY <1>1, <3>5, <4>1, <4>4, <5>1 DEF Arrived
        <4> QED BY <3>1, <4>2, <4>3, <4>4 DEF AtDelivery
      <3>8. CASE where'[u] = "deliver" /\ 1 \in DOMAIN todo'[u]
        <4>1. attempt'[u] = 1 /\ hiccups'[u] = hiccups[u]
          BY <1>1, NextTextIs
        <4>2. \A i \in DOMAIN todo'[u] : i + 1 \in DOMAIN todo[u] /\ i + 1 > 1
                                          /\ todo'[u][i] = todo[u][i + 1]
          BY <1>1, NextTextIs
        <4>3. \A i \in DOMAIN todo'[u] : seen'[u][todo'[u][i]] = 0
          BY <3>6, <4>2
        <4>4. ASSUME NEW i \in DOMAIN todo'[u], NEW j \in DOMAIN todo'[u],
                     todo'[u][i] = todo'[u][j]
              PROVE  i = j
          <5>1. i + 1 = j + 1
            BY <3>1, <4>2, <4>4 DEF AtDelivery
          <5>2. i \in Int /\ j \in Int
            <6>1. todo'[u] \in Seq(Texts)
              BY <1>1, NextTextIs
            <6> QED BY <6>1
          <5> QED BY <5>1, <5>2
        <4>5. todo'[u][1] \notin Mains
          BY <2>3, <2>6, <3>8, <4>2 DEF Shape
        <4>6. /\ attempt'[u] <= 1 + hiccups'[u]
              /\ seen'[u][todo'[u][1]] < attempt'[u]
              /\ seen'[u]["placeholder"] <= hiccups'[u]
          BY <2>2, <3>4, <3>8, <4>1, <4>3
        <4>7. \A i \in DOMAIN todo'[u] : i > 1 => Unseen(u, todo[u][i])'
          BY <4>3 DEF Unseen
        <4>8. AtDelivery(u)'
          BY <1>1, <3>7, <4>4, <4>5, <4>6, <4>7 DEF AtDelivery
        <4> QED BY <3>8, <4>8 DEF Account, Waiting
      <3>9. CASE where'[u] = "return" /\ DOMAIN todo'[u] = {}
        <4>1. AtReturn(u)'
          BY <1>1, <3>4, <3>7, <3>9 DEF AtReturn
        <4> QED BY <3>9, <4>1 DEF Account, Waiting
      <3> QED BY <1>1, <2>6, <3>8, <3>9, NextTextIs
    <2> QED BY <1>1, <2>5, <2>6, NextTextIs
  <1>6. \A v \in Updates \ {u} : Same(v)
    <2> SUFFICES ASSUME NEW v \in Updates \ {u} PROVE Same(v)
      OBVIOUS
    <2>1. where'[v] = where[v] /\ todo'[v] = todo[v] /\ attempt'[v] = attempt[v]
      BY <1>1, NextTextIs
    <2>2. seen'[v] = seen[v]
      BY <1>1, ShownIs
    <2>3. known'[v] = known[v]
      BY <1>1 DEF TypeOK
    <2> QED BY <1>1, <2>1, <2>2, <2>3 DEF Same
  <1>7. UpdateInv'
    BY <1>1, <1>4, <1>5, <1>6, FrameOthers DEF process
  <1> QED BY <1>1, <1>3, <1>7, ProcessSame

\* Another attempt at the same text while SendRetries allows it, or the next.
LEMMA RetryIs ==
    ASSUME IInv, NEW u \in Updates, Sending(u), Retry(u)
    PROVE  /\ todo' \in [Updates -> Seq(Texts)] /\ attempt' \in [Updates -> 1..Retries]
           /\ where' \in [Updates -> {"queued", "placeholder", "call", "wait", "error",
                                      "deliver", "return", "returned"}]
           /\ \A v \in Updates \ {u} :
                 where'[v] = where[v] /\ todo'[v] = todo[v] /\ attempt'[v] = attempt[v]
           /\ known' = known
           /\ \/ attempt'[u] = attempt[u] + 1 /\ UNCHANGED <<where, todo>>
              \/ attempt[u] >= Tries(u) /\ NextText(u)
           /\ Tries(u) \in Nat /\ Limit(u) <= Tries(u)
  <1>1. attempt \in [Updates -> 1..Retries] /\ Retries \in Nat \ {0}
    BY LifecycleAssumption DEF IInv, TypeOK
  <1>2. Tries(u) \in 1..Retries /\ Limit(u) <= Tries(u)
    BY <1>1 DEF Tries, Limit
  <1>3. CASE attempt[u] < Tries(u)
    <2>1. attempt' = [attempt EXCEPT ![u] = @ + 1] /\ UNCHANGED <<where, todo, known>>
      BY <1>3 DEF Retry
    <2>2. attempt' \in [Updates -> 1..Retries]
      BY <1>1, <1>2, <1>3, <2>1
    <2>3. attempt'[u] = attempt[u] + 1 /\ \A v \in Updates \ {u} : attempt'[v] = attempt[v]
      BY <1>1, <2>1
    <2> QED BY <1>2, <2>1, <2>2, <2>3 DEF IInv, TypeOK
  <1>4. CASE ~(attempt[u] < Tries(u))
    <2>1. NextText(u) /\ known' = known
      BY <1>4 DEF Retry
    <2>2. attempt[u] >= Tries(u)
      BY <1>1, <1>2, <1>4
    <2> QED BY <1>2, <2>1, <2>2, NextTextIs
  <1> QED BY <1>3, <1>4

LEMMA HiccupStep ==
    ASSUME IInv, NEW u \in Updates, Hiccup(u)
    PROVE  IInv'
  <1> USE DEF IInv
  <1>1. /\ Sending(u) /\ ~Cut(u) /\ Retry(u) /\ seen' \in {seen, Shown(u)}
        /\ faults > 0 /\ faults' = faults - 1
        /\ hiccups' = [hiccups EXCEPT ![u] = @ + 1]
        /\ UNCHANGED <<process, expired, kind, plan>>
    BY DEF Hiccup
  <1>2. /\ hiccups'[u] = hiccups[u] + 1 /\ hiccups[u] \in Nat /\ attempt[u] \in Nat \ {0}
        /\ hiccups' \in [Updates -> Nat] /\ seen[u] \in [Texts -> Nat]
    BY <1>1, LifecycleAssumption DEF TypeOK
  <1>3. TypeOK'
    <2>1. faults' \in 0..MaxFaults
      BY <1>1, LifecycleAssumption DEF TypeOK
    <2>2. seen' \in [Updates -> [Texts -> Nat]]
      BY <1>1, ShownIs DEF TypeOK
    <2>3. /\ todo' \in [Updates -> Seq(Texts)] /\ attempt' \in [Updates -> 1..Retries]
          /\ where' \in [Updates -> {"queued", "placeholder", "call", "wait", "error",
                                     "deliver", "return", "returned"}]
      BY <1>1, RetryIs
    <2>4. known' = known
      BY <1>1, RetryIs
    <2>5. TypeOK /\ UNCHANGED <<process, expired, kind, plan>> /\ hiccups' \in [Updates -> Nat]
      BY <1>1, <1>2
    <2> QED BY <2>1, <2>2, <2>3, <2>4, <2>5 DEF TypeOK, process
  <1>4. Shape(u)'
    BY <1>1, RetryIs, ShapeKept
  <1>5. Account(u)'
    <2> SUFFICES ASSUME Steady(u)' PROVE Account(u)'
      BY DEF Account
    <2>1. hiccups[u] + 1 < Limit(u) /\ Steady(u)
      <3>1. Limit(u)' = Limit(u) /\ Limit(u) \in Nat
        BY <1>1, LifecycleAssumption DEF Limit
      <3> QED BY <1>1, <1>2, <3>1 DEF Steady
    <2>2. Account(u) /\ Shape(u)
      BY DEF UpdateInv
    <2>3. attempt[u] <= 1 + hiccups[u]
      BY <1>1, <2>1, <2>2 DEF Account, AtPlaceholder, AtDelivery, Sending
    <2>4. attempt'[u] = attempt[u] + 1 /\ UNCHANGED <<where, todo, known>>
      <3>1. ~(attempt[u] >= Tries(u))
        BY <1>1, <1>2, <2>1, <2>3, RetryIs, LifecycleAssumption DEF Limit
      <3> QED BY <1>1, <3>1, RetryIs
    <2>5. /\ where[u] = "placeholder" <=> Text(u) = "placeholder"
          /\ Main(u) <=> Text(u) \in Mains
          /\ Text(u) = todo[u][1] /\ Text(u) \in Texts
          /\ 1 \in DOMAIN todo[u]
      BY <1>1, SendingFacts, Rest
    <2>6. seen'[u] \in [Texts -> Nat]
      BY <1>3 DEF TypeOK
    <2>7. attempt'[u] <= 1 + hiccups'[u]
      BY <1>2, <2>3, <2>4
    <2>8. \A t \in Texts \ {Text(u), "placeholder"} : seen'[u][t] = seen[u][t]
      BY <1>1, ShownIs
    <2>9. seen[u][Text(u)] < attempt[u]
      BY <1>1, <2>1, <2>2, <2>5 DEF Account, AtPlaceholder, AtDelivery, Sending
    <2>10. seen'[u][Text(u)] < attempt'[u]
      BY <1>1, <1>2, <2>4, <2>5, <2>9, ShownIs
    <2>11. CASE where[u] = "placeholder"
      <3>1. AtPlaceholder(u)
        BY <2>1, <2>2, <2>11 DEF Account
      <3>2. AtPlaceholder(u)'
        BY <1>1, <2>4, <2>5, <2>7, <2>8, <2>10, <2>11, <3>1 DEF AtPlaceholder, Unseen
      <3> QED BY <2>4, <2>11, <3>2 DEF Account, Waiting
    <2>12. CASE where[u] = "deliver"
      <3>1. AtDelivery(u)
        BY <2>1, <2>2, <2>12 DEF Account
      <3>2. Text(u) # "placeholder" /\ "placeholder" \in Texts
        BY <2>5, <2>12 DEF Texts
      <3>3. \A i \in DOMAIN todo[u] : i > 1 => seen'[u][todo[u][i]] = 0
        <4> SUFFICES ASSUME NEW i \in DOMAIN todo[u], i > 1 PROVE seen'[u][todo[u][i]] = 0
          OBVIOUS
        <4>1. todo[u][i] \in Texts
          BY <1>1, SendingFacts
        <4>2. todo[u][i] # Text(u) /\ todo[u][i] # "placeholder" /\ seen[u][todo[u][i]] = 0
          BY <2>2, <2>5, <2>12, <3>1 DEF AtDelivery, Shape, Unseen
        <4> QED BY <2>8, <4>1, <4>2
      <3>4. ASSUME NEW t \in plan[u]
            PROVE  Arrived(u, t)' \/ \E i \in DOMAIN todo[u] : todo[u][i] = t
        <4>1. t \in Texts /\ t # "placeholder"
          BY <2>2 DEF TypeOK, Shape
        <4>2. CASE t = Text(u)
          BY <2>5, <4>2
        <4>3. CASE t # Text(u) /\ Arrived(u, t)
          BY <1>2, <2>8, <4>1, <4>3 DEF Arrived
        <4> QED BY <3>1, <4>2, <4>3 DEF AtDelivery
      <3>5. IF Text(u) \in Mains /\ seen'[u][Text(u)] = 0
            THEN PlaceholderStands(u)' ELSE seen'[u]["placeholder"] <= hiccups'[u]
        <4>1. CASE seen' = seen
          BY <1>2, <2>4, <2>5, <3>1, <3>2, <4>1 DEF AtDelivery, PlaceholderStands, Unseen
        <4>2. CASE seen' = Shown(u)
          <5>1. seen'[u][Text(u)] # 0
            BY <1>1, <1>2, <2>5, <4>2, ShownIs
          <5>2. seen'[u]["placeholder"] <= hiccups[u]
            BY <1>1, <1>2, <2>5, <3>1, <3>2, <4>2, ShownIs
            DEF AtDelivery, PlaceholderStands, Unseen
          <5>3. seen'[u]["placeholder"] <= hiccups'[u]
            BY <1>2, <2>6, <3>2, <5>2
          <5> QED BY <5>1, <5>3
        <4> QED BY <1>1, <4>1, <4>2
      <3>6. AtDelivery(u)'
        BY <1>1, <2>4, <2>5, <2>7, <2>10, <3>1, <3>3, <3>4, <3>5 DEF AtDelivery, Unseen
      <3> QED BY <2>4, <2>12, <3>6 DEF Account, Waiting
    <2> QED BY <1>1, <2>11, <2>12 DEF Sending
  <1>6. \A v \in Updates \ {u} : Same(v)
    <2> SUFFICES ASSUME NEW v \in Updates \ {u} PROVE Same(v)
      OBVIOUS
    <2>1. where'[v] = where[v] /\ todo'[v] = todo[v] /\ attempt'[v] = attempt[v]
          /\ known' = known
      BY <1>1, RetryIs
    <2>2. seen'[v] = seen[v]
      BY <1>1, ShownIs
    <2>3. hiccups'[v] = hiccups[v]
      BY <1>1 DEF TypeOK
    <2> QED BY <1>1, <2>1, <2>2, <2>3 DEF Same
  <1>7. UpdateInv'
    BY <1>1, <1>4, <1>5, <1>6, FrameOthers DEF process
  <1> QED BY <1>1, <1>3, <1>7, ProcessSame

LEMMA SendsInVainStep ==
    ASSUME IInv, NEW u \in Updates, SendsInVain(u)
    PROVE  IInv'
  <1> USE DEF IInv
  <1>1. /\ Sending(u) /\ Cut(u) /\ Retry(u)
        /\ UNCHANGED <<process, expired, kind, seen, plan, hiccups, faults>>
    BY DEF SendsInVain
  <1>2. TypeOK'
    BY <1>1, RetryIs DEF TypeOK, process
  <1>3. Shape(u)'
    BY <1>1, RetryIs, ShapeKept
  <1>4. Account(u)'
    BY <1>1 DEF Account, Steady, Cut, process
  <1>5. \A v \in Updates \ {u} : Same(v)
    BY <1>1, RetryIs DEF Same, TypeOK
  <1>6. UpdateInv'
    BY <1>1, <1>3, <1>4, <1>5, FrameOthers DEF process
  <1> QED BY <1>1, <1>2, <1>6, ProcessSame

-----------------------------------------------------------------------------
(* The end of a handler, and of the process                                *)

LEMMA EndsStep ==
    ASSUME IInv, NEW u \in Updates, u \in Running, Ends(u), faults' \in 0..MaxFaults
    PROVE  IInv'
  <1> USE DEF IInv
  <1>1. ProcessInv'
    BY ProcessSame DEF Ends
  <1>2. TypeOK'
    <2>1. todo' \in [Updates -> Seq(Texts)] /\ attempt' \in [Updates -> 1..Retries]
      BY ShortTexts, PlanType DEF Ends
    <2>2. hiccups' \in [Updates -> Nat] /\ plan' \in [Updates -> SUBSET Texts]
      BY DEF Ends, TypeOK
    <2> QED BY <2>1, <2>2 DEF Ends, Move, TypeOK, process
  <1>3. where'[u] = "returned" /\ plan'[u] = {} /\ known'[u] = FALSE
    BY DEF Ends, Move, TypeOK
  <1>4. Shape(u)' /\ Account(u)'
    BY <1>3 DEF Shape, Account, Before, Waiting
  <1>5. \A v \in Updates \ {u} : Same(v) /\ (v \in expired => v \in expired')
    <2>1. UNCHANGED seen
      BY DEF Ends
    <2> QED BY <2>1 DEF Ends, Move, Plan, Same, TypeOK
  <1>6. UpdateInv'
    BY <1>4, <1>5, FrameOthers DEF Ends, process
  <1> QED BY <1>1, <1>2, <1>6

\* Every step keeps the invariant.
LEMMA StepKeeps == IInv /\ [Next]_vars => IInv'
  <1> SUFFICES ASSUME IInv, [Next]_vars PROVE IInv'
    OBVIOUS
  <1>1. CASE Signal \/ WorkerStops \/ RunReturns \/ ProcessEnds \/ DrainStarts \/ DrainEnds
    BY <1>1, ProcessStep
  <1>2. ASSUME NEW u \in Updates, Take(u) PROVE IInv'
    BY <1>2, TakeStep
  <1>3. ASSUME NEW u \in Updates, DeadlinePasses(u) PROVE IInv'
    BY <1>3, DeadlineStep
  <1>4. ASSUME NEW u \in Updates, Handle(u) PROVE IInv'
    <2>1. ASSUME Returns(u) PROVE IInv'
      <3>1. u \in Running /\ Ends(u) /\ faults' \in 0..MaxFaults
        BY <2>1 DEF Returns, Running, IInv, TypeOK
      <3> QED BY <3>1, EndsStep
    <2> QED BY <1>4, <2>1, CallStep, AnsweredStep, FailedStep, AcknowledgedStep,
               HiccupStep, SendsInVainStep DEF Handle
  <1>5. ASSUME NEW u \in Updates, Panics(u) PROVE IInv'
    <2>1. u \in Running /\ Ends(u) /\ faults' \in 0..MaxFaults
      BY <1>5, LifecycleAssumption DEF Panics, IInv, TypeOK
    <2> QED BY <2>1, EndsStep
  <1>6. CASE UNCHANGED vars
    <2>1. UNCHANGED <<where, kind, delivery, process, expired, faults>>
      BY <1>6 DEF vars
    <2>2. TypeOK'
      BY <2>1 DEF IInv, TypeOK, process, delivery
    <2>3. UpdateInv'
      BY <2>1, FrameAll DEF Cut, process
    <2> QED BY <2>1, <2>2, <2>3, ProcessSame DEF IInv
  <1> QED BY <1>1, <1>2, <1>3, <1>4, <1>5, <1>6 DEF Next, Gone

THEOREM Invariance == Spec => []IInv
  <1> QED BY InitHolds, StepKeeps, PTL DEF Spec

-----------------------------------------------------------------------------
(* What follows                                                            *)

\* Run, its drain, the workers and every handler keep the type of their state.
THEOREM TypeCorrect == Spec => []TypeOK
  <1>1. IInv => TypeOK
    BY DEF IInv
  <1> QED BY <1>1, Invariance, PTL

\* For every number of workers and updates: a signal ends the context of no
\* handler.  Its own deadline does, the drain when the grace period is over, or
\* Run when it returns, which it does when the last worker has stopped.
THEOREM ContextsOutlive == Spec => []ContextsOutliveTheSignal
  <1>1. IInv => ContextsOutliveTheSignal
    BY DEF IInv, ProcessInv, ContextsOutliveTheSignal, Cut
  <1> QED BY <1>1, Invariance, PTL

\* A reply whose handler was not cut short, and whose requests failed less
\* often than deliverRichContent and Messenger try, is shown whole: no text of
\* it is missing, none is there more often than requests failed, and the
\* placeholder is gone unless its acknowledgement was lost.
THEOREM RepliesShown == Spec => []ReplyIsShown
  <1>1. IInv => ReplyIsShown
    <2> SUFFICES ASSUME IInv, NEW u \in Updates, where[u] = "return", ~Cut(u),
                        hiccups[u] < Limit(u)
                 PROVE  /\ \A t \in plan[u] : seen[u][t] \in 1..(1 + hiccups[u])
                        /\ seen[u]["placeholder"] <= hiccups[u]
      BY DEF ReplyIsShown, Limit
    <2>1. AtReturn(u)
      BY DEF IInv, UpdateInv, Account, Steady
    <2> QED BY <2>1 DEF AtReturn, Arrived
  <1> QED BY <1>1, Invariance, PTL

-----------------------------------------------------------------------------
(* Handlers run out                                                        *)

\* Attempts at n texts, and those left of a plan that is being sent.
Sends(n)     == n * Retries
SendsLeft(u) == Sends(Len(todo[u])) - attempt[u]

\* The most steps an update's handler still has before it.
StepsLeft(u) ==
    CASE where[u] = "queued"             -> 4 + Sends(2 + MaxExtras)
      [] where[u] = "placeholder"        -> 4 + Sends(1 + MaxExtras) + SendsLeft(u)
      [] where[u] = "call"               -> 3 + Sends(1 + MaxExtras)
      [] where[u] \in {"wait", "error"}  -> 2 + Sends(1 + MaxExtras)
      [] where[u] = "deliver"            -> 2 + SendsLeft(u)
      [] where[u] = "return"             -> 1
      [] where[u] = "returned"           -> 0

StepsAreBounded == \A u \in Updates : StepsLeft(u) \in 0..(4 + Sends(2 + MaxExtras))

\* No step of the process or of another handler sends a handler back; each step
\* of its own, failed or not, is one less.
HandlersDescend ==
    \A u \in Updates : /\ StepsLeft(u)' <= StepsLeft(u)
                       /\ Take(u) \/ Handle(u) \/ Panics(u) => StepsLeft(u)' < StepsLeft(u)

\* Attempts add up text by text.
LEMMA SendsAdd ==
    /\ \A n \in Nat : Sends(n) \in Nat /\ Sends(n + 1) = Sends(n) + Retries
    /\ \A n \in 0..MaxExtras : Sends(n + 1) <= Sends(1 + MaxExtras)
    /\ Sends(0) = 0 /\ Sends(1) = Retries /\ Retries \in Nat \ {0}
    /\ MaxExtras \in Nat /\ Sends(1 + MaxExtras) \in Nat /\ Sends(1 + MaxExtras) >= Retries
    /\ Sends(2 + MaxExtras) = Sends(1 + MaxExtras) + Retries
  <1>1. Retries \in Nat \ {0} /\ MaxExtras \in 0..4
    BY LifecycleAssumption
  <1>2. \A n \in Nat : n * Retries \in Nat /\ (n + 1) * Retries = n * Retries + Retries
    BY <1>1
  <1>3. 0 * Retries = 0 /\ 1 * Retries = Retries
    BY <1>1
  <1>4. \A n \in 0..MaxExtras : (n + 1) * Retries <= (1 + MaxExtras) * Retries
    <2>1. SUFFICES ASSUME NEW n \in 0..MaxExtras
                   PROVE  (n + 1) * Retries <= (1 + MaxExtras) * Retries
      OBVIOUS
    <2>2. n \in 0..4
      BY <1>1
    <2>3. CASE n = 0
      BY <1>1, <2>3
    <2>4. CASE n = 1
      BY <1>1, <2>4
    <2>5. CASE n = 2
      BY <1>1, <2>5
    <2>6. CASE n = 3
      BY <1>1, <2>6
    <2>7. CASE n = 4
      BY <1>1, <2>7
    <2> QED BY <2>2, <2>3, <2>4, <2>5, <2>6, <2>7
  <1>5. 1 + MaxExtras \in Nat /\ 2 + MaxExtras = (1 + MaxExtras) + 1 /\ 0 \in 0..MaxExtras
        /\ 0 + 1 = 1
    BY <1>1
  <1>6. (1 + MaxExtras) * Retries \in Nat /\ Retries <= (1 + MaxExtras) * Retries
        /\ (2 + MaxExtras) * Retries = (1 + MaxExtras) * Retries + Retries
    BY <1>2, <1>3, <1>4, <1>5
  <1> QED BY <1>1, <1>2, <1>3, <1>4, <1>5, <1>6 DEF Sends

\* Each place an update can be in has its number.
LEMMA StepsByPlace ==
    ASSUME NEW u \in Updates
    PROVE  /\ where[u] = "queued" => StepsLeft(u) = 4 + Sends(2 + MaxExtras)
           /\ where[u] = "placeholder" => StepsLeft(u) = 4 + Sends(1 + MaxExtras) + SendsLeft(u)
           /\ where[u] = "call" => StepsLeft(u) = 3 + Sends(1 + MaxExtras)
           /\ where[u] \in {"wait", "error"} => StepsLeft(u) = 2 + Sends(1 + MaxExtras)
           /\ where[u] = "deliver" => StepsLeft(u) = 2 + SendsLeft(u)
           /\ where[u] = "return" => StepsLeft(u) = 1
           /\ where[u] = "returned" => StepsLeft(u) = 0
  BY DEF StepsLeft

\* The same of the state after a step.
LEMMA StepsByNextPlace ==
    ASSUME NEW u \in Updates
    PROVE  /\ where'[u] = "placeholder" => StepsLeft(u)' = 4 + Sends(1 + MaxExtras) + SendsLeft(u)'
           /\ where'[u] = "call" => StepsLeft(u)' = 3 + Sends(1 + MaxExtras)
           /\ where'[u] \in {"wait", "error"} => StepsLeft(u)' = 2 + Sends(1 + MaxExtras)
           /\ where'[u] = "deliver" => StepsLeft(u)' = 2 + SendsLeft(u)'
           /\ where'[u] = "return" => StepsLeft(u)' = 1
           /\ where'[u] = "returned" => StepsLeft(u)' = 0
  BY DEF StepsLeft, Sends

\* A plan that is being sent has an attempt left for each of its texts.
LEMMA PlansAreLong ==
    ASSUME IInv, NEW u \in Updates, Sending(u)
    PROVE  /\ Len(todo[u]) \in Nat \ {0} /\ attempt[u] \in 1..Retries
           /\ SendsLeft(u) \in Nat
           /\ SendsLeft(u) >= Sends(Len(todo[u]) - 1)
           /\ Sends(Len(todo[u]) - 1) \in Nat
  <1>1. attempt[u] \in 1..Retries
    BY DEF IInv, TypeOK
  <1>2. Len(todo[u]) \in Nat \ {0}
    BY SendingFacts, Rest
  <1>3. Len(todo[u]) - 1 \in Nat /\ (Len(todo[u]) - 1) + 1 = Len(todo[u])
    BY <1>2
  <1>4. Sends(Len(todo[u])) = Sends(Len(todo[u]) - 1) + Retries /\ Sends(Len(todo[u]) - 1) \in Nat
    BY <1>3, SendsAdd
  <1>5. Retries \in Nat \ {0}
    BY SendsAdd
  <1>6. SendsLeft(u) = Sends(Len(todo[u]) - 1) + Retries - attempt[u]
    BY <1>1, <1>4, <1>5 DEF SendsLeft
  <1> QED BY <1>1, <1>2, <1>4, <1>5, <1>6

\* The number of a place is never negative.
StepsNatural == \A u \in Updates : StepsLeft(u) \in Nat

\* It is not, as a plan that is sent has an attempt left.
LEMMA StepsAreNatural == IInv => StepsNatural
  <1> SUFFICES ASSUME IInv, NEW u \in Updates PROVE StepsLeft(u) \in Nat
    BY DEF StepsNatural
  <1>1. where[u] \in {"queued", "placeholder", "call", "wait", "error", "deliver", "return", "returned"}
    BY DEF IInv, TypeOK
  <1>2. Sends(1 + MaxExtras) \in Nat /\ Sends(2 + MaxExtras) \in Nat
    BY SendsAdd
  <1>3. Sending(u) => SendsLeft(u) \in Nat
    BY PlansAreLong
  <1> QED BY <1>1, <1>2, <1>3, StepsByPlace DEF Sending

\* A text that is given up or done leaves fewer attempts, and so does another
\* attempt at it.
LEMMA SendingDescends ==
    ASSUME IInv, NEW u \in Updates, Sending(u), Retry(u) \/ NextText(u)
    PROVE  StepsLeft(u)' < StepsLeft(u)
  <1>1. /\ Len(todo[u]) \in Nat \ {0} /\ attempt[u] \in 1..Retries
        /\ SendsLeft(u) \in Nat /\ SendsLeft(u) >= Sends(Len(todo[u]) - 1)
        /\ Sends(Len(todo[u]) - 1) \in Nat /\ Sends(1 + MaxExtras) \in Nat
    BY PlansAreLong, SendsAdd
  <1>2. CASE NextText(u)
    <2>1. /\ attempt'[u] = 1
          /\ \/ where[u] = "placeholder" /\ where'[u] = "call"
             \/ where[u] = "deliver" /\ where'[u] = "deliver"
             \/ where[u] = "deliver" /\ where'[u] = "return"
      BY <1>2, NextTextIs
    <2>2. todo'[u] = Tail(todo[u]) /\ Len(Tail(todo[u])) = Len(todo[u]) - 1
      BY <1>2, SendingFacts, Rest DEF NextText, Plan, IInv, TypeOK
    <2>3. SendsLeft(u)' = Sends(Len(todo[u]) - 1) - 1
      BY <2>1, <2>2 DEF SendsLeft, Sends
    <2>4. CASE where[u] = "placeholder" /\ where'[u] = "call"
      <3>1. StepsLeft(u) = 4 + Sends(1 + MaxExtras) + SendsLeft(u)
        BY <2>4, StepsByPlace
      <3>2. StepsLeft(u)' = 3 + Sends(1 + MaxExtras)
        BY <2>4, StepsByNextPlace
      <3> QED BY <1>1, <3>1, <3>2
    <2>5. CASE where[u] = "deliver" /\ where'[u] \in {"deliver", "return"}
      <3>1. StepsLeft(u) = 2 + SendsLeft(u)
        BY <2>5, StepsByPlace
      <3>2. StepsLeft(u)' \in {2 + SendsLeft(u)', 1}
        BY <2>5, StepsByNextPlace
      <3> QED BY <1>1, <2>3, <3>1, <3>2
    <2> QED BY <2>1, <2>4, <2>5
  <1>3. CASE Retry(u) /\ ~NextText(u)
    <2>1. attempt'[u] = attempt[u] + 1 /\ UNCHANGED <<where, todo>>
      BY <1>3, RetryIs
    <2>2. Sends(Len(todo[u])) \in Nat /\ attempt[u] \in Nat
      <3>1. \A n \in Nat : Sends(n) \in Nat
        BY SendsAdd
      <3>2. attempt[u] \in Nat
        BY <1>1, LifecycleAssumption
      <3> QED BY <1>1, <3>1, <3>2
    <2>3. SendsLeft(u) = Sends(Len(todo[u])) - attempt[u]
          /\ SendsLeft(u)' = Sends(Len(todo[u])) - attempt'[u]
      BY <2>1 DEF SendsLeft, Sends
    <2>4. SendsLeft(u)' = SendsLeft(u) - 1
      BY <2>1, <2>2, <2>3
    <2> QED BY <1>1, <2>1, <2>4, StepsByPlace, StepsByNextPlace DEF Sending
  <1> QED BY <1>2, <1>3

\* A reply is planned within what Call has left for it.
LEMMA PlanningDescends ==
    ASSUME IInv, NEW u \in Updates, Answered(u) \/ Failed(u)
    PROVE  StepsLeft(u)' < StepsLeft(u)
  <1>1. /\ Sends(1 + MaxExtras) \in Nat /\ Sends(1) = Retries /\ Retries \in Nat \ {0}
        /\ Retries <= Sends(1 + MaxExtras)
    BY SendsAdd
  <1>2. StepsLeft(u) = 2 + Sends(1 + MaxExtras)
    BY StepsByPlace DEF Answered, Failed
  <1>3. CASE Answered(u)
    <2> PICK n \in 0..MaxExtras : Plan(u, <<"answer">> \o SubSeq(Extras, 1, n))
      BY <1>3 DEF Answered
    <2> DEFINE texts == <<"answer">> \o SubSeq(Extras, 1, n)
    <2>1. texts \in Seq(Texts) /\ DOMAIN texts = 1..(n + 1)
      BY ReplyTexts
    <2>2. n \in Nat /\ Len(texts) = n + 1
      <3>1. n \in Nat
        BY LifecycleAssumption
      <3> HIDE DEF texts
      <3> QED BY <2>1, <3>1
    <2>3. todo'[u] = texts /\ attempt'[u] = 1 /\ where'[u] = "deliver"
      BY <1>3 DEF Plan, Answered, Move, IInv, TypeOK
    <2> HIDE DEF texts
    <2>4. SendsLeft(u)' = Sends(n + 1) - 1
      BY <2>2, <2>3 DEF SendsLeft, Sends
    <2>5. Sends(n + 1) \in Nat /\ Sends(n + 1) <= Sends(1 + MaxExtras)
      BY <2>2, SendsAdd
    <2> QED BY <1>1, <1>2, <2>3, <2>4, <2>5, StepsByNextPlace
  <1>4. CASE Failed(u) /\ kind[u] = "message"
    <2>1. todo'[u] = <<"error">> /\ attempt'[u] = 1 /\ where'[u] = "deliver"
      BY <1>4 DEF Plan, Failed, Move, IInv, TypeOK
    <2>2. Len(<<"error">>) = 1
      OBVIOUS
    <2>3. SendsLeft(u)' = Sends(1) - 1
      BY <2>1, <2>2 DEF SendsLeft, Sends
    <2> QED BY <1>1, <1>2, <2>1, <2>3, StepsByNextPlace
  <1>5. CASE Failed(u) /\ kind[u] # "message"
    <2>1. where'[u] = "return"
      BY <1>5 DEF Failed, Move, IInv, TypeOK
    <2> QED BY <1>1, <1>2, <2>1, StepsByNextPlace
  <1> QED BY <1>3, <1>4, <1>5

\* The first step of a handler, and its last.
LEMMA TakeDescends ==
    ASSUME IInv, NEW u \in Updates, Take(u)
    PROVE  StepsLeft(u)' < StepsLeft(u)
  <1>1. /\ Sends(1 + MaxExtras) \in Nat /\ Sends(1) = Retries /\ Retries \in Nat \ {0}
        /\ Sends(2 + MaxExtras) = Sends(1 + MaxExtras) + Retries
    BY SendsAdd
  <1>2. StepsLeft(u) = 4 + Sends(1 + MaxExtras) + Retries
    BY <1>1, StepsByPlace DEF Take
  <1>3. CASE Move(u, "placeholder") /\ Plan(u, <<"placeholder">>)
    <2>1. todo'[u] = <<"placeholder">> /\ attempt'[u] = 1 /\ where'[u] = "placeholder"
      BY <1>3 DEF Plan, Move, IInv, TypeOK
    <2>2. Len(<<"placeholder">>) = 1
      OBVIOUS
    <2>3. SendsLeft(u)' = Sends(1) - 1
      BY <2>1, <2>2 DEF SendsLeft, Sends
    <2> QED BY <1>1, <1>2, <2>1, <2>3, StepsByNextPlace
  <1>4. CASE Move(u, "call")
    <2>1. where'[u] = "call"
      BY <1>4 DEF Move, IInv, TypeOK
    <2> QED BY <1>1, <1>2, <2>1, StepsByNextPlace
  <1> QED BY <1>3, <1>4 DEF Take

LEMMA EndsDescends ==
    ASSUME IInv, NEW u \in Running, Ends(u)
    PROVE  StepsLeft(u)' < StepsLeft(u)
  <1>1. u \in Updates /\ where[u] \notin {"queued", "returned"}
    BY DEF Running
  <1>2. where'[u] = "returned"
    BY <1>1 DEF Ends, Move, IInv, TypeOK
  <1>3. StepsLeft(u) > 0
    <2>1. where[u] \in {"placeholder", "call", "wait", "error", "deliver", "return"}
      BY <1>1 DEF IInv, TypeOK
    <2>2. Sends(1 + MaxExtras) \in Nat
      BY SendsAdd
    <2>3. Sending(u) => SendsLeft(u) \in Nat
      BY <1>1, PlansAreLong
    <2> QED BY <1>1, <2>1, <2>2, <2>3, StepsByPlace DEF Sending
  <1> QED BY <1>1, <1>2, <1>3, StepsByNextPlace

\* Every step of a handler's own.
LEMMA OwnStepDescends ==
    ASSUME IInv, NEW u \in Updates, Take(u) \/ Handle(u) \/ Panics(u)
    PROVE  StepsLeft(u)' < StepsLeft(u)
  <1>1. CASE Call(u)
    <2>1. where[u] = "call" /\ where'[u] \in {"wait", "error"}
      BY <1>1 DEF Call, Move, IInv, TypeOK
    <2> QED BY <2>1, SendsAdd, StepsByPlace, StepsByNextPlace
  <1>2. CASE Acknowledged(u) \/ Hiccup(u) \/ SendsInVain(u)
    BY <1>2, SendingDescends DEF Acknowledged, Hiccup, SendsInVain
  <1>3. CASE Returns(u) \/ Panics(u)
    <2>1. u \in Running /\ Ends(u)
      BY <1>3 DEF Returns, Panics, Running
    <2> QED BY <2>1, EndsDescends
  <1> QED BY <1>1, <1>2, <1>3, TakeDescends, PlanningDescends DEF Handle

\* Whatever else happens leaves it where it is.
LEMMA OtherStepsLeave ==
    ASSUME IInv, [Next]_vars, NEW u \in Updates, ~(Take(u) \/ Handle(u) \/ Panics(u))
    PROVE  StepsLeft(u)' = StepsLeft(u)
  <1>1. where'[u] = where[u] /\ todo'[u] = todo[u] /\ attempt'[u] = attempt[u]
    <2>1. ASSUME NEW v \in Updates, v # u, Take(v) \/ Handle(v) \/ Panics(v)
          PROVE  where'[u] = where[u] /\ todo'[u] = todo[u] /\ attempt'[u] = attempt[u]
      <3>1. CASE Take(v) \/ Call(v) \/ Answered(v) \/ Failed(v)
        BY <2>1, <3>1 DEF Take, Call, Answered, Failed, Move, Plan, delivery, IInv, TypeOK
      <3>2. CASE Acknowledged(v) \/ Hiccup(v) \/ SendsInVain(v)
        <4>1. Sending(v) /\ (NextText(v) \/ Retry(v))
          BY <3>2 DEF Acknowledged, Hiccup, SendsInVain
        <4>2. u \in Updates \ {v}
          BY <2>1
        <4> QED BY <4>1, <4>2, NextTextIs, RetryIs
      <3>3. CASE Returns(v) \/ Panics(v)
        BY <2>1, <3>3 DEF Returns, Panics, Ends, Move, Plan, IInv, TypeOK
      <3> QED BY <2>1, <3>1, <3>2, <3>3 DEF Handle
    <2>2. CASE Signal \/ WorkerStops \/ RunReturns \/ ProcessEnds \/ DrainStarts \/ DrainEnds
      BY <2>2 DEF Signal, WorkerStops, RunReturns, ProcessEnds, DrainStarts, DrainEnds, delivery
    <2>3. ASSUME NEW v \in Updates, DeadlinePasses(v)
          PROVE  UNCHANGED <<where, delivery>>
      BY <2>3 DEF DeadlinePasses
    <2>4. CASE UNCHANGED vars
      BY <2>4 DEF vars, delivery
    <2> QED BY <2>1, <2>2, <2>3, <2>4 DEF Next, Gone, delivery
  <1>2. SendsLeft(u)' = SendsLeft(u)
    BY <1>1 DEF SendsLeft, Sends
  <1> QED BY <1>1, <1>2 DEF StepsLeft, Sends

\* No handler goes round in circles: whatever Telegram refuses, whatever ends
\* a context or panics, an update is done with within 4 + (2 + MaxExtras) *
\* SendRetries steps of its handler.  With fairness this is why no handler stays.
THEOREM HandlersRunOut == Spec => []StepsAreBounded /\ [][HandlersDescend]_vars
  <1>1. IInv' => StepsNatural'
    BY StepsAreNatural, PTL
  <1>2. IInv /\ [Next]_vars => [HandlersDescend]_vars
    <2> SUFFICES ASSUME IInv, [Next]_vars PROVE HandlersDescend
      OBVIOUS
    <2>1. \A u \in Updates : StepsLeft(u) \in Nat /\ StepsLeft(u)' \in Nat
      BY <1>1, StepKeeps, StepsAreNatural DEF StepsNatural
    <2> QED BY <2>1, OwnStepDescends, OtherStepsLeave DEF HandlersDescend
  <1>3. Init => StepsAreBounded
    <2> SUFFICES ASSUME Init, NEW u \in Updates
                 PROVE  StepsLeft(u) \in 0..(4 + Sends(2 + MaxExtras))
      BY DEF StepsAreBounded
    <2>1. StepsLeft(u) = 4 + Sends(2 + MaxExtras)
      BY StepsByPlace DEF Init
    <2> QED BY <2>1, SendsAdd
  <1>4. StepsAreBounded /\ IInv' /\ [HandlersDescend]_vars => StepsAreBounded'
    <2> SUFFICES ASSUME StepsAreBounded, IInv', [HandlersDescend]_vars, NEW u \in Updates
                 PROVE  StepsLeft(u)' \in 0..(4 + Sends(2 + MaxExtras))
      BY DEF StepsAreBounded, Sends
    <2>1. StepsLeft(u) \in 0..(4 + Sends(2 + MaxExtras))
      BY DEF StepsAreBounded
    <2>2. CASE HandlersDescend
      <3>1. StepsLeft(u)' \in Nat
        BY <1>1 DEF StepsNatural
      <3>2. StepsLeft(u)' <= StepsLeft(u)
        BY <2>2 DEF HandlersDescend
      <3>3. Sends(2 + MaxExtras) \in Nat
        BY SendsAdd
      <3> QED BY <2>1, <3>1, <3>2, <3>3
    <2>3. CASE UNCHANGED vars
      BY <2>1, <2>3 DEF StepsLeft, SendsLeft, Sends, vars, delivery
    <2> QED BY <2>2, <2>3
  <1> QED
    BY <1>2, <1>3, <1>4, Invariance, PTL DEF Spec

=============================================================================
