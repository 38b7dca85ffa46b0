--------------------------- MODULE ExpertTurnProofs ---------------------------
(***************************************************************************)
(* Proofs about the tool loop of one expert turn, for any number of steps, *)
(* calls, continuations, retries, permits and writes: what the model is    *)
(* asked with is a history providers accept, a stream that ends does so in *)
(* the protocol, and work that is in no checkpoint is explained.           *)
(***************************************************************************)

EXTENDS ExpertTurn, TLAPS

-----------------------------------------------------------------------------
(* The last answer of the model.                                           *)

AIs(ms) == {i \in 1..Len(ms) : ms[i].role = "ai"}

LEMMA LastAIIs ==
    ASSUME NEW ms
    PROVE  LastAI(ms) = IF AIs(ms) # {} THEN Max(AIs(ms)) ELSE 0
  BY DEF LastAI, SelectLastInSeq, AIs

LEMMA LastAIOfAppendedAI ==
    ASSUME NEW ms \in Seq(Message), NEW m \in Message, m.role = "ai"
    PROVE  LastAI(Append(ms, m)) = Len(ms) + 1
<1>1. Len(Append(ms, m)) = Len(ms) + 1 /\ Len(ms) \in Nat /\ Append(ms, m)[Len(ms) + 1] = m
  OBVIOUS
<1>2. /\ Len(ms) + 1 \in AIs(Append(ms, m))
      /\ \A i \in AIs(Append(ms, m)) : i \in Nat /\ i <= Len(ms) + 1
  BY <1>1 DEF AIs
<1> QED BY <1>2, LastAIIs DEF Max

LEMMA LastAIOfAppendedOther ==
    ASSUME NEW ms \in Seq(Message), NEW m \in Message, m.role # "ai"
    PROVE  LastAI(Append(ms, m)) = LastAI(ms)
<1>1. AIs(Append(ms, m)) = AIs(ms)
  BY DEF AIs
<1> QED BY <1>1, LastAIIs

-----------------------------------------------------------------------------
(* Histories.  `owed`: how many calls of the last answer have no message yet. *)

\* The calls of an answer are answered at once and in order, except those that are owed,
\* and no tool message stands anywhere else.
Followed(ms, i) == \A k \in 1..ms[i].n : i + k <= Len(ms) => ms[i + k] = Tool(k)

Belongs(ms, i) ==
    \E j \in 1..i : ms[j].role = "ai" /\ ms[j].n >= i - j /\ ms[i].n = i - j

WellFormed(ms, owed) ==
    /\ owed > 0 => /\ LastAI(ms) \in DOMAIN ms
                   /\ LastAI(ms) + ms[LastAI(ms)].n = Len(ms) + owed
                   /\ ms[LastAI(ms)].role = "ai"
    /\ \A i \in DOMAIN ms :
          /\ ms[i].role = "ai" =>
                Followed(ms, i) /\ (owed = 0 \/ i # LastAI(ms) => i + ms[i].n <= Len(ms))
          /\ ms[i].role = "tool" => Belongs(ms, i)

LEMMA Messages ==
    /\ \A text \in Texts, n \in 0..MaxCalls :
          LET m == AI(text, n) IN m \in Message /\ m.role = "ai" /\ m.text = text /\ m.n = n
    /\ \A text \in Texts :
          LET m == Human(text) IN m \in Message /\ m.role = "human" /\ m.text = text /\ m.n = 0
    /\ \A n \in 0..MaxCalls :
          LET m == Tool(n) IN m \in Message /\ m.role = "tool" /\ m.n = n
  BY ConstantsAssumption DEF AI, Human, Tool, Message, Texts

LEMMA Appended ==
    ASSUME NEW ms \in Seq(Message), NEW m \in Message
    PROVE  /\ Append(ms, m) \in Seq(Message)
           /\ Len(ms) \in Nat /\ DOMAIN ms = 1..Len(ms)
           /\ Len(Append(ms, m)) = Len(ms) + 1
           /\ DOMAIN Append(ms, m) = 1..(Len(ms) + 1)
           /\ \A i \in DOMAIN ms : Append(ms, m)[i] = ms[i] /\ ms[i] \in Message
           /\ Append(ms, m)[Len(ms) + 1] = m
           /\ Append(ms, m) # <<>>
           /\ Last(Append(ms, m)) = m
  BY DEF Last

LEMMA FieldsAre ==
    ASSUME NEW m \in Message
    PROVE  m.role \in {"ai", "human", "tool"} /\ m.text \in Texts /\ m.n \in 0..MaxCalls
  BY DEF Message

\* What stood there before keeps its place.
LEMMA Kept ==
    ASSUME NEW ms \in Seq(Message), NEW m \in Message, NEW i \in DOMAIN ms
    PROVE  /\ Followed(ms, i) /\ i + ms[i].n <= Len(ms) => Followed(Append(ms, m), i)
           /\ Belongs(ms, i) => Belongs(Append(ms, m), i)
<1> DEFINE new == Append(ms, m)
<1>1. /\ Len(ms) \in Nat /\ DOMAIN ms = 1..Len(ms) /\ Len(new) = Len(ms) + 1
      /\ \A j \in DOMAIN ms : new[j] = ms[j]
  BY Appended
<1>2. ms[i].n \in Nat
  BY FieldsAre
<1> HIDE DEF new
<1>3. ASSUME Followed(ms, i), i + ms[i].n <= Len(ms)
      PROVE  Followed(new, i)
  <2> SUFFICES ASSUME NEW k \in 1..new[i].n
               PROVE  new[i + k] = Tool(k)
    BY DEF Followed
  <2>1. k \in 1..ms[i].n /\ i + k \in DOMAIN ms
    BY <1>1, <1>2, <1>3
  <2> QED BY <2>1, <1>1, <1>3 DEF Followed
<1>4. ASSUME Belongs(ms, i)
      PROVE  Belongs(new, i)
  <2>1. PICK j \in 1..i : ms[j].role = "ai" /\ ms[j].n >= i - j /\ ms[i].n = i - j
    BY <1>4 DEF Belongs
  <2>2. j \in DOMAIN ms
    BY <1>1
  <2> QED BY <2>1, <2>2, <1>1 DEF Belongs
<1> QED BY <1>3, <1>4 DEF new

LEMMA SaysMore ==
    ASSUME NEW ms \in Seq(Message), NEW m \in Message, WellFormed(ms, 0),
           m.role # "tool", m.role = "human" => m.n = 0
    PROVE  WellFormed(Append(ms, m), m.n)
<1> DEFINE new == Append(ms, m)
<1>1. ASSUME NEW i \in DOMAIN ms
      PROVE  /\ new[i] = ms[i]
             /\ ms[i].role = "ai" => Followed(new, i) /\ i + ms[i].n <= Len(ms)
             /\ ms[i].role = "tool" => Belongs(new, i)
  BY <1>1, Kept, Appended DEF WellFormed
<1>2. new[Len(ms) + 1] = m /\ DOMAIN new = 1..(Len(ms) + 1) /\ Len(new) = Len(ms) + 1
      /\ DOMAIN ms = 1..Len(ms) /\ Len(ms) \in Nat
  BY Appended
<1>3. Followed(new, Len(ms) + 1)
  BY <1>2, FieldsAre DEF Followed
<1>4. m.role = "ai" => LastAI(new) = Len(ms) + 1
  BY LastAIOfAppendedAI
<1>5. m.n \in Nat /\ m.role \in {"ai", "human"}
  BY FieldsAre
<1>6. \A i \in DOMAIN ms : ms[i].n \in Nat
  BY FieldsAre, Appended
<1> HIDE DEF new
<1>7. m.n > 0 => /\ LastAI(new) \in DOMAIN new
                 /\ LastAI(new) + new[LastAI(new)].n = Len(new) + m.n
                 /\ new[LastAI(new)].role = "ai"
  BY <1>2, <1>4, <1>5
<1>8. ASSUME NEW i \in DOMAIN new
      PROVE  /\ new[i].role = "ai" =>
                  Followed(new, i) /\ (m.n = 0 \/ i # LastAI(new) => i + new[i].n <= Len(new))
             /\ new[i].role = "tool" => Belongs(new, i)
  <2>1. CASE i \in DOMAIN ms
    BY <2>1, <1>1, <1>2, <1>6
  <2>2. CASE i = Len(ms) + 1
    BY <2>2, <1>2, <1>3, <1>4, <1>5
  <2> QED BY <2>1, <2>2, <1>2
<1> QED BY <1>7, <1>8 DEF WellFormed, new

LEMMA PaysOne ==
    ASSUME NEW ms \in Seq(Message), NEW owed \in Nat \ {0}, WellFormed(ms, owed)
    PROVE  LET p == ms[LastAI(ms)].n - owed + 1
           IN  /\ p \in 0..MaxCalls
               /\ AsksForTools(ms)
               /\ WellFormed(Append(ms, Tool(p)), owed - 1)
<1> DEFINE last == LastAI(ms)
           p == ms[last].n - owed + 1
           new == Append(ms, Tool(p))
<1>1. /\ last \in DOMAIN ms /\ ms[last].role = "ai"
      /\ last + ms[last].n = Len(ms) + owed
  BY DEF WellFormed
<1>2. DOMAIN ms = 1..Len(ms) /\ Len(ms) \in Nat /\ ms[last] \in Message
      /\ ms[last].n \in 0..MaxCalls
  BY <1>1, FieldsAre
<1> DEFINE n == ms[last].n
<1> HIDE DEF last, n
<1>3. p \in 1..MaxCalls /\ last + p = Len(ms) + 1 /\ n > 0 /\ MaxCalls \in Nat
  <2>1. last + n = Len(ms) + owed /\ last \in 1..Len(ms) /\ n \in 0..MaxCalls /\ Len(ms) \in Nat
    BY <1>1, <1>2 DEF n
  <2>2. p = n - owed + 1
    BY DEF n
  <2> HIDE DEF p
  <2> QED BY <2>1, <2>2, ConstantsAssumption
<1>4. Tool(p) \in Message /\ Tool(p).role = "tool" /\ Tool(p).n = p
  <2> HIDE DEF p
  <2>1. p \in 0..MaxCalls
    BY <1>3
  <2> QED BY <2>1, Messages DEF Tool
<1> USE DEF n, last
<1>5. LastAI(new) = last
  BY <1>4, LastAIOfAppendedOther
<1>6. /\ DOMAIN new = 1..(Len(ms) + 1) /\ Len(new) = Len(ms) + 1
      /\ new[Len(ms) + 1] = Tool(p)
      /\ \A i \in DOMAIN ms : new[i] = ms[i]
  BY <1>4, Appended
<1>7. \A i \in DOMAIN ms : ms[i].n \in Nat
  BY FieldsAre
<1>8. ASSUME NEW i \in DOMAIN ms
      PROVE  /\ ms[i].role = "ai" /\ i # last => Followed(new, i) /\ i + ms[i].n <= Len(ms)
             /\ ms[i].role = "tool" => Belongs(new, i)
  BY <1>4, Kept DEF WellFormed
<1>9. Followed(new, last)
  <2>1. Followed(ms, last)
    BY <1>1 DEF WellFormed
  <2> SUFFICES ASSUME NEW k \in 1..new[last].n, last + k <= Len(new)
               PROVE  new[last + k] = Tool(k)
    BY DEF Followed
  <2>2. CASE last + k <= Len(ms)
    BY <2>1, <2>2, <1>1, <1>2, <1>6 DEF Followed
  <2>3. CASE last + k = Len(ms) + 1
    BY <2>3, <1>1, <1>2, <1>3, <1>6
  <2> QED BY <2>2, <2>3, <1>1, <1>2, <1>6
<1>10. Belongs(new, Len(ms) + 1)
  <2>1. last \in 1..(Len(ms) + 1) /\ new[last] = ms[last]
    BY <1>1, <1>2, <1>6
  <2>2. new[last].n >= Len(ms) + 1 - last /\ new[Len(ms) + 1].n = Len(ms) + 1 - last
    BY <2>1, <1>1, <1>2, <1>3, <1>4, <1>6
  <2> QED BY <2>1, <2>2, <1>1 DEF Belongs
<1> HIDE DEF new, p, last
<1>11. ASSUME NEW i \in DOMAIN new
       PROVE  /\ new[i].role = "ai" =>
                   /\ Followed(new, i)
                   /\ owed - 1 = 0 \/ i # LastAI(new) => i + new[i].n <= Len(new)
              /\ new[i].role = "tool" => Belongs(new, i)
  <2>1. CASE i = Len(ms) + 1
    BY <2>1, <1>4, <1>6, <1>10
  <2>2. CASE i \in DOMAIN ms /\ i # last
    BY <2>2, <1>2, <1>6, <1>7, <1>8
  <2>3. CASE i = last
    BY <2>3, <1>1, <1>2, <1>5, <1>6, <1>9
  <2> QED BY <2>1, <2>2, <2>3, <1>2, <1>6
<1>12. /\ LastAI(new) \in DOMAIN new
       /\ LastAI(new) + new[LastAI(new)].n = Len(new) + (owed - 1)
       /\ new[LastAI(new)].role = "ai"
  BY <1>1, <1>2, <1>5, <1>6
<1>13. WellFormed(new, owed - 1)
  BY <1>11, <1>12 DEF WellFormed
<1>14. AsksForTools(ms)
  BY <1>1, <1>2, <1>3 DEF AsksForTools, last
<1> QED BY <1>3, <1>13, <1>14 DEF new, p, last

-----------------------------------------------------------------------------
(* The invariant.                                                          *)

ToolPoints == {"tools", "mcp", "acquire", "running", "sleeping"}

Owed == IF pc \in ToolPoints THEN Len(queue) ELSE 0

LoopType ==
    /\ pc \in Points
    /\ step \in 1..MaxSteps
    /\ messages \in Seq(Message)
    /\ queue \in Seq(Names) /\ Len(queue) <= MaxCalls
    /\ retried \in 0..1
    /\ continued \in 0..Continuations
    /\ outcome \in {"none", "stream", "raised", "cancelled"}

LoopFlags == cached \in BOOLEAN /\ results \in BOOLEAN

WorkType ==
    /\ attempt \in 0..(Retries + 1)
    /\ before \in 0..MaxWrites
    /\ others \in 0..Permits
    /\ disk \in 0..MaxWrites
    /\ saved \in 0..MaxWrites

WorkFlags == {holding, orphans, excuse} \subseteq BOOLEAN

\* While the turn runs, the history lacks just what is queued.
HistoryInv ==
    /\ pc \in ToolPoints => queue # <<>>
    /\ pc # "done" => WellFormed(messages, Owed) /\ outcome = "none"
    /\ pc = "done" => outcome # "none"

LoopInv == LoopType /\ LoopFlags /\ HistoryInv /\ EndsInTheProtocol

\* The fingerprint of a call stands for the last checkpoint, or its work is excused.
CallInv ==
    /\ InCall => before = saved \/ excuse
    /\ pc = "sleeping" => attempt <= Retries

WorkInv == WorkType /\ WorkFlags /\ CallInv /\ UnsavedWorkIsExplained

IInv == LoopInv /\ WorkInv

LEMMA Bounds ==
    /\ MaxSteps \in Nat \ {0} /\ MaxCalls \in Nat \ {0} /\ Permits \in Nat \ {0}
    /\ Continuations \in Nat /\ Retries \in Nat /\ MaxWrites \in Nat
  BY ConstantsAssumption

LEMMA InitIInv == Init => IInv
<1> SUFFICES ASSUME Init PROVE IInv
  OBVIOUS
<1>1. LoopType /\ LoopFlags
  <2>1. LoopType
    BY Bounds DEF Init, LoopType, Points
  <2>2. LoopFlags
    BY DEF Init, LoopFlags
  <2> QED BY <2>1, <2>2
<1>2. WorkType /\ WorkFlags
  <2>1. WorkType
    BY Bounds DEF Init, WorkType
  <2>2. WorkFlags
    BY DEF Init, WorkFlags
  <2> QED BY <2>1, <2>2
<1>3. WellFormed(<<>>, 0)
  BY DEF WellFormed
<1>4. HistoryInv /\ EndsInTheProtocol
  BY <1>3 DEF Init, HistoryInv, Owed, ToolPoints, EndsInTheProtocol
<1>5. CallInv /\ UnsavedWorkIsExplained
  BY DEF Init, CallInv, InCall, UnsavedWorkIsExplained
<1> QED BY <1>1, <1>2, <1>4, <1>5 DEF IInv, LoopInv, WorkInv

-----------------------------------------------------------------------------
(* The ways the loop goes on.                                              *)

\* What may stand at the end when the steps are used up.
MayEnd(ms) ==
    \/ LastIsRetry(ms)
    \/ ms[LastAI(ms)].text \in {"matching", "final", "failure"}
    \/ Last(ms) = Human("continue")
    \/ AsksForTools(ms)

GoesOn ==
    /\ pc' \in {"model", "finalizing", "done"}
    /\ messages' \in Seq(Message)
    /\ pc' # "done" => WellFormed(messages', 0) /\ outcome' = "none"
    /\ pc' = "done" => outcome' = "stream"
    /\ EndsInTheProtocol'

LEMMA AfterLoopGoesOn ==
    ASSUME NEW ms \in Seq(Message), NEW found \in BOOLEAN, outcome = "none",
           WellFormed(ms, 0), MayEnd(ms), AfterLoop(ms, found), results' = found
    PROVE  GoesOn
<1>1. CASE found /\ AsksForTools(ms) /\ ~LastIsRetry(ms)
  <2>1. pc' = "finalizing" /\ messages' = Append(ms, Human("budget")) /\ outcome' = "none"
    BY <1>1 DEF AfterLoop
  <2>2. Human("budget") \in Message /\ Human("budget").role = "human" /\ Human("budget").n = 0
    BY Messages DEF Texts
  <2>3. WellFormed(messages', 0)
    BY <2>1, <2>2, SaysMore
  <2> QED BY <2>1, <2>2, <2>3, Appended DEF GoesOn, EndsInTheProtocol
<1>2. CASE ~(found /\ AsksForTools(ms) /\ ~LastIsRetry(ms)) /\ LastIsRetry(ms)
  <2>1. pc' = "done" /\ messages' = Append(ms, AI("failure", 0)) /\ outcome' = "stream"
    BY <1>2 DEF AfterLoop
  <2>2. /\ AI("failure", 0) \in Message /\ AI("failure", 0).role = "ai"
        /\ AI("failure", 0).text = "failure"
    <3>1. "failure" \in Texts /\ 0 \in 0..MaxCalls
      BY Bounds DEF Texts
    <3> QED BY <3>1, Messages
  <2>3. messages'[LastAI(messages')].text = "failure"
    BY <2>1, <2>2, Appended, LastAIOfAppendedAI
  <2> QED BY <2>1, <2>2, <2>3, Appended DEF GoesOn, EndsInTheProtocol
<1>3. CASE ~(found /\ AsksForTools(ms) /\ ~LastIsRetry(ms)) /\ ~LastIsRetry(ms)
  <2>1. pc' = "done" /\ messages' = ms /\ outcome' = "stream"
    BY <1>3 DEF AfterLoop
  <2>2. EndsInTheProtocol'
    BY <1>3, <2>1 DEF EndsInTheProtocol, MayEnd
  <2> QED BY <2>1, <2>2 DEF GoesOn
<1> QED BY <1>1, <1>2, <1>3

LEMMA NextStepGoesOn ==
    ASSUME NEW ms \in Seq(Message), NEW found \in BOOLEAN, outcome = "none",
           step \in 1..MaxSteps,
           WellFormed(ms, 0), MayEnd(ms), NextStep(ms, found), results' = found
    PROVE  GoesOn /\ step' \in 1..MaxSteps
<1>1. CASE step < MaxSteps
  <2>1. pc' = "model" /\ step' = step + 1 /\ messages' = ms /\ outcome' = "none"
    BY <1>1 DEF NextStep
  <2> QED BY <1>1, <2>1, Bounds DEF GoesOn, EndsInTheProtocol
<1>2. CASE ~(step < MaxSteps)
  <2>1. AfterLoop(ms, found) /\ step' = step
    BY <1>2 DEF NextStep
  <2> QED BY <2>1, AfterLoopGoesOn
<1> QED BY <1>1, <1>2

LEMMA GoneOn ==
    ASSUME LoopInv, GoesOn, step' \in 1..MaxSteps,
           queue' \in Seq(Names), Len(queue') <= MaxCalls,
           cached' \in BOOLEAN, results' \in BOOLEAN,
           retried' \in 0..1, continued' \in 0..Continuations
    PROVE  LoopInv' /\ ~InCall'
<1>1. LoopType' /\ LoopFlags'
  BY DEF GoesOn, LoopType, Points, LoopFlags, LoopInv
<1>2. HistoryInv'
  BY DEF GoesOn, HistoryInv, Owed, ToolPoints
<1>3. ~InCall'
  BY DEF GoesOn, InCall
<1> QED BY <1>1, <1>2, <1>3 DEF LoopInv, GoesOn

\* A call gets its message; the results are those of before and the record.
LEMMA AnsweredGoesOn ==
    ASSUME LoopInv, NEW record \in BOOLEAN, pc \in ToolPoints, Answered(record),
           cached' \in BOOLEAN
    PROVE  LoopInv' /\ ~InCall'
<1> DEFINE ms == Append(messages, Tool(Position))
<1>1. /\ queue # <<>> /\ queue \in Seq(Names) /\ Len(queue) <= MaxCalls
      /\ messages \in Seq(Message) /\ outcome = "none" /\ results \in BOOLEAN
      /\ WellFormed(messages, Len(queue)) /\ step \in 1..MaxSteps
      /\ retried' \in 0..1 /\ continued' \in 0..Continuations
  BY DEF LoopInv, LoopType, LoopFlags, HistoryInv, Owed, ToolPoints, Answered
<1>2. /\ Len(queue) \in Nat \ {0} /\ queue' = Tail(queue) /\ queue' \in Seq(Names)
      /\ Len(queue') = Len(queue) - 1
  BY <1>1 DEF Answered
<1>3. Position \in 0..MaxCalls /\ AsksForTools(messages) /\ WellFormed(ms, Len(queue'))
  BY <1>1, <1>2, PaysOne DEF Position
<1>4. Tool(Position) \in Message /\ Tool(Position).role = "tool"
  BY <1>3, Messages
<1>5. ms \in Seq(Message)
  BY <1>1, <1>4, Appended
<1>6. results' = (results \/ record) /\ (results \/ record) \in BOOLEAN
  BY <1>1 DEF Answered, Recorded
<1>7. Len(queue') <= MaxCalls
  BY <1>1, <1>2, Bounds
<1>8. CASE Len(queue) > 1
  <2>1. pc' = "tools" /\ messages' = ms /\ step' = step /\ outcome' = "none"
    BY <1>1, <1>8 DEF Answered
  <2>2. queue' # <<>>
    <3>1. Len(queue) \in Nat /\ Len(queue') = Len(queue) - 1
      BY <1>2
    <3> DEFINE length == Len(queue')
    <3>2. length # 0
      BY <3>1, <1>8
    <3> QED BY <3>2
  <2> HIDE DEF ms
  <2>3. LoopType' /\ LoopFlags'
    BY <2>1, <1>1, <1>2, <1>5, <1>6, <1>7 DEF LoopType, LoopFlags, LoopInv, Points
  <2>4. HistoryInv'
    BY <2>1, <2>2, <1>3 DEF HistoryInv, Owed, ToolPoints
  <2>5. EndsInTheProtocol'
    BY <2>1 DEF EndsInTheProtocol
  <2>6. ~InCall'
    BY <2>1 DEF InCall
  <2> QED BY <2>3, <2>4, <2>5, <2>6 DEF LoopInv
<1>9. CASE ~(Len(queue) > 1)
  <2>1. NextStep(ms, results \/ record)
    BY <1>9 DEF Answered
  <2>2. LastAI(ms) = LastAI(messages) /\ ms[LastAI(ms)] = messages[LastAI(messages)]
    <3>1. LastAI(messages) \in DOMAIN messages
      BY <1>1, <1>2 DEF WellFormed
    <3> QED BY <3>1, <1>1, <1>4, LastAIOfAppendedOther, Appended
  <2>3. AsksForTools(ms)
    BY <2>2, <1>3 DEF AsksForTools
  <2>4. MayEnd(ms)
    BY <2>3 DEF MayEnd
  <2>5. WellFormed(ms, 0)
    <3>1. Len(queue') = 0
      BY <1>2, <1>9
    <3> QED BY <3>1, <1>3
  <2> HIDE DEF ms
  <2>6. GoesOn /\ step' \in 1..MaxSteps
    BY <2>1, <2>4, <2>5, <1>1, <1>5, <1>6, NextStepGoesOn
  <2> QED BY <2>6, <1>1, <1>2, <1>6, <1>7, GoneOn
<1> QED BY <1>8, <1>9

\* The loop is not concerned, or its tool is just at another point.
LEMMA LoopStays ==
    ASSUME LoopInv, UNCHANGED <<loop, outcome>>, pc' = pc \/ {pc, pc'} \subseteq ToolPoints
    PROVE  LoopInv'
<1>1. LoopType' /\ LoopFlags'
  BY DEF LoopInv, LoopType, LoopFlags, loop, ToolPoints, Points
<1>2. HistoryInv'
  BY DEF LoopInv, HistoryInv, Owed, loop, ToolPoints
<1>3. EndsInTheProtocol'
  BY DEF LoopInv, EndsInTheProtocol, loop
<1> QED BY <1>1, <1>2, <1>3 DEF LoopInv

LEMMA LoopBreaks ==
    ASSUME LoopInv, UNCHANGED loop, pc' = "done", outcome' \in {"raised", "cancelled"}
    PROVE  LoopInv' /\ ~InCall'
<1>1. LoopType' /\ LoopFlags'
  BY DEF LoopInv, LoopType, LoopFlags, loop, Points
<1>2. HistoryInv'
  BY DEF HistoryInv, ToolPoints
<1>3. EndsInTheProtocol' /\ ~InCall'
  BY DEF EndsInTheProtocol, InCall
<1> QED BY <1>1, <1>2, <1>3 DEF LoopInv

\* Between calls nothing is left unsaved that is not excused.
LEMMA WorkStays ==
    ASSUME WorkInv, Outside, ~InCall, ~InCall'
    PROVE  WorkInv'
<1>1. WorkType'
  BY DEF WorkInv, WorkType, Outside, gateway, workspace
<1>2. WorkFlags'
  BY DEF WorkInv, WorkFlags, Outside, gateway, workspace
<1>3. CallInv'
  BY DEF CallInv, InCall
<1>4. UnsavedWorkIsExplained'
  BY DEF WorkInv, UnsavedWorkIsExplained, Outside, workspace
<1> QED BY <1>1, <1>2, <1>3, <1>4 DEF WorkInv

-----------------------------------------------------------------------------
(* The model answers.                                                      *)

\* What the turn is while the model is asked.
LEMMA Asked ==
    ASSUME IInv, pc \in {"model", "finalizing"}
    PROVE  /\ LoopInv /\ WorkInv /\ outcome = "none" /\ ~InCall
           /\ messages \in Seq(Message) /\ WellFormed(messages, 0)
           /\ step \in 1..MaxSteps /\ queue \in Seq(Names) /\ Len(queue) <= MaxCalls
           /\ cached \in BOOLEAN /\ results \in BOOLEAN
           /\ retried \in 0..1 /\ continued \in 0..Continuations
  BY DEF IInv, LoopInv, LoopType, LoopFlags, HistoryInv, Owed, ToolPoints, InCall

\* The model says something without asking for tools.
LEMMA Says ==
    ASSUME NEW ms \in Seq(Message), WellFormed(ms, 0), NEW text \in Texts
    PROVE  LET said == Append(ms, AI(text, 0))
               told == Append(ms, Human(text))
           IN  /\ said \in Seq(Message) /\ WellFormed(said, 0)
               /\ said[LastAI(said)].text = text /\ said[LastAI(said)].n = 0
               /\ told \in Seq(Message) /\ WellFormed(told, 0) /\ Last(told) = Human(text)
               /\ told # <<>>
<1>1. 0 \in 0..MaxCalls
  BY Bounds
<1>2. /\ AI(text, 0) \in Message /\ AI(text, 0).role = "ai" /\ AI(text, 0).text = text
      /\ AI(text, 0).n = 0
      /\ Human(text) \in Message /\ Human(text).role = "human" /\ Human(text).n = 0
  BY <1>1, Messages
<1>3. WellFormed(Append(ms, AI(text, 0)), 0) /\ WellFormed(Append(ms, Human(text)), 0)
  BY <1>2, SaysMore
<1> QED BY <1>2, <1>3, Appended, LastAIOfAppendedAI

LEMMA AnswersInTextInv ==
    ASSUME IInv, AnswersInText
    PROVE  IInv'
<1>1. pc = "model" /\ Outside
  BY DEF AnswersInText
<1>2. /\ queue' = queue /\ cached' = cached /\ results' = results /\ continued' = continued
  BY DEF AnswersInText
<1>3. {"retry", "failure"} \subseteq Texts
  BY DEF Texts
<1>4. GoesOn /\ step' \in 1..MaxSteps /\ retried' \in 0..1
  <2>1. CASE retried < 1
    <3> DEFINE ms == Append(messages, Human("retry"))
    <3>1. NextStep(ms, results) /\ retried' = retried + 1
      BY <2>1 DEF AnswersInText
    <3>2. ms \in Seq(Message) /\ WellFormed(ms, 0) /\ MayEnd(ms)
      BY <1>1, <1>3, Asked, Says DEF MayEnd, LastIsRetry
    <3> HIDE DEF ms
    <3>3. GoesOn /\ step' \in 1..MaxSteps
      BY <3>1, <3>2, <1>1, <1>2, Asked, NextStepGoesOn
    <3>4. retried' \in 0..1
      BY <3>1, <2>1, <1>1, Asked
    <3> QED BY <3>3, <3>4
  <2>2. CASE ~(retried < 1)
    <3> DEFINE ms == Append(messages, AI("failure", 0))
    <3>1. AfterLoop(ms, results) /\ retried' = retried /\ step' = step
      BY <2>2 DEF AnswersInText
    <3>2. ms \in Seq(Message) /\ WellFormed(ms, 0) /\ MayEnd(ms)
      BY <1>1, <1>3, Asked, Says DEF MayEnd
    <3> HIDE DEF ms
    <3>3. GoesOn
      BY <3>1, <3>2, <1>1, <1>2, Asked, AfterLoopGoesOn
    <3> QED BY <3>1, <3>3, <1>1, Asked
  <2> QED BY <2>1, <2>2
<1>5. LoopInv' /\ ~InCall'
  BY <1>1, <1>2, <1>4, Asked, GoneOn
<1> QED BY <1>1, <1>5, Asked, WorkStays DEF IInv

LEMMA AnswersWithCallsInv ==
    ASSUME IInv, NEW n \in 1..MaxCalls, NEW names \in [1..n -> Names], AnswersWithCalls(names)
    PROVE  IInv'
<1>1. /\ pc = "model" /\ pc' = "tools" /\ Outside /\ queue' = names
      /\ messages' = Append(messages, AI("calls", Len(names)))
      /\ UNCHANGED <<step, cached, results, retried, continued, outcome>>
  BY DEF AnswersWithCalls
<1>2. names \in Seq(Names) /\ Len(names) = n /\ n \in Nat \ {0} /\ n <= MaxCalls
  BY Bounds
<1>3. /\ AI("calls", n) \in Message /\ AI("calls", n).role = "ai" /\ AI("calls", n).n = n
  <2>1. "calls" \in Texts /\ n \in 0..MaxCalls
    BY <1>2, Bounds DEF Texts
  <2> QED BY <2>1, Messages
<1>4. WellFormed(messages', n) /\ messages' \in Seq(Message)
  BY <1>1, <1>2, <1>3, Asked, SaysMore, Appended
<1>5. names # <<>>
  BY <1>2
<1>6. LoopType' /\ LoopFlags'
  BY <1>1, <1>2, <1>4, Asked DEF LoopType, LoopFlags, Points
<1>7. HistoryInv'
  BY <1>1, <1>2, <1>4, <1>5, Asked DEF HistoryInv, Owed, ToolPoints
<1>8. EndsInTheProtocol' /\ ~InCall'
  BY <1>1, Asked DEF EndsInTheProtocol, InCall
<1> QED BY <1>1, <1>6, <1>7, <1>8, Asked, WorkStays DEF IInv, LoopInv

LEMMA AnswersInv ==
    ASSUME IInv, Answers
    PROVE  IInv'
<1> DEFINE ms == Append(messages, AI("matching", 0))
<1>1. /\ pc = "model" /\ Outside /\ AfterLoop(ms, results)
      /\ UNCHANGED <<step, queue, cached, results, retried, continued>>
  BY DEF Answers
<1>2. ms \in Seq(Message) /\ WellFormed(ms, 0) /\ MayEnd(ms)
  <2>1. "matching" \in Texts
    BY DEF Texts
  <2> QED BY <2>1, <1>1, Asked, Says DEF MayEnd
<1> HIDE DEF ms
<1>3. GoesOn
  BY <1>1, <1>2, Asked, AfterLoopGoesOn
<1>4. LoopInv' /\ ~InCall'
  BY <1>1, <1>3, Asked, GoneOn
<1> QED BY <1>1, <1>4, Asked, WorkStays DEF IInv

LEMMA AnswersOtherwiseInv ==
    ASSUME IInv, NEW text \in {"other", "truncated"}, AnswersOtherwise(text)
    PROVE  IInv'
<1> DEFINE said == Append(messages, AI(text, 0))
<1>1. /\ pc = "model" /\ Outside
      /\ UNCHANGED <<queue, cached, results, retried>>
  BY DEF AnswersOtherwise
<1>2. {text, "continue", "decide"} \subseteq Texts
  BY DEF Texts
<1>3. said \in Seq(Message) /\ WellFormed(said, 0)
  BY <1>1, <1>2, Asked, Says
<1>4. GoesOn /\ step' \in 1..MaxSteps /\ continued' \in 0..Continuations
  <2>1. CASE text = "truncated" /\ continued < Continuations
    <3> DEFINE ms == Append(said, Human("continue"))
    <3>1. NextStep(ms, results) /\ continued' = continued + 1
      BY <2>1 DEF AnswersOtherwise
    <3> HIDE DEF said
    <3>2. ms \in Seq(Message) /\ WellFormed(ms, 0) /\ MayEnd(ms)
      BY <1>2, <1>3, Says DEF MayEnd
    <3> HIDE DEF ms
    <3>3. GoesOn /\ step' \in 1..MaxSteps
      BY <3>1, <3>2, <1>1, Asked, NextStepGoesOn
    <3>4. continued' \in 0..Continuations
      BY <3>1, <2>1, <1>1, Asked, Bounds
    <3> QED BY <3>3, <3>4
  <2>2. CASE ~(text = "truncated" /\ continued < Continuations)
    <3>1. /\ pc' = "finalizing" /\ messages' = Append(said, Human("decide"))
          /\ step' = step /\ continued' = continued /\ outcome' = outcome
      BY <2>2 DEF AnswersOtherwise
    <3> HIDE DEF said
    <3>2. messages' \in Seq(Message) /\ WellFormed(messages', 0)
      BY <3>1, <1>2, <1>3, Says
    <3>3. GoesOn
      BY <3>1, <3>2, <1>1, Asked DEF GoesOn, EndsInTheProtocol
    <3> QED BY <3>1, <3>3, <1>1, Asked
  <2> QED BY <2>1, <2>2
<1>5. LoopInv' /\ ~InCall'
  BY <1>1, <1>4, Asked, GoneOn
<1> QED BY <1>1, <1>5, Asked, WorkStays DEF IInv

LEMMA FinalizesInv ==
    ASSUME IInv, Finalizes
    PROVE  IInv'
<1>1. /\ pc = "finalizing" /\ Outside /\ pc' = "done" /\ outcome' = "stream"
      /\ messages' = Append(messages, AI("final", 0))
      /\ UNCHANGED <<step, queue, cached, results, retried, continued>>
  BY DEF Finalizes
<1>2. messages' \in Seq(Message) /\ messages'[LastAI(messages')].text = "final"
  <2>1. "final" \in Texts
    BY DEF Texts
  <2> QED BY <2>1, <1>1, Asked, Says
<1>3. GoesOn
  BY <1>1, <1>2 DEF GoesOn, EndsInTheProtocol
<1>4. LoopInv' /\ ~InCall'
  BY <1>1, <1>3, Asked, GoneOn
<1> QED BY <1>1, <1>4, Asked, WorkStays DEF IInv

LEMMA ModelFailsInv ==
    ASSUME IInv, ModelFails
    PROVE  IInv'
<1>1. /\ pc \in {"model", "finalizing"} /\ Outside /\ pc' = "done" /\ outcome' = "raised"
      /\ UNCHANGED loop
  BY DEF ModelFails
<1>2. LoopInv' /\ ~InCall'
  BY <1>1, Asked, LoopBreaks
<1> QED BY <1>1, <1>2, Asked, WorkStays DEF IInv

LEMMA ArgumentsFailInv ==
    ASSUME IInv, ArgumentsFail
    PROVE  IInv'
<1>1. /\ pc = "tools" /\ Outside /\ pc' = "done" /\ outcome' = "raised"
      /\ UNCHANGED loop
  BY DEF ArgumentsFail
<1>2. LoopInv' /\ ~InCall'
  BY <1>1, LoopBreaks DEF IInv
<1>3. ~InCall
  BY <1>1 DEF InCall
<1> QED BY <1>1, <1>2, <1>3, WorkStays DEF IInv

-----------------------------------------------------------------------------
(* Tools on the host.                                                      *)

LEMMA ForcedInv ==
    ASSUME WorkInv, NEW writes \in 0..MaxWrites, NEW captured \in BOOLEAN,
           Forced(writes, captured), ~InCall, ~InCall'
    PROVE  WorkInv'
<1>1. /\ disk + writes <= MaxWrites /\ disk' = disk + writes
      /\ UNCHANGED <<attempt, before, holding, others, orphans>>
  BY DEF Forced, gateway
<1>2. \/ saved' = disk' /\ excuse' = FALSE
      \/ excuse' = (excuse \/ disk' # saved) /\ saved' = saved
  BY DEF Forced
<1>3. WorkType'
  BY <1>1, <1>2, Bounds DEF WorkInv, WorkType
<1>4. WorkFlags'
  BY <1>1, <1>2 DEF WorkInv, WorkFlags
<1>5. CallInv'
  BY DEF CallInv, InCall
<1>6. UnsavedWorkIsExplained'
  BY <1>2 DEF UnsavedWorkIsExplained
<1> QED BY <1>3, <1>4, <1>5, <1>6 DEF WorkInv

\* A tool on the host, or an MCP server, answers: the workspace is as it was, or was
\* written and captured.
LEMMA HostAnswers ==
    ASSUME IInv, NEW record \in BOOLEAN, pc \in {"tools", "mcp"}, Answered(record),
           cached' = cached,
           \/ Outside
           \/ \E writes \in 0..MaxWrites, captured \in BOOLEAN : Forced(writes, captured)
    PROVE  IInv'
<1>1. cached' \in BOOLEAN /\ pc \in ToolPoints /\ ~InCall
  BY DEF IInv, LoopInv, LoopFlags, ToolPoints, InCall
<1>2. LoopInv' /\ ~InCall'
  BY <1>1, AnsweredGoesOn DEF IInv
<1>3. WorkInv'
  <2>1. CASE Outside
    BY <2>1, <1>1, <1>2, WorkStays DEF IInv
  <2>2. ASSUME NEW writes \in 0..MaxWrites, NEW captured \in BOOLEAN,
               Forced(writes, captured)
        PROVE  WorkInv'
    BY <2>2, <1>1, <1>2, ForcedInv DEF IInv
  <2> QED BY <2>1, <2>2
<1> QED BY <1>2, <1>3 DEF IInv

LEMMA OneWrite ==
    ASSUME NEW writes \in 0..1, NEW captured, Forced(writes, captured), WorkInv
    PROVE  writes \in 0..MaxWrites
  BY Bounds DEF Forced, WorkInv, WorkType

LEMMA CallUnknownInv ==
    ASSUME IInv, NEW record \in BOOLEAN, CallUnknown(record)
    PROVE  IInv'
  BY HostAnswers DEF CallUnknown

LEMMA CallReadsInv ==
    ASSUME IInv, CallReads
    PROVE  IInv'
  BY HostAnswers DEF CallReads, Tools

LEMMA CallWritesInv ==
    ASSUME IInv, NEW captured \in BOOLEAN, CallWrites(captured)
    PROVE  IInv'
<1>1. 1 \in 0..MaxWrites
  BY OneWrite DEF CallWrites, IInv
<1> QED BY <1>1, HostAnswers DEF CallWrites, Tools

LEMMA CallChangesInv ==
    ASSUME IInv, NEW writes \in 0..1, NEW captured \in BOOLEAN, CallChanges(writes, captured)
    PROVE  IInv'
<1>1. writes \in 0..MaxWrites
  BY OneWrite DEF CallChanges, IInv
<1> QED BY <1>1, HostAnswers DEF CallChanges, Tools

LEMMA CallApiInv ==
    ASSUME IInv, NEW file \in BOOLEAN, NEW captured \in BOOLEAN, CallApi(file, captured)
    PROVE  IInv'
<1>1. Outside \/ Forced(1, captured)
  BY DEF CallApi, ApiAnswers
<1>2. Outside \/ (1 \in 0..MaxWrites /\ Forced(1, captured))
  BY <1>1, OneWrite DEF IInv
<1> QED BY <1>2, HostAnswers DEF CallApi, Tools

LEMMA McpAnswersInv ==
    ASSUME IInv, NEW files \in 0..MaxWrites, NEW captured \in BOOLEAN,
           McpAnswers(files, captured)
    PROVE  IInv'
  BY HostAnswers DEF McpAnswers

LEMMA McpAnswerBreaksOffInv ==
    ASSUME IInv, NEW files \in 1..MaxWrites, McpAnswerBreaksOff(files)
    PROVE  IInv'
<1>1. files \in 0..MaxWrites
  BY Bounds
<1> QED BY <1>1, HostAnswers DEF McpAnswerBreaksOff

LEMMA McpFailsInv ==
    ASSUME IInv, McpFails
    PROVE  IInv'
  BY HostAnswers DEF McpFails

LEMMA CallCachedInv ==
    ASSUME IInv, CallCached
    PROVE  IInv'
  BY HostAnswers DEF CallCached

LEMMA CallRefusedInv ==
    ASSUME IInv, CallRefused
    PROVE  IInv'
  BY HostAnswers DEF CallRefused

LEMMA CallMcpInv ==
    ASSUME IInv, CallMcp
    PROVE  IInv'
<1>1. /\ pc = "tools" /\ pc' = "mcp" /\ UNCHANGED <<loop, outcome>> /\ Outside
  BY DEF CallMcp, Tools
<1>2. LoopInv' /\ ~InCall /\ ~InCall'
  BY <1>1, LoopStays DEF IInv, ToolPoints, InCall
<1> QED BY <1>1, <1>2, WorkStays DEF IInv

-----------------------------------------------------------------------------
(* The script.                                                             *)

LEMMA CallScriptInv ==
    ASSUME IInv, CallScript
    PROVE  IInv'
<1>1. /\ pc = "tools" /\ pc' = "acquire" /\ UNCHANGED <<loop, outcome>>
      /\ before' = disk /\ attempt' = 0
      /\ UNCHANGED <<holding, others, disk, saved, orphans, excuse>>
  BY DEF CallScript, workspace
<1>2. LoopInv' /\ ~InCall /\ InCall'
  BY <1>1, LoopStays DEF IInv, ToolPoints, InCall
<1>3. WorkType'
  BY <1>1, Bounds DEF IInv, WorkInv, WorkType
<1>4. WorkFlags'
  BY <1>1 DEF IInv, WorkInv, WorkFlags
<1>5. CallInv' /\ UnsavedWorkIsExplained'
  BY <1>1, <1>2 DEF IInv, WorkInv, CallInv, UnsavedWorkIsExplained
<1> QED BY <1>2, <1>3, <1>4, <1>5 DEF IInv, WorkInv

LEMMA AcquireInv ==
    ASSUME IInv, Acquire
    PROVE  IInv'
<1>1. /\ pc = "acquire" /\ pc' = "running" /\ UNCHANGED <<loop, outcome>>
      /\ holding' = TRUE /\ attempt' = 1
      /\ UNCHANGED <<before, others, disk, saved, orphans, excuse>>
  BY DEF Acquire, workspace
<1>2. LoopInv' /\ InCall /\ InCall'
  BY <1>1, LoopStays DEF IInv, ToolPoints, InCall
<1>3. WorkType'
  BY <1>1, Bounds DEF IInv, WorkInv, WorkType
<1>4. WorkFlags'
  BY <1>1 DEF IInv, WorkInv, WorkFlags
<1>5. CallInv' /\ UnsavedWorkIsExplained'
  BY <1>1, <1>2 DEF IInv, WorkInv, CallInv, UnsavedWorkIsExplained
<1> QED BY <1>2, <1>3, <1>4, <1>5 DEF IInv, WorkInv

LEMMA WriteInv ==
    ASSUME IInv, Write
    PROVE  IInv'
<1>1. /\ pc' = pc /\ UNCHANGED <<loop, outcome>> /\ disk < MaxWrites /\ disk' = disk + 1
      /\ UNCHANGED <<attempt, before, holding, others, saved, orphans>>
      /\ excuse' = (excuse \/ ~InCall)
  BY DEF Write, gateway
<1>2. LoopInv' /\ InCall' = InCall
  BY <1>1, LoopStays DEF IInv, InCall
<1>3. WorkType'
  BY <1>1, Bounds DEF IInv, WorkInv, WorkType
<1>4. WorkFlags'
  BY <1>1 DEF IInv, WorkInv, WorkFlags
<1>5. CallInv'
  BY <1>1, <1>2 DEF IInv, WorkInv, CallInv
<1>6. UnsavedWorkIsExplained'
  BY <1>1, <1>2 DEF UnsavedWorkIsExplained
<1> QED BY <1>2, <1>3, <1>4, <1>5, <1>6 DEF IInv, WorkInv

LEMMA ExitsInv ==
    ASSUME IInv, NEW accepted \in BOOLEAN, NEW artifacts \in BOOLEAN,
           NEW captured \in BOOLEAN, Exits(accepted, artifacts, captured)
    PROVE  IInv'
<1>1. /\ pc = "running" /\ Answered(TRUE) /\ cached' = accepted /\ holding' = FALSE
      /\ UNCHANGED <<attempt, before, others, disk, orphans>>
  BY DEF Exits
<1>2. \/ disk = before /\ saved' = saved /\ excuse' = excuse
      \/ saved' = disk /\ excuse' = FALSE
      \/ excuse' = TRUE /\ saved' = saved
  BY DEF Exits, Capture
<1>3. LoopInv' /\ InCall /\ ~InCall'
  BY <1>1, AnsweredGoesOn DEF IInv, ToolPoints, InCall
<1>4. WorkType'
  BY <1>1, <1>2 DEF IInv, WorkInv, WorkType
<1>5. WorkFlags'
  BY <1>1, <1>2 DEF IInv, WorkInv, WorkFlags
<1>6. CallInv'
  BY <1>3 DEF CallInv, InCall
<1>7. UnsavedWorkIsExplained'
  <2>1. before = saved \/ excuse
    BY <1>3 DEF IInv, WorkInv, CallInv
  <2> QED BY <2>1, <1>1, <1>2 DEF UnsavedWorkIsExplained
<1> QED BY <1>3, <1>4, <1>5, <1>6, <1>7 DEF IInv, WorkInv

\* An attempt fails and there is another, at once or after a pause, or none.
LEMMA FailsInv ==
    ASSUME IInv, pc = "running", orphans' \in BOOLEAN, UNCHANGED <<others, disk, saved>>,
           \/ /\ attempt <= Retries
              /\ \/ pc' = "running" /\ attempt' = attempt + 1
                 \/ pc' = "sleeping" /\ attempt' = attempt
              /\ UNCHANGED <<loop, before, holding, excuse, outcome>>
           \/ GiveUp
    PROVE  IInv'
<1>1. CASE GiveUp
  <2>1. /\ Answered(TRUE) /\ holding' = FALSE /\ excuse' = TRUE
        /\ UNCHANGED <<attempt, before, cached>>
    BY <1>1 DEF GiveUp
  <2>2. cached' \in BOOLEAN
    BY <2>1 DEF IInv, LoopInv, LoopFlags
  <2>3. LoopInv' /\ ~InCall'
    BY <2>1, <2>2, AnsweredGoesOn DEF IInv, ToolPoints
  <2>4. WorkType'
    BY <2>1 DEF IInv, WorkInv, WorkType
  <2>5. WorkFlags' /\ UnsavedWorkIsExplained'
    BY <2>1 DEF WorkFlags, UnsavedWorkIsExplained
  <2>6. CallInv'
    BY <2>3 DEF CallInv, InCall
  <2> QED BY <2>3, <2>4, <2>5, <2>6 DEF IInv, WorkInv
<1>2. ASSUME attempt <= Retries,
             \/ pc' = "running" /\ attempt' = attempt + 1
             \/ pc' = "sleeping" /\ attempt' = attempt,
             UNCHANGED <<loop, before, holding, excuse, outcome>>
      PROVE  IInv'
  <2>1. LoopInv' /\ InCall /\ InCall'
    BY <1>2, LoopStays DEF IInv, ToolPoints, InCall
  <2>2. WorkType'
    BY <1>2, Bounds DEF IInv, WorkInv, WorkType
  <2>3. WorkFlags'
    BY <1>2 DEF IInv, WorkInv, WorkFlags
  <2>4. CallInv'
    <3>1. pc' = "sleeping" => attempt' <= Retries
      BY <1>2
    <3>2. before' = saved' \/ excuse'
      BY <1>2, <2>1 DEF IInv, WorkInv, CallInv
    <3> QED BY <3>1, <3>2 DEF CallInv
  <2>5. UnsavedWorkIsExplained'
    BY <2>1 DEF UnsavedWorkIsExplained
  <2> QED BY <2>1, <2>2, <2>3, <2>4, <2>5 DEF IInv, WorkInv
<1> QED BY <1>1, <1>2

LEMMA TimesOutInv ==
    ASSUME IInv, TimesOut
    PROVE  IInv'
  BY FailsInv DEF TimesOut

LEMMA RaisesInv ==
    ASSUME IInv, NEW environment \in BOOLEAN, Raises(environment)
    PROVE  IInv'
<1>1. orphans' \in BOOLEAN
  BY DEF Raises, IInv, WorkInv, WorkFlags
<1> QED BY <1>1, FailsInv DEF Raises, gateway

LEMMA WakesInv ==
    ASSUME IInv, Wakes
    PROVE  IInv'
<1>1. /\ pc = "sleeping" /\ pc' = "running" /\ attempt' = attempt + 1
      /\ UNCHANGED <<loop, outcome>>
      /\ UNCHANGED <<before, holding, others, disk, saved, orphans, excuse>>
  BY DEF Wakes, workspace
<1>2. LoopInv' /\ InCall /\ InCall'
  BY <1>1, LoopStays DEF IInv, ToolPoints, InCall
<1>3. WorkType'
  BY <1>1, Bounds DEF IInv, WorkInv, WorkType, CallInv
<1>4. WorkFlags'
  BY <1>1 DEF IInv, WorkInv, WorkFlags
<1>5. CallInv' /\ UnsavedWorkIsExplained'
  BY <1>1, <1>2 DEF IInv, WorkInv, CallInv, UnsavedWorkIsExplained
<1> QED BY <1>2, <1>3, <1>4, <1>5 DEF IInv, WorkInv

-----------------------------------------------------------------------------
(* The surroundings.                                                       *)

LEMMA CancelInv ==
    ASSUME IInv, Cancel
    PROVE  IInv'
<1>1. /\ pc' = "done" /\ outcome' = "cancelled" /\ UNCHANGED loop
      /\ holding' = FALSE /\ orphans' = (orphans \/ pc = "running")
      /\ excuse' = (excuse \/ InCall)
      /\ UNCHANGED <<attempt, before, others, disk, saved>>
  BY DEF Cancel
<1>2. LoopInv' /\ ~InCall'
  BY <1>1, LoopBreaks DEF IInv
<1>3. WorkType'
  BY <1>1 DEF IInv, WorkInv, WorkType
<1>4. WorkFlags'
  BY <1>1 DEF IInv, WorkInv, WorkFlags
<1>5. CallInv'
  BY <1>1 DEF CallInv, InCall
<1>6. UnsavedWorkIsExplained'
  BY <1>1 DEF IInv, WorkInv, UnsavedWorkIsExplained
<1> QED BY <1>2, <1>3, <1>4, <1>5, <1>6 DEF IInv, WorkInv

\* Steps of others, and stutters.
LEMMA OthersInv ==
    ASSUME IInv, UNCHANGED <<pc, loop, gateway, disk, saved, excuse, outcome>>,
           others' \in 0..Permits, orphans' \in BOOLEAN
    PROVE  IInv'
<1>1. LoopInv' /\ InCall' = InCall
  BY LoopStays DEF IInv, InCall
<1>2. WorkType'
  BY DEF IInv, WorkInv, WorkType, gateway
<1>3. WorkFlags'
  BY DEF IInv, WorkInv, WorkFlags, gateway
<1>4. CallInv' /\ UnsavedWorkIsExplained'
  BY <1>1 DEF IInv, WorkInv, CallInv, UnsavedWorkIsExplained, gateway
<1> QED BY <1>1, <1>2, <1>3, <1>4 DEF IInv, WorkInv

LEMMA NextInv == IInv /\ [Next]_vars => IInv'
<1> SUFFICES ASSUME IInv, [Next]_vars PROVE IInv'
  OBVIOUS
<1>1. others \in 0..Permits /\ orphans \in BOOLEAN
  BY DEF IInv, WorkInv, WorkType, WorkFlags
<1>2. CASE ModelAnswers
  BY <1>2, AnswersInTextInv, AnswersWithCallsInv, AnswersInv, AnswersOtherwiseInv, FinalizesInv
     DEF ModelAnswers
<1>3. CASE Timely
  BY <1>3, ModelFailsInv, CallUnknownInv, CallReadsInv, CallMcpInv, McpFailsInv, CallCachedInv,
     CallScriptInv, AcquireInv, TimesOutInv, WakesInv DEF Timely
<1>4. ASSUME NEW captured \in BOOLEAN,
             \/ CallWrites(captured)
             \/ \E writes \in 0..1 : CallChanges(writes, captured)
             \/ \E file \in BOOLEAN : CallApi(file, captured)
             \/ \E files \in 0..MaxWrites : McpAnswers(files, captured)
      PROVE  IInv'
  BY <1>4, CallWritesInv, CallChangesInv, CallApiInv, McpAnswersInv
<1>5. ASSUME NEW files \in 1..MaxWrites, McpAnswerBreaksOff(files)
      PROVE  IInv'
  BY <1>5, McpAnswerBreaksOffInv
<1>6. CASE ArgumentsFail \/ CallRefused \/ Write \/ Cancel
  BY <1>6, ArgumentsFailInv, CallRefusedInv, WriteInv, CancelInv
<1>7. ASSUME NEW accepted \in BOOLEAN, NEW artifacts \in BOOLEAN, NEW captured \in BOOLEAN,
             Exits(accepted, artifacts, captured)
      PROVE  IInv'
  BY <1>7, ExitsInv
<1>8. ASSUME NEW environment \in BOOLEAN, Raises(environment)
      PROVE  IInv'
  BY <1>8, RaisesInv
<1>9. CASE OrphanEnds
  BY <1>1, <1>9, OthersInv DEF OrphanEnds
<1>10. CASE OtherTakes
  <2>1. others' \in 0..Permits
    BY <1>1, <1>10, Bounds DEF OtherTakes, Taken
  <2> QED BY <2>1, <1>1, <1>10, OthersInv DEF OtherTakes, workspace
<1>11. CASE OtherReturns
  <2>1. others' \in 0..Permits
    BY <1>1, <1>11, Bounds DEF OtherReturns
  <2> QED BY <2>1, <1>1, <1>11, OthersInv DEF OtherReturns, workspace
<1>12. CASE UNCHANGED vars
  <2>1. others' = others /\ orphans' = orphans
        /\ UNCHANGED <<pc, loop, gateway, disk, saved, excuse, outcome>>
    BY <1>12 DEF vars
  <2> QED BY <2>1, <1>1, OthersInv
<1> QED BY <1>2, <1>3, <1>4, <1>5, <1>6, <1>7, <1>8, <1>9, <1>10, <1>11, <1>12 DEF Next

\* The invariant of the loop and of the work, of every behaviour.
THEOREM Invariance == Spec => []IInv
  BY InitIInv, NextInv, PTL DEF Spec

-----------------------------------------------------------------------------
(* The permits.                                                            *)

LEMMA AnsweredEnds ==
    ASSUME NEW record, Answered(record)
    PROVE  /\ pc' \in {"tools", "model", "finalizing", "done"}
           /\ retried' = retried /\ continued' = continued /\ queue' = Tail(queue)
  BY DEF Answered, NextStep, AfterLoop

\* The turn neither takes nor returns a permit.
LEMMA PermitsStay ==
    ASSUME PermitsAreTheirs, UNCHANGED <<holding, others>>,
           pc \in {"running", "sleeping"} <=> pc' \in {"running", "sleeping"}
    PROVE  PermitsAreTheirs'
  BY DEF PermitsAreTheirs, Taken

LEMMA PermitIsReturned ==
    ASSUME PermitsAreTheirs, others \in 0..Permits, holding' = FALSE, others' = others,
           pc' \notin {"running", "sleeping"}
    PROVE  PermitsAreTheirs'
<1>1. others' + 0 <= Permits
  BY Bounds
<1> QED BY <1>1 DEF PermitsAreTheirs, Taken

LEMMA NextPermits == IInv /\ PermitsAreTheirs /\ [Next]_vars => PermitsAreTheirs'
<1> SUFFICES ASSUME IInv, PermitsAreTheirs, [Next]_vars PROVE PermitsAreTheirs'
  OBVIOUS
<1>1. others \in 0..Permits /\ holding \in BOOLEAN
  BY DEF IInv, WorkInv, WorkType, WorkFlags
<1>2. CASE ModelAnswers \/ ModelFails
  <2>1. /\ pc \in {"model", "finalizing"} /\ UNCHANGED <<holding, others>>
        /\ pc' \in {"model", "tools", "finalizing", "done"}
    BY <1>2 DEF ModelAnswers, ModelFails, AnswersInText, AnswersWithCalls, Answers,
                AnswersOtherwise, Finalizes, Outside, gateway, NextStep, AfterLoop
  <2> QED BY <2>1, PermitsStay
<1>3. CASE \/ \E record \in BOOLEAN : CallUnknown(record)
           \/ CallReads \/ McpFails \/ CallCached \/ CallRefused
  <2>1. /\ pc \in {"tools", "mcp"} /\ UNCHANGED <<holding, others>>
        /\ \E record : Answered(record)
    BY <1>3 DEF CallUnknown, CallReads, McpFails, CallCached, CallRefused, Tools, Outside, gateway
  <2> QED BY <2>1, AnsweredEnds, PermitsStay
<1>4. CASE \/ \E captured \in BOOLEAN :
                \/ CallWrites(captured)
                \/ \E writes \in 0..1 : CallChanges(writes, captured)
                \/ \E file \in BOOLEAN : CallApi(file, captured)
                \/ \E files \in 0..MaxWrites : McpAnswers(files, captured)
           \/ \E files \in 1..MaxWrites : McpAnswerBreaksOff(files)
  <2>1. /\ pc \in {"tools", "mcp"} /\ UNCHANGED <<holding, others>>
        /\ \E record : Answered(record)
    BY <1>4 DEF CallWrites, CallChanges, CallApi, ApiAnswers, McpAnswers, McpAnswerBreaksOff,
                Tools, Outside, Forced, gateway
  <2> QED BY <2>1, AnsweredEnds, PermitsStay
<1>5. CASE CallMcp \/ CallScript \/ Wakes \/ ArgumentsFail
  <2>1. /\ UNCHANGED <<holding, others>>
        /\ \/ pc = "tools" /\ pc' \in {"mcp", "acquire", "done"}
           \/ pc = "sleeping" /\ pc' = "running"
    BY <1>5 DEF CallMcp, CallScript, Wakes, ArgumentsFail, Tools, Outside, gateway
  <2> QED BY <2>1, PermitsStay
<1>6. CASE Acquire
  <2>1. holding = FALSE /\ others + 0 < Permits /\ others' = others /\ holding' = TRUE
        /\ pc' = "running"
    BY <1>1, <1>6 DEF Acquire, PermitsAreTheirs, Taken
  <2>2. others' + 1 <= Permits
    BY <2>1, <1>1, Bounds
  <2> QED BY <2>1, <2>2 DEF PermitsAreTheirs, Taken
<1>7. CASE \/ \E accepted, artifacts, captured \in BOOLEAN : Exits(accepted, artifacts, captured)
           \/ Cancel
  <2>1. holding' = FALSE /\ others' = others /\ pc' \notin {"running", "sleeping"}
    BY <1>7, AnsweredEnds DEF Exits, Cancel
  <2> QED BY <2>1, <1>1, PermitIsReturned
<1>8. CASE TimesOut \/ (\E environment \in BOOLEAN : Raises(environment))
  <2>1. pc = "running" /\ others' = others
    BY <1>8 DEF TimesOut, Raises
  <2>2. \/ holding' = holding /\ pc' \in {"running", "sleeping"}
        \/ GiveUp
    BY <1>8 DEF TimesOut, Raises, gateway
  <2>3. GiveUp => holding' = FALSE /\ pc' \notin {"running", "sleeping"}
    BY AnsweredEnds DEF GiveUp
  <2> QED BY <2>1, <2>2, <2>3, <1>1, PermitsStay, PermitIsReturned
<1>9. CASE Write \/ OrphanEnds \/ UNCHANGED vars
  BY <1>9, PermitsStay DEF Write, OrphanEnds, vars, gateway
<1>10. CASE OtherTakes
  <2>1. pc' = pc /\ holding' = holding /\ others' = others + 1 /\ Taken < Permits
    BY <1>10 DEF OtherTakes, gateway
  <2>2. Taken' <= Permits
    BY <2>1, <1>1, Bounds DEF Taken
  <2> QED BY <2>1, <2>2 DEF PermitsAreTheirs
<1>11. CASE OtherReturns
  <2>1. pc' = pc /\ holding' = holding /\ others' = others - 1 /\ others > 0
    BY <1>11 DEF OtherReturns, gateway
  <2>2. Taken' <= Permits
    BY <2>1, <1>1, Bounds DEF Taken, PermitsAreTheirs
  <2> QED BY <2>1, <2>2 DEF PermitsAreTheirs
<1> QED BY <1>2, <1>3, <1>4, <1>5, <1>6, <1>7, <1>8, <1>9, <1>10, <1>11 DEF Next, Timely

-----------------------------------------------------------------------------
\* All variables keep their types and bounds, whatever the model answers and however often
\* an attempt fails, and the permits of the user's semaphore are neither lost nor given
\* twice.
THEOREM TypeCorrect == Spec => []TypeOK
<1>1. Init => PermitsAreTheirs
  <2>1. Init => others + 0 <= Permits
    BY Bounds DEF Init
  <2> QED BY <2>1 DEF Init, PermitsAreTheirs, Taken
<1>2. Spec => []PermitsAreTheirs
  BY <1>1, NextPermits, Invariance, PTL DEF Spec
<1>3. IInv /\ PermitsAreTheirs => TypeOK
  BY DEF IInv, LoopInv, LoopType, LoopFlags, WorkInv, WorkType, WorkFlags, TypeOK
<1> QED BY <1>2, <1>3, Invariance, PTL

\* For any mix of tools, unknown names, retries and continuations, the history the model
\* is asked with has one message for each call of an answer, at once and in order.
THEOREM HistoryIsAccepted == Spec => []TranscriptIsWellFormed
<1>1. IInv => TranscriptIsWellFormed
  <2> SUFFICES ASSUME IInv, pc \in {"model", "finalizing"}, NEW i \in DOMAIN messages
               PROVE  /\ messages[i].role = "ai" =>
                           \A k \in 1..messages[i].n :
                               i + k \in DOMAIN messages /\ messages[i + k] = Tool(k)
                      /\ messages[i].role = "tool" =>
                           \E j \in 1..i : messages[j].role = "ai" /\ messages[j].n >= i - j
                                           /\ messages[i].n = i - j
    BY DEF TranscriptIsWellFormed
  <2>1. /\ messages \in Seq(Message) /\ DOMAIN messages = 1..Len(messages)
        /\ Len(messages) \in Nat /\ messages[i].n \in Nat
    BY Asked, FieldsAre
  <2>2. /\ messages[i].role = "ai" => Followed(messages, i) /\ i + messages[i].n <= Len(messages)
        /\ messages[i].role = "tool" => Belongs(messages, i)
    BY Asked DEF WellFormed
  <2>3. ASSUME messages[i].role = "ai", NEW k \in 1..messages[i].n
        PROVE  i + k \in DOMAIN messages /\ messages[i + k] = Tool(k)
    BY <2>1, <2>2, <2>3 DEF Followed
  <2> QED BY <2>2, <2>3 DEF Belongs
<1> QED BY <1>1, Invariance, PTL

\* However the steps are used up, a stream that comes to its end has said a final state in
\* the protocol or its failure, but for the two ends the property names.
THEOREM StreamsEndInTheProtocol == Spec => []EndsInTheProtocol
<1>1. IInv => EndsInTheProtocol
  BY DEF IInv, LoopInv
<1> QED BY <1>1, Invariance, PTL

\* Whatever tools write, in however many attempts, what no checkpoint holds is of a call
\* that still runs or is excused.
THEOREM WorkIsSavedOrExplained == Spec => []UnsavedWorkIsExplained
<1>1. IInv => UnsavedWorkIsExplained
  BY DEF IInv, WorkInv
<1> QED BY <1>1, Invariance, PTL
-----------------------------------------------------------------------------
(* What a turn may still do: whether the model is asked again, the steps, the *)
(* calls of the last answer, and what is left of the call at its head.  A     *)
(* change of one of them makes up for whatever those after it become.         *)

Phase == CASE pc = "done" -> 0 [] pc = "finalizing" -> 1 [] OTHER -> 2

CallsLeft == IF pc = "model" THEN MaxCalls + 1 ELSE Len(queue)

AttemptsLeft ==
    CASE pc = "tools" -> 2 * Retries + 5
      [] pc \in {"mcp", "acquire"} -> 2 * Retries + 4
      [] pc = "running" -> 2 * (Retries + 1 - attempt) + 1
      [] pc = "sleeping" -> 2 * (Retries + 1 - attempt)
      [] OTHER -> 0

Measure == <<Phase, MaxSteps - step, CallsLeft, AttemptsLeft>>

Less(m, n) == \E i \in 1..4 : m[i] < n[i] /\ \A j \in 1..(i - 1) : m[j] = n[j]

\* What is not of the turn itself: a script, or an attempt that was given up, writes;
\* other turns take and return permits.
Surroundings == Write \/ OrphanEnds \/ OtherTakes \/ OtherReturns

\* Every step of the turn itself lowers the measure, and nothing else raises it.
TurnShrinks ==
    [][IF Surroundings THEN Measure' = Measure ELSE Less(Measure', Measure)]_vars

LEMMA LessAt ==
    ASSUME NEW p, NEW q, NEW a, NEW b, NEW c, NEW d, NEW e, NEW f
    PROVE  /\ p < q => Less(<<p, a, b, c>>, <<q, d, e, f>>)
           /\ a < d => Less(<<p, a, b, c>>, <<p, d, e, f>>)
           /\ b < e => Less(<<p, a, b, c>>, <<p, a, e, f>>)
           /\ c < f => Less(<<p, a, b, c>>, <<p, a, b, f>>)
<1>1. ASSUME p < q PROVE Less(<<p, a, b, c>>, <<q, d, e, f>>)
  <2>1. <<p, a, b, c>>[1] < <<q, d, e, f>>[1]
    BY <1>1
  <2>2. 1 \in 1..4 /\ 1..(1 - 1) = {}
    OBVIOUS
  <2> QED BY <2>1, <2>2 DEF Less
<1>2. ASSUME a < d PROVE Less(<<p, a, b, c>>, <<p, d, e, f>>)
  <2>1. <<p, a, b, c>>[2] < <<p, d, e, f>>[2] /\ <<p, a, b, c>>[1] = <<p, d, e, f>>[1]
    BY <1>2
  <2>2. 2 \in 1..4 /\ 1..(2 - 1) = {1}
    OBVIOUS
  <2> QED BY <2>1, <2>2 DEF Less
<1>3. ASSUME b < e PROVE Less(<<p, a, b, c>>, <<p, a, e, f>>)
  <2>1. /\ <<p, a, b, c>>[3] < <<p, a, e, f>>[3]
        /\ \A j \in {1, 2} : <<p, a, b, c>>[j] = <<p, a, e, f>>[j]
    BY <1>3
  <2>2. 3 \in 1..4 /\ 1..(3 - 1) = {1, 2}
    OBVIOUS
  <2> QED BY <2>1, <2>2 DEF Less
<1>4. ASSUME c < f PROVE Less(<<p, a, b, c>>, <<p, a, b, f>>)
  <2>1. /\ <<p, a, b, c>>[4] < <<p, a, b, f>>[4]
        /\ \A j \in {1, 2, 3} : <<p, a, b, c>>[j] = <<p, a, b, f>>[j]
    BY <1>4
  <2>2. 4 \in 1..4 /\ 1..(4 - 1) = {1, 2, 3}
    OBVIOUS
  <2> QED BY <2>1, <2>2 DEF Less
<1> QED BY <1>1, <1>2, <1>3, <1>4

LEMMA MeasureType ==
    IInv => Measure \in (0..2) \X (0..(MaxSteps - 1)) \X (0..(MaxCalls + 1))
                               \X (0..(2 * Retries + 5))
<1> SUFFICES ASSUME IInv
             PROVE  /\ Phase \in 0..2 /\ MaxSteps - step \in 0..(MaxSteps - 1)
                    /\ CallsLeft \in 0..(MaxCalls + 1) /\ AttemptsLeft \in 0..(2 * Retries + 5)
  BY DEF Measure
<1>1. /\ pc \in Points /\ step \in 1..MaxSteps /\ attempt \in 0..(Retries + 1)
      /\ Len(queue) \in Nat /\ Len(queue) <= MaxCalls
  BY DEF IInv, LoopInv, LoopType, WorkInv, WorkType
<1>2. Phase \in 0..2 /\ MaxSteps - step \in 0..(MaxSteps - 1)
  BY <1>1, Bounds DEF Phase
<1>3. CallsLeft \in 0..(MaxCalls + 1)
  BY <1>1, Bounds DEF CallsLeft
<1>4. AttemptsLeft \in 0..(2 * Retries + 5)
  <2>1. /\ 2 * Retries + 5 \in Nat
        /\ 2 * (Retries + 1 - attempt) \in 0..(2 * Retries + 2)
    BY <1>1, Bounds
  <2>2. CASE pc \in {"tools", "mcp", "acquire"}
    <3>1. AttemptsLeft = 2 * Retries + 5 \/ AttemptsLeft = 2 * Retries + 4
      BY <2>2 DEF AttemptsLeft
    <3> QED BY <3>1, Bounds
  <2>3. CASE pc \in {"running", "sleeping"}
    <3> DEFINE left == 2 * (Retries + 1 - attempt)
    <3>1. AttemptsLeft = left + 1 \/ AttemptsLeft = left
      BY <2>3 DEF AttemptsLeft
    <3> HIDE DEF left
    <3>2. left \in 0..(2 * Retries + 2)
      BY <2>1 DEF left
    <3> QED BY <3>1, <3>2, Bounds
  <2>4. CASE pc \in {"model", "finalizing", "done"}
    <3>1. AttemptsLeft = 0
      BY <2>4 DEF AttemptsLeft
    <3> QED BY <2>1, <3>1
  <2> QED BY <1>1, <2>2, <2>3, <2>4 DEF Points
<1> QED BY <1>2, <1>3, <1>4

LEMMA EndLess ==
    ASSUME pc \notin {"done", "finalizing"}, pc' \in {"done", "finalizing"}
    PROVE  Less(Measure', Measure)
<1>1. Phase = 2 /\ (Phase' = 0 \/ Phase' = 1)
  BY DEF Phase
<1>2. Phase' < Phase
  BY <1>1
<1> QED BY <1>2, LessAt DEF Measure

LEMMA DoneLess ==
    ASSUME pc # "done", pc' = "done"
    PROVE  Less(Measure', Measure)
<1>1. (Phase = 1 \/ Phase = 2) /\ Phase' = 0
  BY DEF Phase
<1>2. Phase' < Phase
  BY <1>1
<1> QED BY <1>2, LessAt DEF Measure

\* The loop goes on: another step, or no step any more.
LEMMA NextStepLess ==
    ASSUME IInv, IInv', pc \notin {"done", "finalizing"}, NEW ms, NEW found,
           NextStep(ms, found)
    PROVE  Less(Measure', Measure)
<1>1. step \in 1..MaxSteps /\ Phase = 2
  BY DEF IInv, LoopInv, LoopType, Phase
<1>2. CASE step < MaxSteps
  <2>1. Phase' = 2 /\ step' = step + 1
    BY <1>2 DEF NextStep, Phase
  <2>2. MaxSteps - step' < MaxSteps - step
    BY <1>1, <2>1, Bounds
  <2> QED BY <1>1, <2>1, <2>2, LessAt DEF Measure
<1>3. CASE ~(step < MaxSteps)
  <2>1. pc' \in {"done", "finalizing"}
    BY <1>3 DEF NextStep, AfterLoop
  <2> QED BY <2>1, EndLess
<1> QED BY <1>2, <1>3

LEMMA AnsweredLess ==
    ASSUME IInv, IInv', pc \in ToolPoints, NEW record, Answered(record)
    PROVE  Less(Measure', Measure)
<1>1. CASE Len(queue) > 1
  <2>1. /\ Phase = 2 /\ Phase' = 2 /\ step' = step
        /\ CallsLeft = Len(queue) /\ CallsLeft' = Len(queue')
    BY <1>1 DEF Answered, ToolPoints, Phase, CallsLeft
  <2>2. queue \in Seq(Names) /\ queue # <<>> /\ queue' = Tail(queue)
    BY DEF IInv, LoopInv, LoopType, HistoryInv, Answered
  <2>3. Len(queue') < Len(queue)
    BY <2>2
  <2> QED BY <2>1, <2>3, LessAt DEF Measure
<1>2. CASE ~(Len(queue) > 1)
  <2>1. PICK ms, found : NextStep(ms, found)
    BY <1>2 DEF Answered
  <2>2. pc \notin {"done", "finalizing"}
    BY DEF ToolPoints
  <2> QED BY <2>1, <2>2, NextStepLess
<1> QED BY <1>1, <1>2

\* The same call, nearer to its end.
LEMMA CallLess ==
    ASSUME {pc, pc'} \subseteq ToolPoints, UNCHANGED loop, AttemptsLeft' < AttemptsLeft
    PROVE  Less(Measure', Measure)
<1>1. Phase = 2 /\ Phase' = 2 /\ step' = step /\ CallsLeft' = CallsLeft
  BY DEF ToolPoints, Phase, CallsLeft, loop
<1> QED BY <1>1, LessAt DEF Measure

LEMMA ModelLess ==
    ASSUME IInv, IInv', ModelAnswers \/ ModelFails
    PROVE  Less(Measure', Measure)
<1>1. CASE AnswersInText
  <2>1. pc = "model" /\ (pc' = "done" \/ pc' = "finalizing" \/ \E ms, found : NextStep(ms, found))
    BY <1>1 DEF AnswersInText, AfterLoop
  <2> QED BY <2>1, NextStepLess, EndLess
<1>2. ASSUME NEW n \in 1..MaxCalls, NEW names \in [1..n -> Names], AnswersWithCalls(names)
      PROVE  Less(Measure', Measure)
  <2>1. Len(names) \in Nat /\ Len(names) <= MaxCalls
    BY Bounds
  <2>2. /\ Phase = 2 /\ Phase' = 2 /\ step' = step
        /\ CallsLeft = MaxCalls + 1 /\ CallsLeft' = Len(names)
    BY <1>2 DEF AnswersWithCalls, Phase, CallsLeft
  <2>3. CallsLeft' < CallsLeft
    BY <2>1, <2>2, Bounds
  <2> QED BY <2>2, <2>3, LessAt DEF Measure
<1>3. CASE Answers
  <2>1. pc = "model" /\ pc' \in {"done", "finalizing"}
    BY <1>3 DEF Answers, AfterLoop
  <2> QED BY <2>1, EndLess
<1>4. ASSUME NEW text, AnswersOtherwise(text)
      PROVE  Less(Measure', Measure)
  <2>1. pc = "model" /\ (pc' = "finalizing" \/ \E ms, found : NextStep(ms, found))
    BY <1>4 DEF AnswersOtherwise
  <2> QED BY <2>1, NextStepLess, EndLess
<1>5. CASE Finalizes \/ ModelFails
  <2>1. pc # "done" /\ pc' = "done"
    BY <1>5 DEF Finalizes, ModelFails
  <2> QED BY <2>1, DoneLess
<1> QED BY <1>1, <1>2, <1>3, <1>4, <1>5 DEF ModelAnswers

LEMMA ScriptLess ==
    ASSUME IInv, IInv',
           \/ CallMcp \/ CallScript \/ Acquire \/ TimesOut \/ Wakes
           \/ \E environment \in BOOLEAN : Raises(environment)
    PROVE  Less(Measure', Measure)
<1>1. Retries \in Nat /\ attempt \in 0..(Retries + 1)
  BY Bounds DEF IInv, WorkInv, WorkType
<1>2. CASE CallMcp \/ CallScript
  <2>1. pc = "tools" /\ pc' \in {"mcp", "acquire"} /\ UNCHANGED loop
    BY <1>2 DEF CallMcp, CallScript, Tools
  <2>2. AttemptsLeft = 2 * Retries + 5 /\ AttemptsLeft' = 2 * Retries + 4
    BY <2>1 DEF AttemptsLeft
  <2> QED BY <2>1, <2>2, <1>1, CallLess DEF ToolPoints
<1>3. CASE Acquire
  <2>1. pc = "acquire" /\ pc' = "running" /\ attempt' = 1 /\ UNCHANGED loop
    BY <1>3 DEF Acquire
  <2>2. AttemptsLeft = 2 * Retries + 4 /\ AttemptsLeft' = 2 * (Retries + 1 - 1) + 1
    BY <2>1 DEF AttemptsLeft
  <2> QED BY <2>1, <2>2, <1>1, CallLess DEF ToolPoints
<1>4. CASE Wakes
  <2>1. pc = "sleeping" /\ pc' = "running" /\ attempt' = attempt + 1 /\ UNCHANGED loop
    BY <1>4 DEF Wakes
  <2>2. /\ AttemptsLeft = 2 * (Retries + 1 - attempt)
        /\ AttemptsLeft' = 2 * (Retries + 1 - (attempt + 1)) + 1
    BY <2>1 DEF AttemptsLeft
  <2> QED BY <2>1, <2>2, <1>1, CallLess DEF ToolPoints
<1>5. CASE TimesOut \/ (\E environment \in BOOLEAN : Raises(environment))
  <2>1. pc = "running"
    BY <1>5 DEF TimesOut, Raises
  <2>2. CASE GiveUp
    <3>1. pc \in ToolPoints /\ Answered(TRUE)
      BY <2>1, <2>2 DEF GiveUp, ToolPoints
    <3> QED BY <3>1, AnsweredLess
  <2>3. CASE pc' = "running" /\ attempt' = attempt + 1 /\ UNCHANGED loop
    <3>1. /\ AttemptsLeft = 2 * (Retries + 1 - attempt) + 1
          /\ AttemptsLeft' = 2 * (Retries + 1 - (attempt + 1)) + 1
      BY <2>1, <2>3 DEF AttemptsLeft
    <3> QED BY <2>1, <2>3, <3>1, <1>1, CallLess DEF ToolPoints
  <2>4. CASE pc' = "sleeping" /\ attempt' = attempt /\ UNCHANGED loop
    <3>1. /\ AttemptsLeft = 2 * (Retries + 1 - attempt) + 1
          /\ AttemptsLeft' = 2 * (Retries + 1 - attempt)
      BY <2>1, <2>4 DEF AttemptsLeft
    <3> QED BY <2>1, <2>4, <3>1, <1>1, CallLess DEF ToolPoints
  <2> QED BY <1>5, <2>1, <2>2, <2>3, <2>4 DEF TimesOut, Raises, gateway
<1> QED BY <1>2, <1>3, <1>4, <1>5

LEMMA StepLess ==
    ASSUME IInv, IInv', Next, ~Surroundings
    PROVE  Less(Measure', Measure)
<1>1. CASE ModelAnswers \/ ModelFails
  BY <1>1, ModelLess
<1>2. CASE \/ CallMcp \/ CallScript \/ Acquire \/ TimesOut \/ Wakes
           \/ \E environment \in BOOLEAN : Raises(environment)
  BY <1>2, ScriptLess
<1>3. CASE \/ \E record \in BOOLEAN : CallUnknown(record)
           \/ CallReads \/ McpFails \/ CallCached \/ CallRefused
  <2>1. pc \in ToolPoints /\ \E record : Answered(record)
    BY <1>3 DEF CallUnknown, CallReads, McpFails, CallCached, CallRefused, Tools, ToolPoints
  <2> QED BY <2>1, AnsweredLess
<1>4. CASE \/ \E captured \in BOOLEAN :
                \/ CallWrites(captured)
                \/ \E writes \in 0..1 : CallChanges(writes, captured)
                \/ \E file \in BOOLEAN : CallApi(file, captured)
                \/ \E files \in 0..MaxWrites : McpAnswers(files, captured)
           \/ \E files \in 1..MaxWrites : McpAnswerBreaksOff(files)
           \/ \E accepted, artifacts, captured \in BOOLEAN : Exits(accepted, artifacts, captured)
  <2>1. pc \in ToolPoints /\ \E record : Answered(record)
    BY <1>4 DEF CallWrites, CallChanges, CallApi, McpAnswers, McpAnswerBreaksOff, Exits,
                Tools, ToolPoints
  <2> QED BY <2>1, AnsweredLess
<1>5. CASE Cancel \/ ArgumentsFail
  <2>1. pc # "done" /\ pc' = "done"
    BY <1>5 DEF Cancel, ArgumentsFail
  <2> QED BY <2>1, DoneLess
<1> QED BY <1>1, <1>2, <1>3, <1>4, <1>5 DEF Next, Timely, Surroundings

\* The safety half of TurnEnds: whatever the model answers, each step of the turn brings it
\* nearer to its end, in an order that has no infinite descent, and what goes on around it
\* takes nothing back.
THEOREM TurnsUseUpTheirBudget ==
    Spec => /\ TurnShrinks
            /\ [](Measure \in (0..2) \X (0..(MaxSteps - 1)) \X (0..(MaxCalls + 1))
                                     \X (0..(2 * Retries + 5)))
<1>1. IInv /\ [Next]_vars =>
        [IF Surroundings THEN Measure' = Measure ELSE Less(Measure', Measure)]_vars
  <2> SUFFICES ASSUME IInv, Next
               PROVE  IF Surroundings THEN Measure' = Measure ELSE Less(Measure', Measure)
    OBVIOUS
  <2>1. CASE Surroundings
    <3>1. UNCHANGED <<pc, loop, attempt>>
      BY <2>1 DEF Surroundings, Write, OrphanEnds, OtherTakes, OtherReturns, gateway
    <3>2. Measure' = Measure
      BY <3>1 DEF Measure, Phase, CallsLeft, AttemptsLeft, loop
    <3> QED BY <2>1, <3>2
  <2>2. CASE ~Surroundings
    BY <2>2, NextInv, StepLess
  <2> QED BY <2>1, <2>2
<1> QED BY <1>1, MeasureType, Invariance, PTL DEF Spec, TurnShrinks
=============================================================================
