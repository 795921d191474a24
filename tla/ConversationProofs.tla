-------------------------- MODULE ConversationProofs -------------------------
(***************************************************************************)
(* Theorems about Conversation, for any turns, texts, answers of the model *)
(* and window.                                                             *)
(***************************************************************************)
EXTENDS Conversation, FiniteSetTheorems, FunctionTheorems, TLAPS

User(t) == [role |-> "user", turn |-> t]
Reply(t) == [role |-> "assistant", turn |-> t]

\* The messages h are those of the turns w, and the turns after one more.
Pairs(h, w) ==
  /\ h \in Seq(Messages) /\ w \in Seq(Turns) /\ Len(h) = 2 * Len(w)
  /\ \A i \in 1..Len(w) : h[2 * i - 1] = User(w[i]) /\ h[2 * i] = Reply(w[i])
Slid(w, t) == IF Len(w) = MaxTurns THEN Tail(Append(w, t)) ELSE Append(w, t)
HistoryInv == \E w \in Seq(Turns) : Len(w) <= MaxTurns /\ Pairs(history, w)

\* What a turn mentions is in the metadata once its result is there; a name or a technology
\* becomes an anchor only with the metadata that has it.
Mentioned(t) == answer[t].techs \cup TechsIn[request[t].text]
FactsInv ==
  /\ \A t \in recorded : stage[t] = "answered"
  /\ \A t \in Turns :
       t \in recorded \/ stage[t] = "summarising" => Mentioned(t) \subseteq metadata.techs
  /\ \A a \in anchors :
       /\ a.fact = "name" => a.value = metadata.name
       /\ a.fact = "tech" => a.value \in metadata.techs

\* An entry is what the model answered for the text and the options of its own key.
CacheInv ==
  /\ \A k \in Keys : memory[k] # NoResult => memory[k].text = k[1] /\ memory[k].option = k[2]
  /\ \A e \in semantic : e.result.text = e.text /\ e.result.option = e.bucket

\* The result fits the request it answers.
Fits(r, result) ==
  /\ result.option = r.option
  /\ r.text = result.text \/ (UsesRedis /\ r.text \in Near[result.text])
AnswerInv ==
  \A t \in Turns :
    /\ stage[t] \in {"idle", "asked"} => answer[t] = NoResult
    /\ stage[t] # "idle" => request[t] \in Requests
    /\ answer[t] # NoResult => Fits(request[t], answer[t])

\* While nothing spoils it, the summary a turn waits for covers what its window will lose.
SummaryInv ==
  /\ ~spoiled => recorded \subseteq TurnsIn(history) \cup summary
  /\ \A t \in Turns :
       stage[t] = "summarising" => Full /\ (~spoiled => recorded \subseteq gist[t])

IInv == TypeOK /\ HistoryInv /\ FactsInv /\ CacheInv /\ AnswerInv /\ SummaryInv

-----------------------------------------------------------------------------
(***************************************************************************)
(* The window of messages.                                                 *)
(***************************************************************************)
LEMMA TwoOf ==
  ASSUME NEW S, NEW s \in Seq(S), Len(s) = 2
  PROVE  s = <<s[1], s[2]>>
OBVIOUS

LEMMA Halves ==
  ASSUME NEW n \in Nat
  PROVE  \E i \in Nat : n = 2 * i \/ n = 2 * i + 1
<1>1. n \div 2 \in Nat /\ (n = 2 * (n \div 2) \/ n = 2 * (n \div 2) + 1)
  OBVIOUS
<1> QED
  BY <1>1

\* With a question appended, the user messages are at the odd places.
LEMMA Questions ==
  ASSUME NEW h, NEW w, Pairs(h, w), NEW t \in Turns
  PROVE  LET g == Append(h, User(t))
         IN  /\ g \in Seq(Messages) /\ Len(g) = 2 * Len(w) + 1
             /\ UserMessages(g) = {2 * i - 1 : i \in 1..(Len(w) + 1)}
             /\ Cardinality(UserMessages(g)) = Len(w) + 1
             /\ OldestUser(g) = 1
<1> DEFINE g == Append(h, User(t))
<1> DEFINE n == Len(w) + 1
<1> DEFINE odd == {2 * i - 1 : i \in 1..n}
<1>1. /\ h \in Seq(Messages) /\ User(t) \in Messages
      /\ n \in Nat \ {0} /\ Len(w) \in Nat /\ Len(h) = 2 * Len(w)
  BY DEF Pairs, User, Messages
<1>2. /\ g \in Seq(Messages) /\ Len(g) = 2 * Len(w) + 1 /\ DOMAIN g = 1..(2 * Len(w) + 1)
      /\ g[2 * Len(w) + 1] = User(t)
      /\ \A i \in 1..(2 * Len(w)) : g[i] = h[i]
  BY <1>1
<1>3. \A i \in 1..Len(w) : g[2 * i - 1] = User(w[i]) /\ g[2 * i] = Reply(w[i])
  BY <1>1, <1>2 DEF Pairs
<1> HIDE DEF g, n
<1>4. UserMessages(g) = odd
  <2>1. ASSUME NEW j \in UserMessages(g)
        PROVE  j \in odd
    <3>1. j \in 1..(2 * Len(w) + 1) /\ g[j].role = "user"
      BY <1>2 DEF UserMessages
    <3>5. j \in Nat
      BY <1>1, <3>1
    <3>2. PICK i \in Nat : j = 2 * i \/ j = 2 * i + 1
      BY <3>5, Halves
    <3>3. j # 2 * i
      <4> SUFFICES ASSUME j = 2 * i
                   PROVE  FALSE
        OBVIOUS
      <4>1. i \in 1..Len(w)
        BY <1>1, <3>1
      <4>2. g[2 * i] = Reply(w[i])
        BY <1>3, <4>1
      <4>3. Reply(w[i]).role = "assistant"
        BY DEF Reply
      <4> QED
        BY <3>1, <4>2, <4>3
    <3>4. i + 1 \in 1..n /\ j = 2 * (i + 1) - 1
      BY <1>1, <3>1, <3>2, <3>3 DEF n
    <3> QED
      BY <3>4
  <2>2. ASSUME NEW i \in 1..n
        PROVE  2 * i - 1 \in UserMessages(g)
    <3>1. 2 * i - 1 \in DOMAIN g
      BY <1>1, <1>2 DEF n
    <3>2. g[2 * i - 1].role = "user"
      <4>1. CASE i = n
        BY <1>1, <1>2, <4>1 DEF User, n
      <4>2. CASE i # n
        <5>1. i \in 1..Len(w)
          BY <1>1, <4>2 DEF n
        <5>2. g[2 * i - 1] = User(w[i])
          BY <1>3, <5>1
        <5> QED
          BY <5>2 DEF User
      <4> QED
        BY <4>1, <4>2
    <3> QED
      BY <3>1, <3>2 DEF UserMessages
  <2> QED
    BY <2>1, <2>2
<1>5. Cardinality(odd) = n
  <2> DEFINE f == [i \in 1..n |-> 2 * i - 1]
  <2>1. f \in Bijection(1..n, odd)
    <3>1. f \in [1..n -> odd]
      OBVIOUS
    <3>2. \A i, j \in 1..n : f[i] = f[j] => i = j
      BY <1>1
    <3>3. \A x \in odd : \E i \in 1..n : f[i] = x
      OBVIOUS
    <3> HIDE DEF f, odd
    <3> QED
      BY <3>1, <3>2, <3>3 DEF Bijection, Injection, IsInjective, Surjection
  <2>2. ExistsBijection(1..n, odd)
    BY <2>1 DEF ExistsBijection
  <2> QED
    BY <1>1, <2>2, FS_CountingElements
<1>6. OldestUser(g) = 1
  <2>1. 1 \in odd /\ \A j \in odd : j \in Nat /\ 1 <= j
    BY <1>1
  <2> HIDE DEF odd
  <2> QED
    BY <1>4, <2>1 DEF OldestUser
<1> QED
  BY <1>2, <1>4, <1>5, <1>6 DEF g, n

LEMMA DropFirst ==
  ASSUME NEW S, NEW s \in Seq(S), Len(s) >= 1
  PROVE  /\ DropAt(s, 1) \in Seq(S) /\ Len(DropAt(s, 1)) = Len(s) - 1
         /\ \A j \in 1..(Len(s) - 1) : DropAt(s, 1)[j] = s[j + 1]
<1>1. SubSeq(s, 1, 1 - 1) = <<>>
  OBVIOUS
<1>2. DropAt(s, 1) = <<>> \o SubSeq(s, 2, Len(s))
  BY <1>1 DEF DropAt
<1>3. DropAt(s, 1) = SubSeq(s, 2, Len(s))
  BY <1>2
<1>4. Len(s) \in Nat /\ SubSeq(s, 2, Len(s)) = [j \in 1..(Len(s) - 1) |-> s[j + 1]]
  OBVIOUS
<1> DEFINE q == SubSeq(s, 2, Len(s))
<1>5. q \in Seq(S)
  OBVIOUS
<1>6. Len(q) = Len(s) - 1 /\ \A j \in 1..(Len(s) - 1) : q[j] = s[j + 1]
  <2>1. Len(q) = Len(s) - 1
    BY <1>4
  <2>2. \A j \in 1..(Len(s) - 1) : q[j] = s[j + 1]
    BY <1>4
  <2> QED
    BY <2>1, <2>2
<1> QED
  BY <1>3, <1>5, <1>6

LEMMA SlidType ==
  ASSUME NEW w \in Seq(Turns), Len(w) <= MaxTurns, NEW t \in Turns
  PROVE  /\ Slid(w, t) \in Seq(Turns)
         /\ Len(Slid(w, t)) = IF Len(w) = MaxTurns THEN MaxTurns ELSE Len(w) + 1
         /\ Len(Slid(w, t)) <= MaxTurns
         /\ Slid(w, t)[Len(Slid(w, t))] = t
         /\ \A i \in 1..(Len(Slid(w, t)) - 1) :
              Slid(w, t)[i] = IF Len(w) = MaxTurns THEN w[i + 1] ELSE w[i]
<1>1. MaxTurns \in Nat \ {0}
  BY ConversationAssumption
<1>2. CASE Len(w) = MaxTurns
  BY <1>1, <1>2 DEF Slid
<1>3. CASE Len(w) # MaxTurns
  BY <1>1, <1>3 DEF Slid
<1> QED
  BY <1>2, <1>3

\* A turn is added at the end, and the oldest goes from a full window.
LEMMA WithTurnPairs ==
  ASSUME NEW h, NEW w, Pairs(h, w), Len(w) <= MaxTurns, NEW t \in Turns
  PROVE  Pairs(WithTurn(h, t), Slid(w, t))
<1> DEFINE g == Append(h, User(t))
<1> DEFINE n == Len(w)
<1>1. /\ g \in Seq(Messages) /\ Len(g) = 2 * n + 1
      /\ Cardinality(UserMessages(g)) = n + 1 /\ OldestUser(g) = 1
  BY Questions
<1>2. /\ h \in Seq(Messages) /\ w \in Seq(Turns) /\ n \in Nat /\ Len(h) = 2 * n
      /\ MaxTurns \in Nat \ {0} /\ Reply(t) \in Messages
  BY ConversationAssumption DEF Pairs, Reply, Messages
<1>3. /\ \A i \in 1..n : g[2 * i - 1] = User(w[i]) /\ g[2 * i] = Reply(w[i])
      /\ g[2 * n + 1] = User(t)
  <2>1. \A i \in 1..(2 * n) : g[i] = h[i]
    BY <1>2
  <2>2. \A i \in 1..n : 2 * i - 1 \in 1..(2 * n) /\ 2 * i \in 1..(2 * n)
    BY <1>2
  <2>3. g[2 * n + 1] = User(t)
    BY <1>2
  <2> QED
    BY <2>1, <2>2, <2>3 DEF Pairs
<1>4. WithTurn(h, t) = Append(EvictIfNeeded(g), Reply(t))
  BY DEF WithTurn, User, Reply
<1> DEFINE s == Slid(w, t)
<1>5. /\ s \in Seq(Turns) /\ Len(s) = IF n = MaxTurns THEN MaxTurns ELSE n + 1
      /\ s[Len(s)] = t
      /\ \A i \in 1..(Len(s) - 1) : s[i] = IF n = MaxTurns THEN w[i + 1] ELSE w[i]
  BY <1>2, SlidType
<1> HIDE DEF g, n, s
<1>6. CASE n # MaxTurns
  <2>1. n < MaxTurns /\ EvictIfNeeded(g) = g
    BY <1>1, <1>2, <1>6 DEF EvictIfNeeded, n
  <2> DEFINE m == Append(g, Reply(t))
  <2>2. /\ m \in Seq(Messages) /\ Len(m) = 2 * n + 2 /\ m[2 * n + 2] = Reply(t)
        /\ \A i \in 1..(2 * n + 1) : m[i] = g[i]
    <3>1. /\ m \in Seq(Messages) /\ Len(m) = Len(g) + 1 /\ m[Len(g) + 1] = Reply(t)
          /\ \A i \in 1..Len(g) : m[i] = g[i]
      BY <1>1, <1>2
    <3>2. Len(g) = 2 * n + 1 /\ Len(g) + 1 = 2 * n + 2
      BY <1>1, <1>2
    <3> HIDE DEF m
    <3> QED
      BY <3>1, <3>2
  <2> HIDE DEF m
  <2>3. ASSUME NEW i \in 1..(n + 1)
        PROVE  m[2 * i - 1] = User(s[i]) /\ m[2 * i] = Reply(s[i])
    <3>1. CASE i = n + 1
      <4>3. 2 * i - 1 = 2 * n + 1 /\ 2 * i = 2 * n + 2
        BY <1>2, <3>1
      <4>4. Len(s) = n + 1
        BY <1>5, <1>6
      <4>1. 2 * i - 1 = 2 * n + 1 /\ 2 * i = 2 * n + 2 /\ s[i] = t
        BY <1>5, <3>1, <4>3, <4>4
      <4>2. m[2 * n + 1] = User(t)
        BY <1>2, <1>3, <2>2
      <4> QED
        BY <2>2, <4>1, <4>2
    <3>2. CASE i # n + 1
      <4>1. /\ i \in 1..n /\ 2 * i - 1 \in 1..(2 * n + 1) /\ 2 * i \in 1..(2 * n + 1)
            /\ i \in 1..(Len(s) - 1)
        BY <1>2, <1>5, <1>6, <3>2
      <4>3. s[i] = w[i]
        BY <1>5, <1>6, <4>1
      <4>2. m[2 * i - 1] = g[2 * i - 1] /\ m[2 * i] = g[2 * i]
        BY <2>2, <4>1
      <4> QED
        BY <1>3, <4>1, <4>2, <4>3
    <3> QED
      BY <3>1, <3>2
  <2>4. WithTurn(h, t) = m
    BY <1>4, <2>1 DEF m
  <2>5. Len(s) = n + 1
    BY <1>5, <1>6
  <2>6. Len(m) = 2 * Len(s)
    BY <1>2, <2>2, <2>5
  <2>7. Pairs(m, s)
    BY <1>5, <2>2, <2>3, <2>5, <2>6 DEF Pairs
  <2> QED
    BY <2>4, <2>7 DEF s
<1>7. CASE n = MaxTurns
  <2> DEFINE rest == DropAt(g, 1)
  <2> DEFINE kept == DropAt(rest, 1)
  <2>1. /\ rest \in Seq(Messages) /\ Len(rest) = 2 * n
        /\ \A j \in 1..(2 * n) : rest[j] = g[j + 1]
    <3>1. Len(g) >= 1 /\ Len(g) - 1 = 2 * n
      BY <1>1, <1>2
    <3> QED
      BY <1>1, <3>1, DropFirst
  <2> HIDE DEF rest
  <2>2. /\ kept \in Seq(Messages) /\ Len(kept) = 2 * n - 1
        /\ \A j \in 1..(2 * n - 1) : kept[j] = rest[j + 1]
    <3>1. Len(rest) >= 1
      BY <1>2, <1>7, <2>1
    <3> QED
      BY <2>1, <3>1, DropFirst
  <2>3. EvictIfNeeded(g) = kept
    <3>1. Cardinality(UserMessages(g)) > MaxTurns
      BY <1>1, <1>2, <1>7
    <3>2. 1 <= Len(rest) /\ rest[1].role = "assistant"
      <4>1. 1 \in 1..n /\ 1 \in 1..(2 * n)
        BY <1>2, <1>7
      <4>2. g[2 * 1] = Reply(w[1])
        BY <1>3, <4>1
      <4>3. rest[1] = Reply(w[1])
        BY <2>1, <4>1, <4>2
      <4> QED
        BY <2>1, <4>1, <4>3 DEF Reply
    <3>3. DropOldest(g) = kept
      BY <1>1, <3>2 DEF DropOldest, rest, kept
    <3> QED
      BY <3>1, <3>3 DEF EvictIfNeeded
  <2> DEFINE m == Append(kept, Reply(t))
  <2>4. \A j \in 1..(2 * n - 1) : kept[j] = g[j + 2]
    <3> SUFFICES ASSUME NEW j \in 1..(2 * n - 1)
                 PROVE  kept[j] = g[j + 2]
      OBVIOUS
    <3>1. j + 1 \in 1..(2 * n) /\ (j + 1) + 1 = j + 2
      BY <1>2
    <3> QED
      BY <2>1, <2>2, <3>1
  <2> HIDE DEF kept
  <2>5. /\ m \in Seq(Messages) /\ Len(m) = 2 * n /\ m[2 * n] = Reply(t)
        /\ \A j \in 1..(2 * n - 1) : m[j] = g[j + 2]
    BY <1>2, <1>7, <2>2, <2>4
  <2> HIDE DEF m
  <2>6. ASSUME NEW i \in 1..n
        PROVE  m[2 * i - 1] = User(s[i]) /\ m[2 * i] = Reply(s[i])
    <3>1. CASE i = n
      <4>1. 2 * i - 1 = 2 * n - 1 /\ 2 * i = 2 * n /\ s[i] = t
        BY <1>2, <1>5, <1>7, <3>1
      <4>2. 2 * n - 1 \in 1..(2 * n - 1) /\ (2 * n - 1) + 2 = 2 * n + 1
        BY <1>2, <1>7
      <4>3. m[2 * n - 1] = User(t)
        BY <1>3, <2>5, <4>2
      <4> QED
        BY <2>5, <4>1, <4>3
    <3>2. CASE i # n
      <4>1. /\ i + 1 \in 1..n /\ i \in 1..(Len(s) - 1)
            /\ 2 * i - 1 \in 1..(2 * n - 1) /\ 2 * i \in 1..(2 * n - 1)
            /\ (2 * i - 1) + 2 = 2 * (i + 1) - 1 /\ 2 * i + 2 = 2 * (i + 1)
        BY <1>2, <1>5, <1>7, <3>2
      <4>2. m[2 * i - 1] = g[2 * (i + 1) - 1] /\ m[2 * i] = g[2 * (i + 1)]
        BY <2>5, <4>1
      <4>3. s[i] = w[i + 1]
        BY <1>5, <1>7, <4>1
      <4> QED
        BY <1>3, <4>1, <4>2, <4>3
    <3> QED
      BY <3>1, <3>2
  <2>7. WithTurn(h, t) = m
    BY <1>4, <2>3 DEF m
  <2>8. Len(s) = n
    BY <1>5, <1>7
  <2>9. Pairs(m, s)
    BY <1>5, <2>5, <2>6, <2>8 DEF Pairs
  <2> QED
    BY <2>7, <2>9 DEF s
<1> QED
  BY <1>6, <1>7

LEMMA TurnsOfPairs ==
  ASSUME NEW h, NEW w, Pairs(h, w)
  PROVE  TurnsIn(h) = {w[i] : i \in 1..Len(w)} /\ TurnsIn(h) \subseteq Turns
<1>1. h \in Seq(Messages) /\ w \in Seq(Turns) /\ Len(w) \in Nat /\ DOMAIN h = 1..(2 * Len(w))
  BY DEF Pairs
<1>2. ASSUME NEW j \in 1..(2 * Len(w))
      PROVE  \E i \in 1..Len(w) : h[j].turn = w[i]
  <2>1. j - 1 \in Nat
    BY <1>1
  <2>2. PICK i \in Nat : j - 1 = 2 * i \/ j - 1 = 2 * i + 1
    BY <2>1, Halves
  <2>3. i + 1 \in 1..Len(w) /\ (j = 2 * (i + 1) - 1 \/ j = 2 * (i + 1))
    BY <1>1, <2>2
  <2>4. h[2 * (i + 1) - 1] = User(w[i + 1]) /\ h[2 * (i + 1)] = Reply(w[i + 1])
    BY <2>3 DEF Pairs
  <2>5. User(w[i + 1]).turn = w[i + 1] /\ Reply(w[i + 1]).turn = w[i + 1]
    BY DEF User, Reply
  <2>6. h[j].turn = w[i + 1]
    BY <2>3, <2>4, <2>5
  <2> QED
    BY <2>3, <2>6
<1>3. ASSUME NEW i \in 1..Len(w)
      PROVE  w[i] \in TurnsIn(h)
  <2>1. 2 * i \in DOMAIN h
    BY <1>1
  <2>2. h[2 * i] = Reply(w[i]) /\ Reply(w[i]).turn = w[i]
    BY DEF Pairs, Reply
  <2> QED
    BY <2>1, <2>2 DEF TurnsIn
<1>4. \A i \in 1..Len(w) : w[i] \in Turns
  BY <1>1
<1>5. TurnsIn(h) \subseteq {w[i] : i \in 1..Len(w)}
  BY <1>1, <1>2 DEF TurnsIn
<1> QED
  BY <1>3, <1>4, <1>5

\* The history in twos is its turns, each a question and its reply.
LEMMA PairsInTwos ==
  ASSUME NEW h, NEW w, Pairs(h, w)
  PROVE  InTwos(h) = [i \in 1..Len(w) |-> Turn(w[i])]
<1>1. h \in Seq(Messages) /\ Len(w) \in Nat /\ Len(h) = 2 * Len(w)
  BY DEF Pairs
<1>2. (Len(h) + 1) \div 2 = Len(w)
  BY <1>1
<1>3. ASSUME NEW i \in 1..Len(w)
      PROVE  SubSeq(h, 2 * i - 1, IF 2 * i <= Len(h) THEN 2 * i ELSE Len(h)) = Turn(w[i])
  <2>1. 2 * i <= Len(h) /\ 2 * i - 1 \in 1..Len(h) /\ 2 * i \in 1..Len(h)
    BY <1>1
  <2>2. SubSeq(h, 2 * i - 1, 2 * i) = <<h[2 * i - 1], h[2 * i]>>
    <3> DEFINE a == 2 * i - 1
    <3>1. a \in 1..Len(h) /\ a + 1 \in 1..Len(h) /\ 2 * i = a + 1
      BY <2>1
    <3> HIDE DEF a
    <3>2. /\ SubSeq(h, a, a + 1) \in Seq(Messages) /\ Len(SubSeq(h, a, a + 1)) = 2
          /\ SubSeq(h, a, a + 1)[1] = h[a] /\ SubSeq(h, a, a + 1)[2] = h[a + 1]
      BY <1>1, <3>1
    <3>3. SubSeq(h, a, a + 1) = <<h[a], h[a + 1]>>
      BY <3>2, TwoOf
    <3> QED
      BY <3>1, <3>3 DEF a
  <2>3. h[2 * i - 1] = User(w[i]) /\ h[2 * i] = Reply(w[i])
    BY DEF Pairs
  <2> QED
    BY <2>1, <2>2, <2>3 DEF User, Reply, Turn
<1> QED
  BY <1>2, <1>3 DEF InTwos

\* What appending a turn does to the window.
LEMMA CommitWindow ==
  ASSUME HistoryInv, NEW t \in Turns, history' = WithTurn(history, t)
  PROVE  /\ HistoryInv' /\ history' \in Seq(Messages)
         /\ t \in TurnsIn(history')
         /\ Full => Full'
         /\ ~Full => TurnsIn(history) \subseteq TurnsIn(history')
<1>1. PICK w \in Seq(Turns) : Len(w) <= MaxTurns /\ Pairs(history, w)
  BY DEF HistoryInv
<1> DEFINE s == Slid(w, t)
<1>2. Pairs(history', s)
  BY <1>1, WithTurnPairs
<1>3. /\ s \in Seq(Turns) /\ Len(s) <= MaxTurns
      /\ Len(s) = IF Len(w) = MaxTurns THEN MaxTurns ELSE Len(w) + 1
      /\ s[Len(s)] = t
      /\ \A i \in 1..(Len(s) - 1) : s[i] = IF Len(w) = MaxTurns THEN w[i + 1] ELSE w[i]
  BY <1>1, SlidType
<1> HIDE DEF s
<1>4. /\ Len(w) \in Nat /\ MaxTurns \in Nat \ {0} /\ Len(s) \in 1..Len(s)
      /\ Len(history) = 2 * Len(w) /\ Len(history') = 2 * Len(s)
      /\ (Full <=> Len(w) = MaxTurns)
  BY <1>1, <1>2, <1>3, ConversationAssumption DEF Pairs, Full
<1>5. TurnsIn(history) = {w[i] : i \in 1..Len(w)} /\ TurnsIn(history') = {s[i] : i \in 1..Len(s)}
  BY <1>1, <1>2, TurnsOfPairs
<1>6. t \in TurnsIn(history')
  BY <1>3, <1>4, <1>5
<1>7. Full => Full'
  BY <1>3, <1>4 DEF Full
<1>8. ASSUME ~Full
      PROVE  TurnsIn(history) \subseteq TurnsIn(history')
  <2>1. \A i \in 1..Len(w) : i \in 1..Len(s) /\ s[i] = w[i]
    BY <1>3, <1>4, <1>8
  <2> QED
    BY <1>5, <2>1
<1>9. HistoryInv' /\ history' \in Seq(Messages)
  BY <1>2, <1>3 DEF HistoryInv, Pairs
<1> QED
  BY <1>6, <1>7, <1>8, <1>9

LEMMA TurnsOfHistory ==
  ASSUME HistoryInv
  PROVE  TurnsIn(history) \subseteq Turns
BY TurnsOfPairs DEF HistoryInv

\* What a result does to the facts.
LEMMA FactsAfter ==
  ASSUME TypeOK, FactsInv, NEW t, NEW text \in Texts, NEW result \in Results,
         RecordFacts(t, text, result)
  PROVE  /\ metadata' \in Metadata /\ anchors' \subseteq Anchors /\ tier' \in Tiers
         /\ metadata.techs \cup result.techs \cup TechsIn[text] \subseteq metadata'.techs
         /\ metadata.name # None => metadata'.name = metadata.name
         /\ \A a \in anchors' :
              /\ a.fact = "name" => a.value = metadata'.name
              /\ a.fact = "tech" => a.value \in metadata'.techs
<1> DEFINE new == UpdateFromResult(t, text, result)
<1>1. /\ NameIn[text] \in Names \cup {None} /\ TechsIn[text] \subseteq Techs /\ None \notin Names
      /\ result.team \in Nat /\ result.techs \subseteq Techs /\ result.cost \in Nat
      /\ metadata.name \in Names \cup {None} /\ metadata.team \in Nat /\ metadata.techs \subseteq Techs
  BY ConversationAssumption DEF TypeOK, Metadata, Results
<1>2. /\ new.name = IF metadata.name # None THEN metadata.name ELSE NameIn[text]
      /\ new.team = IF result.team # 0 THEN result.team ELSE metadata.team
      /\ new.techs = metadata.techs \cup result.techs \cup TechsIn[text]
      /\ new = [name |-> new.name, team |-> new.team, techs |-> new.techs]
  BY DEF UpdateFromResult
<1>3. metadata' = new /\ anchors' = anchors \cup StableFacts(metadata, new)
  BY DEF RecordFacts
<1> HIDE DEF new
<1>4. /\ new.name \in Names \cup {None} /\ new.team \in Nat /\ new.techs \subseteq Techs
      /\ metadata.techs \subseteq new.techs
  BY <1>1, <1>2
<1>5. metadata' \in Metadata
  BY <1>2, <1>3, <1>4 DEF Metadata
<1>6. tier' \in Tiers
  <2>1. ASSUME NEW cost \in Nat, result.cost = cost
        PROVE  ResolveTier(metadata, result) \in Tiers
    BY <2>1 DEF ResolveTier, Tiers
  <2> QED
    BY <1>1, <2>1 DEF RecordFacts
<1>7. ASSUME NEW a \in StableFacts(metadata, new)
      PROVE  /\ a \in Anchors
             /\ a.fact = "name" => a.value = new.name
             /\ a.fact = "tech" => a.value \in new.techs
  <2>1. CASE \E v \in {metadata.name} \cap ({new.name} \ {None}) : a = [fact |-> "name", value |-> v]
    BY <1>4, <2>1 DEF Anchors
  <2>2. CASE \E v \in {metadata.team} \cap ({new.team} \ {0}) : a = [fact |-> "team", value |-> v]
    BY <1>4, <2>2 DEF Anchors
  <2>3. CASE \E v \in metadata.techs \cap new.techs : a = [fact |-> "tech", value |-> v]
    BY <1>4, <2>3 DEF Anchors
  <2> QED
    BY <2>1, <2>2, <2>3 DEF StableFacts
<1>8. ASSUME NEW a \in anchors
      PROVE  /\ a.fact = "name" => a.value = new.name
             /\ a.fact = "tech" => a.value \in new.techs
  <2>1. a \in Anchors /\ (a.fact = "name" => a.value \in Names)
    BY DEF TypeOK, Anchors
  <2> QED
    BY <1>1, <1>2, <1>4, <2>1 DEF FactsInv
<1> QED
  BY <1>2, <1>3, <1>4, <1>5, <1>6, <1>7, <1>8 DEF TypeOK

-----------------------------------------------------------------------------
(***************************************************************************)
(* The initial state and the steps.                                        *)
(***************************************************************************)
LEMMA InitInv == Init => IInv
<1> SUFFICES ASSUME Init
             PROVE  IInv
  OBVIOUS
<1>1. /\ open = FALSE /\ history = <<>> /\ metadata = Unknown /\ anchors = {}
      /\ tier = "unknown" /\ summary = {}
  BY DEF Init, Closed
<1>2. Unknown \in Metadata /\ <<>> \in Seq(Messages) /\ <<>> \in Seq(Turns)
  BY DEF Unknown, Metadata
<1>3. TypeOK
  BY <1>1, <1>2 DEF Init, TypeOK, Tiers
<1>4. HistoryInv
  <2>1. Pairs(<<>>, <<>>) /\ Len(<<>>) = 0 /\ 0 <= MaxTurns
    BY ConversationAssumption DEF Pairs
  <2> QED
    BY <1>1, <1>2, <2>1 DEF HistoryInv
<1>5. FactsInv /\ CacheInv
  BY <1>1 DEF Init, FactsInv, CacheInv
<1>6. AnswerInv
  BY DEF Init, AnswerInv
<1>7. SummaryInv
  BY <1>1 DEF Init, SummaryInv
<1> QED
  BY <1>3, <1>4, <1>5, <1>6, <1>7 DEF IInv

\* Steps that leave the session alone: a request is refused, fails, or goes to the model.
LEMMA EndInv ==
  ASSUME IInv, NEW t \in Turns, NEW q \in Requests, NEW to \in {"refused", "failed", "asked"},
         stage[t] \in {"idle", "asked"},
         stage' = [stage EXCEPT ![t] = to], request' = [request EXCEPT ![t] = q],
         brief' \in [Turns -> Metadata],
         UNCHANGED <<session, caches, answer, gist, recorded, spoiled>>
  PROVE  IInv'
<1>1. /\ \A u \in Turns : stage'[u] = IF u = t THEN to ELSE stage[u]
      /\ \A u \in Turns : request'[u] = IF u = t THEN q ELSE request[u]
      /\ answer[t] = NoResult
  BY DEF IInv, TypeOK, AnswerInv
<1>2. /\ UNCHANGED <<open, history, metadata, anchors, tier, summary>>
      /\ UNCHANGED <<memory, semantic, answer, gist, recorded, spoiled>>
  BY DEF session, caches
<1>3. TypeOK'
  BY <1>2 DEF IInv, TypeOK
<1>4. HistoryInv' /\ CacheInv'
  BY <1>2 DEF IInv, HistoryInv, CacheInv
<1>5. t \notin recorded /\ recorded \subseteq Turns
  BY DEF IInv, FactsInv, TypeOK
<1>6. FactsInv'
  <2>1. \A u \in recorded : stage'[u] = "answered"
    BY <1>1, <1>5 DEF IInv, FactsInv
  <2>2. \A u \in Turns : u \in recorded \/ stage'[u] = "summarising" => Mentioned(u)' \subseteq metadata.techs
    BY <1>1, <1>2, <1>5 DEF IInv, FactsInv, Mentioned
  <2> QED
    BY <1>2, <2>1, <2>2 DEF IInv, FactsInv
<1>7. AnswerInv'
  BY <1>1, <1>2 DEF IInv, AnswerInv, Fits
<1>8. SummaryInv'
  <2>1. \A u \in Turns : stage'[u] = "summarising" => stage[u] = "summarising"
    BY <1>1
  <2> QED
    BY <1>2, <2>1 DEF IInv, SummaryInv, Full, TurnsIn
<1> QED
  BY <1>3, <1>4, <1>6, <1>7, <1>8 DEF IInv

\* A result is there.
LEMMA ConcludeInv ==
  ASSUME IInv, NEW t \in Turns, NEW r \in Requests, NEW result \in Results,
         stage[t] \in {"idle", "asked"}, Fits(r, result),
         Conclude(t, r, result), request' = [request EXCEPT ![t] = r],
         memory' \in [Keys -> Results \cup {NoResult}],
         semantic' \subseteq [bucket : Options, text : Texts, result : Results],
         CacheInv'
  PROVE  IInv'
<1>1. /\ \A u \in Turns : request'[u] = IF u = t THEN r ELSE request[u]
      /\ \A u \in Turns : answer'[u] = IF u = t THEN result ELSE answer[u]
      /\ UNCHANGED <<summary, spoiled>>
      /\ r.text \in Texts /\ TechsIn[r.text] \subseteq Techs
  BY ConversationAssumption DEF Conclude, IInv, TypeOK, Requests
<1>2. /\ t \notin recorded /\ recorded \subseteq Turns
      /\ \A u \in recorded : u # t /\ stage[u] = "answered"
  BY DEF IInv, FactsInv, TypeOK
<1>3. /\ request' \in [Turns -> Requests \cup {NoRequest}]
      /\ answer' \in [Turns -> Results \cup {NoResult}]
      /\ brief' \in [Turns -> Metadata]
  <2>1. Unknown \in Metadata
    BY DEF Unknown, Metadata
  <2> QED
    BY <2>1 DEF Conclude, IInv, TypeOK
<1>4. \A u \in Turns : u # t => Mentioned(u)' = Mentioned(u)
  BY <1>1 DEF Mentioned
<1>5. CASE /\ r.oneOff
           /\ stage' = [stage EXCEPT ![t] = "answered"]
           /\ UNCHANGED <<open, history, metadata, anchors, tier, gist, recorded>>
  <2>1. \A u \in Turns : stage'[u] = IF u = t THEN "answered" ELSE stage[u]
    BY <1>5 DEF IInv, TypeOK
  <2>2. TypeOK'
    BY <1>1, <1>3, <1>5 DEF IInv, TypeOK
  <2>3. HistoryInv'
    BY <1>5 DEF IInv, HistoryInv
  <2>4. FactsInv'
    <3>1. \A u \in recorded : stage'[u] = "answered"
      BY <1>2, <2>1
    <3>2. \A u \in Turns :
            u \in recorded \/ stage'[u] = "summarising" => Mentioned(u)' \subseteq metadata.techs
      BY <1>2, <1>4, <2>1 DEF IInv, FactsInv
    <3> QED
      BY <1>5, <3>1, <3>2 DEF IInv, FactsInv
  <2>5. AnswerInv'
    BY <1>1, <2>1 DEF IInv, AnswerInv, Fits
  <2>6. SummaryInv'
    <3>1. \A u \in Turns : stage'[u] = "summarising" => stage[u] = "summarising"
      BY <2>1
    <3> QED
      BY <1>1, <1>5, <3>1 DEF IInv, SummaryInv, Full, TurnsIn
  <2> QED
    BY <2>2, <2>3, <2>4, <2>5, <2>6 DEF IInv
<1>6. ASSUME RecordFacts(t, r.text, result)
      PROVE  /\ metadata' \in Metadata /\ anchors' \subseteq Anchors /\ tier' \in Tiers
             /\ metadata.techs \subseteq metadata'.techs
             /\ Mentioned(t)' \subseteq metadata'.techs
             /\ \A a \in anchors' :
                  /\ a.fact = "name" => a.value = metadata'.name
                  /\ a.fact = "tech" => a.value \in metadata'.techs
  <2>1. Mentioned(t)' = result.techs \cup TechsIn[r.text]
    BY <1>1 DEF Mentioned
  <2> QED
    BY <1>1, <1>6, <2>1, FactsAfter DEF IInv
<1>7. CASE /\ ~Full
           /\ RecordFacts(t, r.text, result)
           /\ Commit(t)
  <2>1. /\ \A u \in Turns : stage'[u] = IF u = t THEN "answered" ELSE stage[u]
        /\ recorded' = recorded \cup {t} /\ UNCHANGED open
        /\ gist' = [gist EXCEPT ![t] = {}]
    BY <1>7 DEF Commit, IInv, TypeOK
  <2>2. /\ HistoryInv' /\ history' \in Seq(Messages)
        /\ t \in TurnsIn(history') /\ TurnsIn(history) \subseteq TurnsIn(history')
    BY <1>7, CommitWindow DEF IInv, Commit
  <2>3. TypeOK'
    <3>1. stage' = [stage EXCEPT ![t] = "answered"]
      BY <1>7 DEF Commit
    <3> QED
      BY <1>1, <1>3, <1>6, <1>7, <2>1, <2>2, <3>1 DEF IInv, TypeOK
  <2>4. FactsInv'
    <3>1. \A u \in recorded' : stage'[u] = "answered"
      BY <1>2, <2>1
    <3>2. \A u \in Turns :
            u \in recorded' \/ stage'[u] = "summarising" => Mentioned(u)' \subseteq metadata'.techs
      BY <1>2, <1>4, <1>6, <1>7, <2>1 DEF IInv, FactsInv
    <3> QED
      BY <1>6, <1>7, <3>1, <3>2 DEF FactsInv
  <2>5. AnswerInv'
    BY <1>1, <2>1 DEF IInv, AnswerInv, Fits
  <2>6. SummaryInv'
    <3>1. \A u \in Turns : stage'[u] # "summarising"
      BY <1>7, <2>1 DEF IInv, SummaryInv
    <3>2. ~spoiled' => recorded' \subseteq TurnsIn(history') \cup summary'
      BY <1>1, <2>1, <2>2 DEF IInv, SummaryInv
    <3> QED
      BY <3>1, <3>2 DEF SummaryInv, TurnsIn
  <2> QED
    BY <2>2, <2>3, <2>4, <2>5, <2>6 DEF IInv
<1>8. CASE /\ Full
           /\ RecordFacts(t, r.text, result)
           /\ stage' = [stage EXCEPT ![t] = "summarising"]
           /\ gist' = [gist EXCEPT ![t] = Gist]
           /\ UNCHANGED <<open, history, recorded>>
  <2>1. /\ \A u \in Turns : stage'[u] = IF u = t THEN "summarising" ELSE stage[u]
        /\ \A u \in Turns : gist'[u] = IF u = t THEN Gist ELSE gist[u]
    BY <1>8 DEF IInv, TypeOK
  <2>2. TypeOK'
    <3>1. Gist \subseteq Turns
      BY TurnsOfHistory DEF IInv, TypeOK, Gist
    <3>2. gist' \in [Turns -> SUBSET Turns]
      BY <1>8, <3>1 DEF IInv, TypeOK
    <3> QED
      BY <1>1, <1>3, <1>6, <1>8, <3>2 DEF IInv, TypeOK
  <2>3. HistoryInv'
    BY <1>8 DEF IInv, HistoryInv
  <2>4. FactsInv'
    <3>1. \A u \in recorded' : stage'[u] = "answered"
      BY <1>2, <1>8, <2>1
    <3>2. \A u \in Turns :
            u \in recorded' \/ stage'[u] = "summarising" => Mentioned(u)' \subseteq metadata'.techs
      BY <1>2, <1>4, <1>6, <1>8, <2>1 DEF IInv, FactsInv
    <3> QED
      BY <1>6, <1>8, <3>1, <3>2 DEF FactsInv
  <2>5. AnswerInv'
    BY <1>1, <2>1 DEF IInv, AnswerInv, Fits
  <2>6. SummaryInv'
    <3>1. ~spoiled => recorded \subseteq Gist
      BY DEF IInv, SummaryInv, Gist
    <3>2. \A u \in Turns : stage'[u] = "summarising" => (~spoiled => recorded \subseteq gist'[u])
      BY <2>1, <3>1 DEF IInv, SummaryInv
    <3> QED
      BY <1>1, <1>8, <3>2 DEF IInv, SummaryInv, Full, TurnsIn
  <2> QED
    BY <2>2, <2>3, <2>4, <2>5, <2>6 DEF IInv
<1> QED
  BY <1>5, <1>7, <1>8 DEF Conclude

\* What a lookup returns is a result for the request, or none.
LEMMA HitFits ==
  ASSUME TypeOK, CacheInv, NEW r \in Requests, NEW hit \in Lookups(r), hit # NoResult
  PROVE  hit \in Results /\ Fits(r, hit)
<1>1. r.text \in Texts /\ r.option \in Options /\ r.text \in Near[r.text]
  BY ConversationAssumption DEF Requests
<1>2. CASE hit = memory[CacheKey(r)]
  <2> DEFINE k == CacheKey(r)
  <2>1. k \in Keys /\ k[1] = r.text /\ k[2] = r.option
    BY <1>1 DEF CacheKey, Keys
  <2> HIDE DEF k
  <2>2. memory[k] \in Results \cup {NoResult}
    BY <2>1 DEF TypeOK
  <2>3. hit = memory[k]
    BY <1>2 DEF k
  <2> QED
    BY <2>1, <2>2, <2>3 DEF CacheInv, Fits
<1>3. CASE UsesRedis /\ hit \in SemanticHits(r)
  <2>1. PICK e \in semantic : e.bucket = BucketFor(r) /\ r.text \in Near[e.text] /\ hit = e.result
    BY <1>3 DEF SemanticHits
  <2> QED
    BY <1>3, <2>1 DEF TypeOK, CacheInv, Fits, BucketFor
<1> QED
  BY <1>2, <1>3 DEF Lookups

LEMMA ReceiveInv ==
  ASSUME IInv, NEW t \in Turns, NEW r \in Asked, Receive(t, r)
  PROVE  IInv'
<1>1. /\ stage[t] = "idle" /\ r \in Requests
      /\ request' = [request EXCEPT ![t] = r] /\ UNCHANGED caches
  BY ConversationAssumption DEF Receive
<1>2. Unknown \in Metadata
  BY DEF Unknown, Metadata
<1>3. ASSUME NEW to \in {"refused", "failed"}, End(t, to)
      PROVE  IInv'
  <2>1. /\ stage' = [stage EXCEPT ![t] = to] /\ brief' \in [Turns -> Metadata]
        /\ UNCHANGED <<session, answer, gist, recorded, spoiled>>
    BY <1>2, <1>3 DEF End, IInv, TypeOK
  <2> QED
    BY <1>1, <2>1, EndInv
<1>4. CASE End(t, "refused")
  BY <1>3, <1>4
<1>5. ASSUME NEW hit \in Lookups(r), hit # NoResult, Conclude(t, r, hit)
      PROVE  IInv'
  <2>1. hit \in Results /\ Fits(r, hit)
    BY <1>1, <1>5, HitFits DEF IInv
  <2>2. /\ memory' \in [Keys -> Results \cup {NoResult}]
        /\ semantic' \subseteq [bucket : Options, text : Texts, result : Results]
        /\ CacheInv'
    BY <1>1 DEF caches, IInv, TypeOK, CacheInv
  <2> QED
    BY <1>1, <1>5, <2>1, <2>2, ConcludeInv
<1>6. CASE End(t, "failed")
  BY <1>3, <1>6
<1>7. CASE /\ stage' = [stage EXCEPT ![t] = "asked"]
           /\ brief' = [brief EXCEPT ![t] = metadata]
           /\ UNCHANGED <<session, answer, gist, recorded, spoiled>>
  <2>1. brief' \in [Turns -> Metadata]
    BY <1>7 DEF IInv, TypeOK
  <2> QED
    BY <1>1, <1>7, <2>1, EndInv
<1> QED
  BY <1>4, <1>5, <1>6, <1>7 DEF Receive

LEMMA LlmAnswersInv ==
  ASSUME IInv, NEW t \in Turns, NEW draft \in Drafts, LlmAnswers(t, draft)
  PROVE  IInv'
<1> DEFINE r == request[t]
<1> DEFINE result == [text |-> r.text, option |-> r.option, version |-> r.version,
                      team |-> draft.team, techs |-> draft.techs, cost |-> draft.cost]
<1>1. /\ stage[t] = "asked" /\ StoreCache(r, result) /\ Conclude(t, r, result)
      /\ UNCHANGED request
  BY DEF LlmAnswers
<1>2. r \in Requests /\ request' = [request EXCEPT ![t] = r]
  BY <1>1 DEF IInv, TypeOK, AnswerInv
<1>3. result \in Results
  BY <1>2, ConversationAssumption DEF Results, Requests
<1>4. result.text = r.text /\ result.option = r.option
  OBVIOUS
<1> HIDE DEF r, result
<1>5. Fits(r, result)
  BY <1>4 DEF Fits
<1>6. CacheKey(r) \in Keys /\ CacheKey(r)[1] = r.text /\ CacheKey(r)[2] = r.option
  BY <1>2 DEF CacheKey, Keys, Requests
<1>7. /\ memory' = [memory EXCEPT ![CacheKey(r)] = result]
      /\ semantic' \subseteq
           semantic \cup {[bucket |-> BucketFor(r), text |-> r.text, result |-> result]}
  BY <1>1 DEF StoreCache
<1>8. memory' \in [Keys -> Results \cup {NoResult}]
  BY <1>3, <1>6, <1>7 DEF IInv, TypeOK
<1>9. semantic' \subseteq [bucket : Options, text : Texts, result : Results]
  <2>1. [bucket |-> BucketFor(r), text |-> r.text, result |-> result]
          \in [bucket : Options, text : Texts, result : Results]
    BY <1>2, <1>3 DEF Requests, BucketFor
  <2> QED
    BY <1>7, <2>1 DEF IInv, TypeOK
<1>10. CacheInv'
  <2>1. ASSUME NEW k \in Keys, memory'[k] # NoResult
        PROVE  memory'[k].text = k[1] /\ memory'[k].option = k[2]
    <3>1. CASE k = CacheKey(r)
      BY <1>4, <1>6, <1>7, <3>1 DEF IInv, TypeOK
    <3>2. CASE k # CacheKey(r)
      BY <1>7, <2>1, <3>2 DEF IInv, TypeOK, CacheInv
    <3> QED
      BY <3>1, <3>2
  <2>2. \A e \in semantic' : e.result.text = e.text /\ e.result.option = e.bucket
    BY <1>4, <1>7 DEF IInv, CacheInv, BucketFor
  <2> QED
    BY <2>1, <2>2 DEF CacheInv
<1> QED
  BY <1>1, <1>2, <1>3, <1>5, <1>8, <1>9, <1>10, ConcludeInv

LEMMA LlmFailsInv ==
  ASSUME IInv, NEW t \in Turns, LlmFails(t)
  PROVE  IInv'
<1>1. request[t] \in Requests /\ request' = [request EXCEPT ![t] = request[t]]
  BY DEF LlmFails, IInv, TypeOK, AnswerInv
<1>2. Unknown \in Metadata
  BY DEF Unknown, Metadata
<1>3. /\ stage[t] = "asked" /\ stage' = [stage EXCEPT ![t] = "failed"]
      /\ brief' \in [Turns -> Metadata]
      /\ UNCHANGED <<session, caches, answer, gist, recorded, spoiled>>
  BY <1>2 DEF LlmFails, End, IInv, TypeOK
<1> QED
  BY <1>1, <1>3, EndInv

\* The summary covers what its prompt showed: all there was, unless another turn was
\* appended meanwhile, and then that overlap has spoiled it.
LEMMA SummaryEndsInv ==
  ASSUME IInv, NEW t \in Turns, NEW outcome \in Outcomes, SummaryEnds(t, outcome)
  PROVE  IInv'
<1>1. /\ stage[t] = "summarising" /\ Commit(t)
      /\ UNCHANGED <<open, metadata, anchors, tier, memory, semantic, request, answer, brief>>
      /\ summary' = SummaryAfter(t, outcome)
      /\ spoiled' = (spoiled \/ outcome # "told" \/ \E u \in Turns \ {t} : stage[u] = "summarising")
  BY DEF SummaryEnds, Commit, caches
<1>2. /\ \A u \in Turns : stage'[u] = IF u = t THEN "answered" ELSE stage[u]
      /\ \A u \in Turns : gist'[u] = IF u = t THEN {} ELSE gist[u]
      /\ recorded' = recorded \cup {t}
      /\ stage' = [stage EXCEPT ![t] = "answered"] /\ gist' = [gist EXCEPT ![t] = {}]
  BY <1>1 DEF Commit, IInv, TypeOK
<1>3. HistoryInv' /\ history' \in Seq(Messages) /\ t \in TurnsIn(history') /\ (Full => Full')
  BY <1>1, CommitWindow DEF IInv, Commit
<1>4. TypeOK'
  <2>1. summary' \subseteq Turns
    BY <1>1 DEF SummaryAfter, IInv, TypeOK, Outcomes
  <2>2. spoiled' \in BOOLEAN
    BY <1>1 DEF IInv, TypeOK
  <2> QED
    BY <1>1, <1>2, <1>3, <2>1, <2>2 DEF IInv, TypeOK
<1>5. FactsInv'
  <2>1. \A u \in recorded' : stage'[u] = "answered"
    BY <1>1, <1>2 DEF IInv, FactsInv, TypeOK
  <2>2. \A u \in Turns :
          u \in recorded' \/ stage'[u] = "summarising" => Mentioned(u)' \subseteq metadata'.techs
    BY <1>1, <1>2 DEF IInv, FactsInv, Mentioned
  <2> QED
    BY <1>1, <2>1, <2>2 DEF IInv, FactsInv
<1>6. CacheInv'
  BY <1>1 DEF IInv, CacheInv
<1>7. AnswerInv'
  BY <1>1, <1>2 DEF IInv, AnswerInv, Fits
<1>8. SummaryInv'
  <2>1. ~spoiled' => recorded' \subseteq TurnsIn(history') \cup summary'
    <3> SUFFICES ASSUME ~spoiled'
                 PROVE  recorded' \subseteq TurnsIn(history') \cup summary'
      OBVIOUS
    <3>1. ~spoiled /\ outcome = "told"
      BY <1>1
    <3>2. summary' = gist[t] /\ recorded \subseteq gist[t]
      BY <1>1, <3>1 DEF SummaryAfter, IInv, SummaryInv
    <3> QED
      BY <1>2, <1>3, <3>2
  <2>2. ASSUME NEW u \in Turns, stage'[u] = "summarising"
        PROVE  Full' /\ spoiled'
    <3>1. u # t /\ stage[u] = "summarising"
      BY <1>2, <2>2
    <3> QED
      BY <1>1, <1>3, <3>1 DEF IInv, SummaryInv
  <2> QED
    BY <2>1, <2>2 DEF SummaryInv, Full, TurnsIn
<1> QED
  BY <1>3, <1>4, <1>5, <1>6, <1>7, <1>8 DEF IInv

LEMMA CrashInv ==
  ASSUME IInv, Crash
  PROVE  IInv'
<1>1. /\ open' = FALSE /\ history' = <<>> /\ metadata' = Unknown /\ anchors' = {}
      /\ tier' = "unknown" /\ summary' = {} /\ memory' = [k \in Keys |-> NoResult]
      /\ recorded' = {} /\ spoiled' = FALSE
      /\ UNCHANGED <<semantic, request, answer>>
      /\ brief' = [t \in Turns |-> Unknown] /\ gist' = [t \in Turns |-> {}]
      /\ stage' = [t \in Turns |-> IF t \in Serving THEN "lost" ELSE stage[t]]
  BY DEF Crash
<1>2. Unknown \in Metadata /\ <<>> \in Seq(Messages) /\ <<>> \in Seq(Turns)
  BY DEF Unknown, Metadata
<1>3. \A t \in Turns :
        /\ stage'[t] \notin {"asked", "summarising"}
        /\ stage'[t] = "idle" => stage[t] = "idle"
        /\ stage'[t] # "idle" => stage[t] # "idle"
  <2>1. \A t \in Serving : stage[t] # "idle"
    BY DEF Serving
  <2>2. \A t \in Turns : stage[t] \in {"asked", "summarising"} => t \in Serving
    BY DEF Serving
  <2> QED
    BY <1>1, <2>1, <2>2
<1>4. TypeOK'
  <2>1. stage' \in [Turns -> {"idle", "asked", "summarising", "answered", "refused", "failed",
                              "lost"}]
    BY <1>1 DEF IInv, TypeOK
  <2> QED
    BY <1>1, <1>2, <2>1 DEF IInv, TypeOK, Tiers
<1>5. HistoryInv'
  <2>1. Pairs(<<>>, <<>>) /\ Len(<<>>) = 0 /\ 0 <= MaxTurns
    BY <1>2, ConversationAssumption DEF Pairs
  <2> QED
    BY <1>1, <1>2, <2>1 DEF HistoryInv
<1>6. FactsInv' /\ CacheInv' /\ SummaryInv'
  <2>1. FactsInv'
    BY <1>1, <1>3 DEF FactsInv
  <2>2. CacheInv'
    BY <1>1 DEF IInv, CacheInv
  <2>3. SummaryInv'
    BY <1>1, <1>3 DEF SummaryInv
  <2> QED
    BY <2>1, <2>2, <2>3
<1>7. AnswerInv'
  BY <1>1, <1>3 DEF IInv, AnswerInv, Fits
<1> QED
  BY <1>4, <1>5, <1>6, <1>7 DEF IInv

LEMMA StepInv == IInv /\ [Next]_vars => IInv'
<1> SUFFICES ASSUME IInv, [Next]_vars
             PROVE  IInv'
  OBVIOUS
<1>1. ASSUME UNCHANGED <<history, metadata, anchors, tier, summary, memory, stage, request, answer,
                         brief, gist, recorded, spoiled>>,
             open' \in BOOLEAN, semantic' \subseteq semantic
      PROVE  IInv'
  <2>1. TypeOK'
    BY <1>1 DEF IInv, TypeOK
  <2>2. HistoryInv' /\ CacheInv' /\ AnswerInv'
    BY <1>1 DEF IInv, HistoryInv, CacheInv, AnswerInv, Fits
  <2>3. FactsInv' /\ SummaryInv'
    BY <1>1 DEF IInv, FactsInv, Mentioned, SummaryInv, Full, TurnsIn
  <2> QED
    BY <2>1, <2>2, <2>3 DEF IInv
<1>2. CASE CreateSession \/ Expire \/ UNCHANGED vars
  <2>1. /\ UNCHANGED <<history, metadata, anchors, tier, summary, memory, stage, request, answer,
                       brief, gist, recorded, spoiled>>
        /\ open' \in BOOLEAN /\ semantic' \subseteq semantic
    BY <1>2 DEF CreateSession, Expire, vars, session, caches, IInv, TypeOK
  <2> QED
    BY <1>1, <2>1
<1>3. CASE \E t \in Turns : (\E r \in Asked : Receive(t, r)) \/ Proceed(t) \/ LlmFails(t)
  BY <1>3, ReceiveInv, LlmAnswersInv, SummaryEndsInv, LlmFailsInv DEF Proceed
<1>4. CASE Crash
  BY <1>4, CrashInv
<1> QED
  BY <1>2, <1>3, <1>4 DEF Next

-----------------------------------------------------------------------------
(***************************************************************************)
(* The history implements the bounded window.                              *)
(***************************************************************************)
\* The same window, of twos.
LEMMA Sliding ==
  ASSUME NEW h, NEW w, Pairs(h, w), Len(w) <= MaxTurns, NEW t \in Turns
  PROVE  InTwos(WithTurn(h, t)) = Window!Slide(Append(InTwos(h), Turn(t)))
<1> DEFINE s == Slid(w, t)
<1> DEFINE a == [i \in 1..Len(w) |-> Turn(w[i])]
<1>1. InTwos(h) = a /\ InTwos(WithTurn(h, t)) = [i \in 1..Len(s) |-> Turn(s[i])]
  BY PairsInTwos, WithTurnPairs
<1>2. /\ w \in Seq(Turns) /\ Len(w) \in Nat /\ MaxTurns \in Nat \ {0}
  BY ConversationAssumption DEF Pairs
<1>3. /\ Len(s) = IF Len(w) = MaxTurns THEN MaxTurns ELSE Len(w) + 1
      /\ s[Len(s)] = t
      /\ \A i \in 1..(Len(s) - 1) : s[i] = IF Len(w) = MaxTurns THEN w[i + 1] ELSE w[i]
  BY <1>2, SlidType
<1> DEFINE S == {Turn(u) : u \in Turns}
<1>4. a \in Seq(S) /\ Len(a) = Len(w) /\ Turn(t) \in S
  BY <1>2
<1> DEFINE b == Append(a, Turn(t))
<1>5. /\ b \in Seq(S) /\ Len(b) = Len(w) + 1 /\ b[Len(w) + 1] = Turn(t)
      /\ \A i \in 1..Len(w) : b[i] = Turn(w[i])
  <2>1. \A i \in 1..Len(w) : a[i] = Turn(w[i])
    OBVIOUS
  <2> HIDE DEF a, S
  <2> QED
    BY <1>2, <1>4, <2>1
<1> HIDE DEF s, a, b, S
<1>6. CASE Len(w) = MaxTurns
  <2>1. Window!Slide(b) = Tail(b)
    BY <1>2, <1>5, <1>6 DEF Window!Slide
  <2>2. /\ Tail(b) \in Seq(S) /\ Len(Tail(b)) = Len(w)
        /\ \A i \in 1..Len(w) : Tail(b)[i] = b[i + 1]
    BY <1>2, <1>5, <1>6
  <2>3. ASSUME NEW i \in 1..Len(w)
        PROVE  b[i + 1] = Turn(s[i])
    <3>1. CASE i = Len(w)
      BY <1>2, <1>3, <1>5, <1>6, <3>1
    <3>2. CASE i # Len(w)
      <4>1. i + 1 \in 1..Len(w) /\ i \in 1..(Len(s) - 1)
        BY <1>2, <1>3, <1>6, <3>2
      <4>2. b[i + 1] = Turn(w[i + 1]) /\ s[i] = w[i + 1]
        BY <1>3, <1>5, <1>6, <4>1
      <4> QED
        BY <4>2
    <3> QED
      BY <3>1, <3>2
  <2>4. Tail(b) = [i \in 1..Len(w) |-> Turn(s[i])] /\ Len(s) = Len(w)
    <3>1. \A i \in 1..Len(w) : Tail(b)[i] = Turn(s[i])
      BY <2>2, <2>3
    <3>2. Len(s) = Len(w)
      BY <1>3, <1>6
    <3> DEFINE c == Tail(b)
    <3> HIDE DEF c
    <3>3. c \in Seq(S) /\ Len(c) = Len(w) /\ \A i \in 1..Len(w) : c[i] = Turn(s[i])
      BY <2>2, <3>1 DEF c
    <3>4. c = [i \in 1..Len(w) |-> Turn(s[i])]
      BY <3>3
    <3> QED
      BY <3>2, <3>4 DEF c
  <2> QED
    BY <1>1, <2>1, <2>4 DEF b, s
<1>7. CASE Len(w) # MaxTurns
  <2>1. Window!Slide(b) = b
    BY <1>2, <1>5, <1>7 DEF Window!Slide
  <2>2. ASSUME NEW i \in 1..(Len(w) + 1)
        PROVE  b[i] = Turn(s[i])
    <3>1. CASE i = Len(w) + 1
      BY <1>2, <1>3, <1>5, <1>7, <3>1
    <3>2. CASE i # Len(w) + 1
      <4>1. i \in 1..Len(w) /\ i \in 1..(Len(s) - 1)
        BY <1>2, <1>3, <1>7, <3>2
      <4>2. b[i] = Turn(w[i]) /\ s[i] = w[i]
        BY <1>3, <1>5, <1>7, <4>1
      <4> QED
        BY <4>2
    <3> QED
      BY <3>1, <3>2
  <2>3. b = [i \in 1..(Len(w) + 1) |-> Turn(s[i])] /\ Len(s) = Len(w) + 1
    BY <1>3, <1>5, <1>7, <2>2
  <2> QED
    BY <1>1, <2>1, <2>3 DEF b, s
<1> QED
  BY <1>6, <1>7

\* The history is appended to, lost with the process, or left alone.
LEMMA HistorySteps ==
  ASSUME [Next]_vars
  PROVE  \/ \E t \in Turns : history' = WithTurn(history, t)
         \/ history' = <<>>
         \/ history' = history
<1>1. CASE CreateSession \/ Expire \/ Crash \/ UNCHANGED vars
  BY <1>1 DEF CreateSession, Expire, Crash, vars, session
<1>2. ASSUME NEW t \in Turns, NEW r, NEW result, Conclude(t, r, result)
      PROVE  history' = WithTurn(history, t) \/ history' = history
  BY <1>2 DEF Conclude, Commit
<1>3. ASSUME NEW t \in Turns, NEW r \in Asked, Receive(t, r)
      PROVE  history' = WithTurn(history, t) \/ history' = history
  <2>1. CASE \E hit \in Lookups(r) : Conclude(t, r, hit)
    BY <1>2, <2>1
  <2>2. CASE UNCHANGED session
    BY <2>2 DEF session
  <2> QED
    BY <1>3, <2>1, <2>2 DEF Receive, End
<1>4. ASSUME NEW t \in Turns, NEW draft \in Drafts, LlmAnswers(t, draft)
      PROVE  history' = WithTurn(history, t) \/ history' = history
  BY <1>2, <1>4 DEF LlmAnswers
<1>5. ASSUME NEW t \in Turns, LlmFails(t)
      PROVE  history' = history
  BY <1>5 DEF LlmFails, End, session
<1>6. ASSUME NEW t \in Turns, NEW outcome \in Outcomes, SummaryEnds(t, outcome)
      PROVE  history' = WithTurn(history, t)
  BY <1>6 DEF SummaryEnds, Commit
<1> QED
  BY <1>1, <1>3, <1>4, <1>5, <1>6 DEF Next, Proceed

LEMMA InTwosOfNone == InTwos(<<>>) = <<>>
<1>1. <<>> \in Seq(Messages) /\ <<>> \in Seq(Turns) /\ Pairs(<<>>, <<>>)
  BY DEF Pairs
<1>2. InTwos(<<>>) = [i \in 1..0 |-> Turn(<<>>[i])]
  BY <1>1, PairsInTwos
<1> QED
  BY <1>2

LEMMA WindowStep ==
  ASSUME IInv, [Next]_vars
  PROVE  [Window!Next]_(InTwos(history))
<1>1. ASSUME NEW t \in Turns, history' = WithTurn(history, t)
      PROVE  Window!Next
  <2>1. PICK w \in Seq(Turns) : Len(w) <= MaxTurns /\ Pairs(history, w)
    BY DEF IInv, HistoryInv
  <2>2. InTwos(history') = Window!Slide(Append(InTwos(history), Turn(t)))
    BY <1>1, <2>1, Sliding
  <2>3. InTwos(history)' = InTwos(history')
    BY DEF InTwos
  <2>4. Window!Add(Turn(t))
    BY <2>2, <2>3 DEF Window!Add
  <2> QED
    BY <2>4 DEF Window!Next
<1>2. CASE history' = <<>>
  <2>1. InTwos(history)' = InTwos(history')
    BY DEF InTwos
  <2>2. Window!Restart
    BY <1>2, <2>1, InTwosOfNone DEF Window!Restart
  <2> QED
    BY <2>2 DEF Window!Next
<1>3. CASE history' = history
  BY <1>3 DEF InTwos
<1> QED
  BY <1>1, <1>2, <1>3, HistorySteps

-----------------------------------------------------------------------------
(***************************************************************************)
(* The theorems.                                                           *)
(***************************************************************************)
LEMMA Invariance == Spec => []IInv
BY InitInv, StepInv, PTL DEF Spec

\* Every variable keeps its type: the session, the caches and the requests.
THEOREM TypeCorrect == Spec => []TypeOK
<1>1. IInv => TypeOK
  BY DEF IInv
<1> QED
  BY <1>1, Invariance, PTL

\* update_from_result and update_anchors: no turn of a session is forgotten, however many
\* overlap, and an anchored name or technology is one of the metadata.
THEOREM EveryTurnCountsHolds == Spec => []EveryTurnCounts
<1>1. IInv => EveryTurnCounts
  BY DEF IInv, TypeOK, FactsInv, Mentioned, EveryTurnCounts
<1> QED
  BY <1>1, Invariance, PTL

\* update_summary, called before the turn that evicts: nothing leaves the window without
\* being in the summary, unless a summary call failed or overlapped another.
THEOREM EvictedIsSummarisedHolds == Spec => []EvictedIsSummarised
<1>1. IInv => EvictedIsSummarised
  BY DEF IInv, SummaryInv, EvictedIsSummarised
<1> QED
  BY <1>1, Invariance, PTL

\* The two caches: a served result is for the options that were asked for and for that text
\* or one it is near to; a hit is never stored under the text that hit.
THEOREM AnswersFitHolds == Spec => []AnswersFit
<1>1. IInv => AnswersFit
  BY DEF IInv, AnswerInv, Fits, AnswersFit
<1> QED
  BY <1>1, Invariance, PTL

\* Metadata within a session: a known name stays, technologies only accumulate.
LEMMA FactsStep ==
  ASSUME IInv, [Next]_vars, open, open'
  PROVE  /\ metadata.name # None => metadata'.name = metadata.name
         /\ metadata.techs \subseteq metadata'.techs
<1>1. ASSUME NEW t \in Turns, NEW r \in Requests, NEW result \in Results, Conclude(t, r, result)
      PROVE  /\ metadata.name # None => metadata'.name = metadata.name
             /\ metadata.techs \subseteq metadata'.techs
  <2>1. r.text \in Texts
    BY DEF Requests
  <2>2. CASE RecordFacts(t, r.text, result)
    BY <2>1, <2>2, FactsAfter DEF IInv
  <2>3. CASE UNCHANGED metadata
    BY <2>3
  <2> QED
    BY <1>1, <2>2, <2>3 DEF Conclude
<1>2. ASSUME NEW t \in Turns, NEW r \in Asked, Receive(t, r)
      PROVE  /\ metadata.name # None => metadata'.name = metadata.name
             /\ metadata.techs \subseteq metadata'.techs
  <2>1. r \in Requests
    BY ConversationAssumption
  <2>2. CASE \E hit \in Lookups(r) : hit # NoResult /\ Conclude(t, r, hit)
    BY <1>1, <2>1, <2>2, HitFits DEF IInv
  <2>3. CASE UNCHANGED session
    BY <2>3 DEF session
  <2> QED
    BY <1>2, <2>2, <2>3 DEF Receive, End
<1>3. ASSUME NEW t \in Turns, NEW draft \in Drafts, LlmAnswers(t, draft)
      PROVE  /\ metadata.name # None => metadata'.name = metadata.name
             /\ metadata.techs \subseteq metadata'.techs
  <2> DEFINE r == request[t]
  <2> DEFINE result == [text |-> r.text, option |-> r.option, version |-> r.version,
                        team |-> draft.team, techs |-> draft.techs, cost |-> draft.cost]
  <2>1. r \in Requests /\ Conclude(t, r, result)
    BY <1>3 DEF LlmAnswers, IInv, TypeOK, AnswerInv
  <2>2. result \in Results
    BY <2>1, ConversationAssumption DEF Results, Requests
  <2> QED
    BY <1>1, <2>1, <2>2
<1>4. CASE UNCHANGED metadata
  BY <1>4
<1>5. ASSUME NEW t \in Turns, LlmFails(t)
      PROVE  UNCHANGED metadata
  BY <1>5 DEF LlmFails, End, session
<1>6. ASSUME NEW t \in Turns, NEW outcome \in Outcomes, SummaryEnds(t, outcome)
      PROVE  UNCHANGED metadata
  BY <1>6 DEF SummaryEnds
<1>7. CASE CreateSession \/ Expire \/ UNCHANGED vars
  BY <1>7 DEF CreateSession, Expire, session, vars
<1>8. ~Crash
  BY DEF Crash
<1> QED
  BY <1>2, <1>3, <1>4, <1>5, <1>6, <1>7, <1>8 DEF Next, Proceed

\* The action property: no step within a session takes back a name or a technology.
THEOREM KnownFactsStickHolds == Spec => KnownFactsStick
<1>1. IInv /\ [Next]_vars =>
        [open' /\ open =>
          /\ metadata.name # None => metadata'.name = metadata.name
          /\ metadata.techs \subseteq metadata'.techs]_vars
  BY FactsStep
<1> QED
  BY <1>1, Invariance, PTL DEF Spec, KnownFactsStick

\* ConversationHistory implements the bounded window: at most MaxTurns turns, the latest
\* ones, each a question with its own reply, for any number of turns that overlap.
THEOREM WindowIsRecentHolds == Spec => WindowIsRecent
<1>1. Init => Window!Init
  BY InTwosOfNone DEF Init, Closed, Window!Init
<1>2. IInv /\ [Next]_vars => [Window!Next]_(InTwos(history))
  BY WindowStep
<1> QED
  BY <1>1, <1>2, Invariance, PTL DEF Spec, WindowIsRecent, Window!Spec
====
