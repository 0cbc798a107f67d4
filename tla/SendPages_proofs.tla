--------------------------- MODULE SendPages_proofs ---------------------------
(***************************************************************************)
(* The two pages that spend, for any coins, payees, offers and bounds: the *)
(* change, the buttons and the payment belong to what the page shows.      *)
(***************************************************************************)
EXTENDS SendPages, DataFacts

\* The change is a number, and with it there is enough exactly if the coins cover
\* the total.
LEMMA ChangeFacts ==
    ASSUME NEW from \in Holdings, NEW total \in Nat
    PROVE  /\ SumSet(from) \in Nat
           /\ ChangeOf(from, total) \in Nat
           /\ SumSet(from) >= total + ChangeOf(from, total) <=> SumSet(from) >= total
<1> DEFINE covering == {s \in {SumSet(S) : S \in SUBSET from} : s >= total}
<1>1. \A S \in SUBSET from : SumSet(S) \in Nat
  <2> SUFFICES ASSUME NEW S \in SUBSET from PROVE SumSet(S) \in Nat
    OBVIOUS
  <2>1. from \subseteq Nat /\ IsFiniteSet(from)
    BY HoldingsAssumption
  <2>2. S \in SUBSET Nat /\ IsFiniteSet(S)
    BY <2>1, FS_Subset
  <2> QED
    BY <2>2, SumSetType
<1>2. covering \in SUBSET Nat /\ \A s \in covering : s >= total
  BY <1>1
<1>3. SumSet(from) \in Nat /\ (SumSet(from) >= total => SumSet(from) \in covering)
  BY <1>1
<1>c. ChangeOf(from, total) = IF covering = {} THEN 0 ELSE Min(covering) - total
  BY DEF ChangeOf
<1> HIDE DEF covering
<1>4. CASE covering = {}
  BY <1>c, <1>3, <1>4
<1>5. CASE covering # {}
  <2>1. Min(covering) \in covering /\ \A y \in covering : Min(covering) <= y
    BY <1>2, <1>5, MinIsLeast
  <2>2. Min(covering) \in Nat /\ Min(covering) >= total
    BY <1>2, <2>1
  <2>3. ChangeOf(from, total) \in Nat /\ total + ChangeOf(from, total) = Min(covering)
    BY <1>c, <1>5, <2>2
  <2> QED
    BY <1>3, <2>1, <2>2, <2>3
<1> QED
  BY <1>4, <1>5

-----------------------------------------------------------------------------
(* The queues *)

\* A question that is asked last is the one that counts.
LEMMA FollowsAsk ==
    ASSUME NEW q \in Seq(Commands), NEW asks \in Seq(Commands), asks # <<>>,
           NEW total \in Nat, asks[Len(asks)] = CalcChange(total),
           NEW events, NEW from, NEW shown
    PROVE  /\ ChangeFollows(q \o asks, events, from, total, shown)
           /\ ~NoneAsked(q \o asks)
<1> DEFINE r == q \o asks
<1>1. /\ r \in Seq(Commands) /\ Len(r) \in 1..Len(r) /\ r[Len(r)] = CalcChange(total)
      /\ Len(r) \in Nat
  OBVIOUS
<1> HIDE DEF r
<1>2. r[Len(r)].kind = "calcChange" /\ r[Len(r)].total = total
  BY <1>1 DEF CalcChange
<1>3. ~NoneAsked(r)
  BY <1>1, <1>2 DEF NoneAsked
<1>4. ASSUME NEW i \in 1..Len(r), \A j \in i + 1..Len(r) : r[j].kind # "calcChange"
      PROVE  r[i].total = total
  <2>1. i = Len(r)
    BY <1>1, <1>2, <1>4
  <2> QED
    BY <1>2, <2>1
<1> QED
  BY <1>3, <1>4 DEF ChangeFollows, r

\* Other commands change nothing.
LEMMA FollowsOther ==
    ASSUME NEW q \in Seq(Commands), NEW c \in Commands, c.kind # "calcChange",
           NEW total, NEW events, NEW from, NEW shown
    PROVE  /\ ChangeFollows(q, events, from, total, shown)
                => ChangeFollows(q \o <<c>>, events, from, total, shown)
           /\ NoneAsked(q \o <<c>>) <=> NoneAsked(q)
<1> DEFINE r == q \o <<c>>
<1>1. /\ Len(r) = Len(q) + 1 /\ Len(q) \in Nat /\ r[Len(q) + 1] = c
      /\ \A i \in 1..Len(q) : r[i] = q[i]
  OBVIOUS
<1> HIDE DEF r
<1>2. \A i \in 1..Len(r) : i \in 1..Len(q) \/ i = Len(q) + 1
  BY <1>1
<1>3. NoneAsked(r) <=> NoneAsked(q)
  BY <1>1, <1>2 DEF NoneAsked
<1>4. ASSUME NEW i \in 1..Len(r), r[i].kind = "calcChange",
             \A j \in i + 1..Len(r) : r[j].kind # "calcChange",
             ChangeFollows(q, events, from, total, shown)
      PROVE  r[i].total = total
  <2>1. i \in 1..Len(q) /\ r[i] = q[i]
    BY <1>1, <1>2, <1>4
  <2>2. \A j \in i + 1..Len(q) : q[j].kind # "calcChange"
    BY <1>1, <1>4, <2>1
  <2> QED
    BY <1>4, <2>1, <2>2 DEF ChangeFollows
<1> QED
  BY <1>3, <1>4 DEF ChangeFollows, r

\* The queue without its first element.
LEMMA TailFacts ==
    ASSUME NEW S, NEW q \in Seq(S), q # <<>>
    PROVE  /\ Head(q) = q[1] /\ q[1] \in S /\ Tail(q) \in Seq(S)
           /\ Len(Tail(q)) = Len(q) - 1 /\ Len(q) \in Nat \ {0}
           /\ \A i \in 1..Len(Tail(q)) : Tail(q)[i] = q[i + 1]
OBVIOUS

LEMMA TailAsked ==
    ASSUME NEW q \in Seq(Commands), q # <<>>
    PROVE  NoneAsked(q) <=> q[1].kind # "calcChange" /\ NoneAsked(Tail(q))
<1> DEFINE t == Tail(q)
<1>1. /\ Len(t) = Len(q) - 1 /\ Len(q) \in Nat \ {0}
      /\ \A i \in 1..Len(t) : t[i] = q[i + 1]
  BY TailFacts
<1> HIDE DEF t
<1>2. \A i \in 1..Len(q) : i = 1 \/ (i - 1 \in 1..Len(t) /\ t[i - 1] = q[i])
  BY <1>1
<1>3. 1 \in 1..Len(q) /\ \A i \in 1..Len(t) : i + 1 \in 1..Len(q)
  BY <1>1
<1>4. NoneAsked(q) <=> q[1].kind # "calcChange" /\ NoneAsked(t)
  BY <1>1, <1>2, <1>3 DEF NoneAsked
<1> QED
  BY <1>4 DEF t

LEMMA TailAnswered ==
    ASSUME NEW q \in Seq(MoneyEvents), q # <<>>
    PROVE  NoneAnswered(q) <=> q[1].kind # "change" /\ NoneAnswered(Tail(q))
<1> DEFINE t == Tail(q)
<1>1. /\ Len(t) = Len(q) - 1 /\ Len(q) \in Nat \ {0}
      /\ \A i \in 1..Len(t) : t[i] = q[i + 1]
  BY TailFacts
<1> HIDE DEF t
<1>2. \A i \in 1..Len(q) : i = 1 \/ (i - 1 \in 1..Len(t) /\ t[i - 1] = q[i])
  BY <1>1
<1>3. 1 \in 1..Len(q) /\ \A i \in 1..Len(t) : i + 1 \in 1..Len(q)
  BY <1>1
<1>4. NoneAnswered(q) <=> q[1].kind # "change" /\ NoneAnswered(t)
  BY <1>1, <1>2, <1>3 DEF NoneAnswered
<1> QED
  BY <1>4 DEF t

LEMMA AppendFacts ==
    ASSUME NEW S, NEW q \in Seq(S), NEW e \in S
    PROVE  /\ Append(q, e) \in Seq(S) /\ Append(q, e) # <<>>
           /\ Len(Append(q, e)) = Len(q) + 1 /\ Len(q) \in Nat
           /\ \A i \in 1..Len(q) : Append(q, e)[i] = q[i]
           /\ Append(q, e)[Len(q) + 1] = e
           /\ \A i \in 1..Len(Append(q, e)) : i \in 1..Len(q) \/ i = Len(q) + 1
<1> DEFINE r == Append(q, e)
<1>1. r \in Seq(S) /\ Len(r) = Len(q) + 1 /\ Len(q) \in Nat
  OBVIOUS
<1>2. (\A i \in 1..Len(q) : r[i] = q[i]) /\ r[Len(q) + 1] = e
  OBVIOUS
<1> HIDE DEF r
<1>3. r # <<>> /\ \A i \in 1..Len(r) : i \in 1..Len(q) \/ i = Len(q) + 1
  BY <1>1
<1> QED
  BY <1>1, <1>2, <1>3 DEF r

LEMMA AppendAnswered ==
    ASSUME NEW q \in Seq(MoneyEvents), NEW e \in MoneyEvents
    PROVE  NoneAnswered(Append(q, e)) <=> NoneAnswered(q) /\ e.kind # "change"
<1> DEFINE r == Append(q, e)
<1>1. /\ Len(r) = Len(q) + 1 /\ Len(q) \in Nat /\ r[Len(q) + 1] = e
      /\ \A i \in 1..Len(q) : r[i] = q[i]
      /\ \A i \in 1..Len(r) : i \in 1..Len(q) \/ i = Len(q) + 1
  BY AppendFacts
<1> HIDE DEF r
<1>2. Len(q) + 1 \in 1..Len(r) /\ \A i \in 1..Len(q) : i \in 1..Len(r)
  BY <1>1
<1>3. NoneAnswered(r) <=> NoneAnswered(q) /\ e.kind # "change"
  BY <1>1, <1>2 DEF NoneAnswered
<1> QED
  BY <1>3 DEF r

\* An answer takes the place of its question.
LEMMA FollowsAnswer ==
    ASSUME NEW q \in Seq(Commands), q # <<>>, q[1].kind = "calcChange",
           NEW events \in Seq(MoneyEvents), NEW total, NEW from, NEW old, NEW shown,
           NEW e \in MoneyEvents, e.kind = "change", e.amount = ChangeOf(from, q[1].total),
           ChangeFollows(q, events, old, total, shown)
    PROVE  ChangeFollows(Tail(q), Append(events, e), from, total, shown)
<1> DEFINE t == Tail(q)
           r == Append(events, e)
<1>1. /\ Len(t) = Len(q) - 1 /\ Len(q) \in Nat \ {0}
      /\ \A i \in 1..Len(t) : t[i] = q[i + 1]
  BY TailFacts
<1>2. /\ Len(r) = Len(events) + 1 /\ Len(events) \in Nat /\ r[Len(events) + 1] = e
  BY AppendFacts
<1>3. ~NoneAnswered(r)
  BY AppendAnswered
<1> HIDE DEF t, r
<1>4. ASSUME NEW i \in 1..Len(t), t[i].kind = "calcChange",
             \A j \in i + 1..Len(t) : t[j].kind # "calcChange"
      PROVE  t[i].total = total
  <2>1. i + 1 \in 1..Len(q) /\ q[i + 1] = t[i]
    BY <1>1
  <2>2. ASSUME NEW j \in (i + 1) + 1..Len(q) PROVE q[j].kind # "calcChange"
    <3>1. j - 1 \in i + 1..Len(t) /\ t[j - 1] = q[j]
      BY <1>1
    <3> QED
      BY <1>4, <3>1
  <2> QED
    BY <1>4, <2>1, <2>2 DEF ChangeFollows
<1>5. ASSUME NoneAsked(t), NEW i \in 1..Len(r), r[i].kind = "change",
             \A j \in i + 1..Len(r) : r[j].kind # "change"
      PROVE  r[i].amount = ChangeOf(from, total)
  <2>1. i = Len(events) + 1
    BY <1>2, <1>5
  <2>2. \A j \in 1 + 1..Len(q) : q[j].kind # "calcChange"
    <3> SUFFICES ASSUME NEW j \in 1 + 1..Len(q) PROVE q[j].kind # "calcChange"
      OBVIOUS
    <3>1. j - 1 \in 1..Len(t) /\ t[j - 1] = q[j]
      BY <1>1
    <3> QED
      BY <1>5, <3>1 DEF NoneAsked
  <2>3. q[1].total = total
    BY <1>1, <2>2 DEF ChangeFollows
  <2> QED
    BY <1>2, <2>1, <2>3
<1> QED
  BY <1>3, <1>4, <1>5 DEF ChangeFollows, t, r

\* Another command that is done changes nothing.
LEMMA FollowsDone ==
    ASSUME NEW q \in Seq(Commands), q # <<>>, q[1].kind # "calcChange",
           NEW events, NEW total, NEW from, NEW shown,
           ChangeFollows(q, events, from, total, shown)
    PROVE  ChangeFollows(Tail(q), events, from, total, shown)
<1> DEFINE t == Tail(q)
<1>1. /\ Len(t) = Len(q) - 1 /\ Len(q) \in Nat \ {0}
      /\ \A i \in 1..Len(t) : t[i] = q[i + 1]
  BY TailFacts
<1>2. NoneAsked(t) <=> NoneAsked(q)
  BY TailAsked
<1> HIDE DEF t
<1>4. ASSUME NEW i \in 1..Len(t), t[i].kind = "calcChange",
             \A j \in i + 1..Len(t) : t[j].kind # "calcChange"
      PROVE  t[i].total = total
  <2>1. i + 1 \in 1..Len(q) /\ q[i + 1] = t[i]
    BY <1>1
  <2>2. ASSUME NEW j \in (i + 1) + 1..Len(q) PROVE q[j].kind # "calcChange"
    <3>1. j - 1 \in i + 1..Len(t) /\ t[j - 1] = q[j]
      BY <1>1
    <3> QED
      BY <1>4, <3>1
  <2> QED
    BY <1>4, <2>1, <2>2 DEF ChangeFollows
<1> QED
  BY <1>2, <1>4 DEF ChangeFollows, t

\* So does another event that is posted.
LEMMA FollowsPost ==
    ASSUME NEW q, NEW events \in Seq(MoneyEvents), NEW e \in MoneyEvents, e.kind # "change",
           NEW total, NEW from, NEW shown,
           ChangeFollows(q, events, from, total, shown)
    PROVE  ChangeFollows(q, Append(events, e), from, total, shown)
<1> DEFINE r == Append(events, e)
<1>1. /\ Len(r) = Len(events) + 1 /\ Len(events) \in Nat /\ r[Len(events) + 1] = e
      /\ \A i \in 1..Len(events) : r[i] = events[i]
      /\ \A i \in 1..Len(r) : i \in 1..Len(events) \/ i = Len(events) + 1
  BY AppendFacts
<1>2. NoneAnswered(r) <=> NoneAnswered(events)
  BY AppendAnswered
<1> HIDE DEF r
<1>3. ASSUME NoneAsked(q), NEW i \in 1..Len(r), r[i].kind = "change",
             \A j \in i + 1..Len(r) : r[j].kind # "change"
      PROVE  r[i].amount = ChangeOf(from, total)
  <2>1. i \in 1..Len(events) /\ r[i] = events[i]
    BY <1>1, <1>3
  <2>2. \A j \in i + 1..Len(events) : events[j].kind # "change"
    <3> SUFFICES ASSUME NEW j \in i + 1..Len(events) PROVE events[j].kind # "change"
      OBVIOUS
    <3>1. j \in 1..Len(events) /\ j \in i + 1..Len(r)
      BY <1>1, <2>1
    <3> QED
      BY <1>1, <1>3, <3>1
  <2> QED
    BY <1>3, <2>1, <2>2 DEF ChangeFollows
<1> QED
  BY <1>2, <1>3 DEF ChangeFollows, r

\* The page shows an answer that is delivered.
LEMMA FollowsTake ==
    ASSUME NEW q, NEW events \in Seq(MoneyEvents), events # <<>>,
           NEW total, NEW from, NEW shown, NEW next,
           next = IF events[1].kind = "change" THEN events[1].amount ELSE shown,
           ChangeFollows(q, events, from, total, shown)
    PROVE  ChangeFollows(q, Tail(events), from, total, next)
<1> DEFINE t == Tail(events)
<1>1. /\ Len(t) = Len(events) - 1 /\ Len(events) \in Nat \ {0}
      /\ \A i \in 1..Len(t) : t[i] = events[i + 1]
  BY TailFacts
<1>2. NoneAnswered(events) <=> events[1].kind # "change" /\ NoneAnswered(t)
  BY TailAnswered
<1> HIDE DEF t
<1>3. ASSUME NoneAsked(q), NEW i \in 1..Len(t), t[i].kind = "change",
             \A j \in i + 1..Len(t) : t[j].kind # "change"
      PROVE  t[i].amount = ChangeOf(from, total)
  <2>1. i + 1 \in 1..Len(events) /\ events[i + 1] = t[i]
    BY <1>1
  <2>2. ASSUME NEW j \in (i + 1) + 1..Len(events) PROVE events[j].kind # "change"
    <3>1. j - 1 \in i + 1..Len(t) /\ t[j - 1] = events[j]
      BY <1>1
    <3> QED
      BY <1>3, <3>1
  <2> QED
    BY <1>3, <2>1, <2>2 DEF ChangeFollows
<1>4. ASSUME NoneAsked(q), NoneAnswered(t) PROVE next = ChangeOf(from, total)
  <2>1. CASE events[1].kind = "change"
    <3>1. ASSUME NEW j \in 1 + 1..Len(events) PROVE events[j].kind # "change"
      <4>1. j - 1 \in 1..Len(t) /\ t[j - 1] = events[j]
        BY <1>1
      <4> QED
        BY <1>4, <4>1 DEF NoneAnswered
    <3>2. events[1].amount = ChangeOf(from, total)
      BY <1>1, <1>4, <2>1, <3>1 DEF ChangeFollows
    <3> QED
      BY <2>1, <3>2
  <2>2. CASE events[1].kind # "change"
    BY <1>2, <1>4, <2>2 DEF ChangeFollows
  <2> QED
    BY <2>1, <2>2
<1> QED
  BY <1>3, <1>4 DEF ChangeFollows, t

-----------------------------------------------------------------------------
(* The balance *)

LEMMA BalancePost ==
    ASSUME NEW events \in Seq(MoneyEvents), NEW e \in MoneyEvents, NEW before, NEW value,
           NEW i \in 0..Len(events)
    PROVE  /\ Balance(events, i, before, value) => Balance(Append(events, e), i, before, value)
           /\ e.kind = "status" =>
                 Balance(Append(events, e), Len(events) + 1, before, e.amount)
           /\ e.kind # "status" /\ Balance(events, Len(events), before, value) =>
                 Balance(Append(events, e), Len(events) + 1, before, value)
<1> DEFINE r == Append(events, e)
           n == Len(events)
<1>1. /\ n \in Nat /\ r[n + 1] = e
      /\ \A j \in 1..n : r[j] = events[j]
  BY AppendFacts
<1>2. \A j \in 1..n + 1 : j \in 1..n \/ j = n + 1
  BY <1>1
<1> HIDE DEF r, n
<1>3. Balance(events, i, before, value) => Balance(r, i, before, value)
  <2>1. \A j \in 1..i : r[j] = events[j]
    BY <1>1 DEF n
  <2>2. i \in Nat
    BY <1>1 DEF n
  <2>3. \A j \in 1..i : \A k \in j + 1..i : k \in 1..i
    BY <2>2
  <2> QED
    BY <2>1, <2>3 DEF Balance
<1>4. e.kind = "status" => Balance(r, n + 1, before, e.amount)
  <2> SUFFICES ASSUME e.kind = "status" PROVE Balance(r, n + 1, before, e.amount)
    OBVIOUS
  <2>1. n + 1 \in 1..n + 1 /\ (n + 1) + 1..n + 1 = {}
    BY <1>1
  <2> QED
    BY <1>1, <2>1 DEF Balance
<1>5. e.kind # "status" /\ Balance(events, n, before, value) => Balance(r, n + 1, before, value)
  <2> SUFFICES ASSUME e.kind # "status", Balance(events, n, before, value)
               PROVE  Balance(r, n + 1, before, value)
    OBVIOUS
  <2>1. CASE \A j \in 1..n : events[j].kind # "status"
    <3>1. value = before /\ \A j \in 1..n + 1 : r[j].kind # "status"
      BY <1>1, <1>2, <2>1 DEF Balance
    <3> QED
      BY <3>1 DEF Balance
  <2>2. CASE \E j \in 1..n : events[j].kind = "status"
    <3>1. PICK j \in 1..n : /\ events[j].kind = "status" /\ events[j].amount = value
                            /\ \A k \in j + 1..n : events[k].kind # "status"
      BY <2>2 DEF Balance
    <3>2. j \in 1..n + 1 /\ r[j] = events[j]
      BY <1>1
    <3>3. ASSUME NEW k \in j + 1..n + 1 PROVE r[k].kind # "status"
      <4>1. k = n + 1 \/ (k \in j + 1..n /\ k \in 1..n)
        BY <1>1
      <4> QED
        BY <1>1, <3>1, <4>1
    <3> QED
      BY <3>1, <3>2, <3>3 DEF Balance
  <2> QED
    BY <2>1, <2>2
<1> QED
  BY <1>3, <1>4, <1>5 DEF r, n

LEMMA BalanceTake ==
    ASSUME NEW events \in Seq(MoneyEvents), events # <<>>, NEW before, NEW value, NEW next,
           next = IF events[1].kind = "status" THEN events[1].amount ELSE before,
           NEW i \in 1..Len(events), Balance(events, i, before, value)
    PROVE  Balance(Tail(events), i - 1, next, value)
<1> DEFINE t == Tail(events)
<1>1. /\ Len(t) = Len(events) - 1 /\ Len(events) \in Nat \ {0}
      /\ \A j \in 1..Len(t) : t[j] = events[j + 1]
  BY TailFacts
<1> HIDE DEF t
<1>2. \A j \in 1..i - 1 : t[j] = events[j + 1] /\ j + 1 \in 1..i
  BY <1>1
<1>3. \A j \in 1..i : j = 1 \/ (j - 1 \in 1..i - 1 /\ events[j] = t[j - 1])
  BY <1>1
<1>4. CASE \A j \in 1..i : events[j].kind # "status"
  <2>1. value = before /\ next = before
    BY <1>1, <1>4 DEF Balance
  <2> QED
    BY <1>2, <1>4, <2>1 DEF Balance, t
<1>5. CASE \E j \in 1..i : events[j].kind = "status"
  <2>1. PICK j \in 1..i : /\ events[j].kind = "status" /\ events[j].amount = value
                          /\ \A k \in j + 1..i : events[k].kind # "status"
    BY <1>5 DEF Balance
  <2>2. CASE j = 1
    <3>1. next = value
      BY <2>1, <2>2
    <3>2. ASSUME NEW k \in 1..i - 1 PROVE t[k].kind # "status"
      <4>1. k + 1 \in j + 1..i
        BY <1>1, <2>2
      <4> QED
        BY <1>2, <2>1, <4>1
    <3> QED
      BY <3>1, <3>2 DEF Balance, t
  <2>3. CASE j # 1
    <3>1. j - 1 \in 1..i - 1 /\ t[j - 1] = events[j]
      BY <1>3, <2>3
    <3>2. ASSUME NEW k \in (j - 1) + 1..i - 1 PROVE t[k].kind # "status"
      <4>1. k \in 1..i - 1 /\ k + 1 \in j + 1..i
        BY <1>1
      <4> QED
        BY <1>2, <2>1, <4>1
    <3> QED
      BY <2>1, <3>1, <3>2 DEF Balance, t
  <2> QED
    BY <2>2, <2>3
<1> QED
  BY <1>4, <1>5

LEMMA CalcPost ==
    ASSUME NEW events \in Seq(MoneyEvents), NEW e \in MoneyEvents, e.kind # "change",
           NEW before, NEW value, CalcFollows(events, before, value)
    PROVE  CalcFollows(Append(events, e), before, value)
<1> DEFINE r == Append(events, e)
<1>1. /\ Len(r) = Len(events) + 1 /\ Len(events) \in Nat /\ r[Len(events) + 1] = e
      /\ \A i \in 1..Len(events) : r[i] = events[i]
  BY AppendFacts
<1>2. PICK i \in 0..Len(events) :
         /\ i = 0 \/ events[i].kind = "change"
         /\ \A j \in i + 1..Len(events) : events[j].kind # "change"
         /\ Balance(events, i, before, value)
  BY DEF CalcFollows
<1>3. Balance(r, i, before, value)
  BY <1>2, BalancePost
<1> HIDE DEF r
<1>4. i = 0 \/ r[i].kind = "change"
  BY <1>1, <1>2
<1>5. ASSUME NEW j \in i + 1..Len(r) PROVE r[j].kind # "change"
  <2>1. j = Len(events) + 1 \/ (j \in i + 1..Len(events) /\ j \in 1..Len(events))
    BY <1>1
  <2> QED
    BY <1>1, <1>2, <2>1
<1>6. i \in 0..Len(r)
  BY <1>1
<1> QED
  BY <1>3, <1>4, <1>5, <1>6 DEF CalcFollows, r

LEMMA CalcAnswer ==
    ASSUME NEW events \in Seq(MoneyEvents), NEW e \in MoneyEvents, e.kind = "change",
           NEW before, NEW value, Balance(events, Len(events), before, value)
    PROVE  CalcFollows(Append(events, e), before, value)
<1> DEFINE r == Append(events, e)
<1>1. /\ Len(r) = Len(events) + 1 /\ Len(events) \in Nat /\ r[Len(events) + 1] = e
  BY AppendFacts
<1>2. Balance(r, Len(events) + 1, before, value)
  <2>1. Len(events) \in 0..Len(events)
    BY <1>1
  <2> QED
    BY <2>1, BalancePost DEF MoneyEvents
<1> HIDE DEF r
<1>3. Len(events) + 1 \in 0..Len(r) /\ (Len(events) + 1) + 1..Len(r) = {}
  BY <1>1
<1> QED
  BY <1>1, <1>2, <1>3 DEF CalcFollows, r

\* A page that does not calculate again shows the same balance as before.
LEMMA CalcTake ==
    ASSUME NEW events \in Seq(MoneyEvents), events # <<>>, NEW before, NEW value, NEW next,
           next = IF events[1].kind = "status" THEN events[1].amount ELSE before,
           ~(events[1].kind = "status" /\ events[1].amount # before),
           CalcFollows(events, before, value)
    PROVE  CalcFollows(Tail(events), next, value)
<1> DEFINE t == Tail(events)
<1>1. /\ Len(t) = Len(events) - 1 /\ Len(events) \in Nat \ {0}
      /\ \A j \in 1..Len(t) : t[j] = events[j + 1]
  BY TailFacts
<1>2. PICK i \in 0..Len(events) :
         /\ i = 0 \/ events[i].kind = "change"
         /\ \A j \in i + 1..Len(events) : events[j].kind # "change"
         /\ Balance(events, i, before, value)
  BY DEF CalcFollows
<1>3. next = before
  OBVIOUS
<1> HIDE DEF t
<1>4. CASE i = 0
  <2>1. value = next
    BY <1>2, <1>3, <1>4 DEF Balance
  <2>2. Balance(t, 0, next, value)
    BY <2>1 DEF Balance
  <2>3. ASSUME NEW j \in 0 + 1..Len(t) PROVE t[j].kind # "change"
    <3>1. j + 1 \in i + 1..Len(events) /\ t[j] = events[j + 1]
      BY <1>1, <1>4
    <3> QED
      BY <1>2, <3>1
  <2>4. 0 \in 0..Len(t)
    BY <1>1
  <2> QED
    BY <2>2, <2>3, <2>4 DEF CalcFollows, t
<1>5. CASE i # 0
  <2>1. i \in 1..Len(events) /\ i - 1 \in 0..Len(t)
    BY <1>1, <1>5
  <2>2. Balance(t, i - 1, next, value)
    BY <1>2, <2>1, BalanceTake DEF t
  <2>3. i - 1 = 0 \/ t[i - 1].kind = "change"
    BY <1>1, <1>2, <2>1
  <2>4. ASSUME NEW j \in (i - 1) + 1..Len(t) PROVE t[j].kind # "change"
    <3>1. j + 1 \in i + 1..Len(events) /\ t[j] = events[j + 1]
      BY <1>1, <2>1
    <3> QED
      BY <1>2, <3>1
  <2> QED
    BY <2>1, <2>2, <2>3, <2>4 DEF CalcFollows, t
<1> QED
  BY <1>4, <1>5

-----------------------------------------------------------------------------
(* Types *)

LEMMA CommandTypes ==
    /\ \A total \in Nat : CalcChange(total) \in Commands /\ CalcChange(total).kind = "calcChange"
    /\ \A payee \in Peers \cup {Nobody, "swap"}, amount, fee \in Nat :
          /\ StartTransaction(payee, amount, fee) \in Commands
          /\ StartTransaction(payee, amount, fee).kind # "calcChange"
BY DEF CalcChange, StartTransaction, Commands

\* The least fee, and a fee cut to its width, are numbers.
LEMMA FeeTypes ==
    /\ DefaultFee \in Nat /\ Fork1Fee \in Nat /\ (MoneyTypeOK => minFee \in Nat)
    /\ \A fee \in Nat : fee % FeeRange \in Nat
<1>1. FeeRange \in Nat \ {0}
  BY PagesAssumption DEF SendConstants
<1>2. DefaultFee \in Nat /\ Fork1Fee \in Nat
  BY LeastFeesAssumption
<1> QED
  BY <1>1, <1>2 DEF MoneyTypeOK

LEMMA AskType ==
    ASSUME NEW asks \in Seq(Commands), requests \in Seq(Commands), Ask(asks)
    PROVE  requests' \in Seq(Commands)
BY DEF Ask

LEMMA AskOne ==
    ASSUME NEW c \in Commands, requests \in Seq(Commands), Ask(<<c>>)
    PROVE  requests' = requests \o <<c>> /\ requests' \in Seq(Commands)
<1>1. <<c>> \in Seq(Commands)
  OBVIOUS
<1> QED
  BY <1>1, AskType DEF Ask

LEMMA PostType ==
    ASSUME NEW e \in MoneyEvents, posted \in Seq(MoneyEvents), Post(e)
    PROVE  posted' = Append(posted, e) /\ posted' \in Seq(MoneyEvents)
BY DEF Post

LEMMA ShortDialogs == Len(<<>>) <= 1 /\ \A r : Len(<<r>>) <= 1
OBVIOUS

LEMMA InitType == Init => TypeOK
<1> SUFFICES ASSUME Init PROVE TypeOK
  OBVIOUS
<1>1. coins \in Holdings /\ calcCoins \in Holdings /\ available = SumSet(coins)
      /\ requests = <<>> /\ posted = <<>>
  BY DEF Init, MoneyInit
<1>2. available \in Nat
  BY <1>1, ChangeFacts
<1>3. requests \in Seq(Commands) /\ posted \in Seq(MoneyEvents)
  BY <1>1
<1>4. SendTypeOK
  BY ShortDialogs DEF Init, SendClosed, SendTypeOK, NoInputs
<1>5. SwapTypeOK
  BY DEF Init, SwapClosed, SwapTypeOK, NoSwapInputs
<1>6. minFee \in {DefaultFee, Fork1Fee}
  BY DEF Init, MoneyInit
<1> QED
  BY <1>1, <1>2, <1>3, <1>4, <1>5, <1>6 DEF TypeOK, MoneyTypeOK

\* The wallet's steps leave the pages alone.
LEMMA WalletType ==
    ASSUME TypeOK, WalletStep, UNCHANGED <<sendVars, swapVars>>
    PROVE  TypeOK'
<1> USE DEF TypeOK, MoneyTypeOK
<1>p. SendTypeOK' /\ SwapTypeOK'
  BY DEF SendTypeOK, SwapTypeOK, sendVars, swapVars
<1>1. CASE MoneyMoves
  <2>1. coins' \in Holdings /\ UNCHANGED <<requests, available, minFee, calcCoins>>
    BY <1>1 DEF MoneyMoves
  <2>2. [kind |-> "status", amount |-> SumSet(coins')] \in MoneyEvents
    BY <2>1, ChangeFacts DEF MoneyEvents
  <2>3. posted' \in Seq(MoneyEvents)
    BY <1>1, <2>2, PostType DEF MoneyMoves
  <2> QED
    BY <1>p, <2>1, <2>3
<1>2. CASE AnswerCalcChange
  <2>1. requests' \in Seq(Commands) /\ Head(requests) \in Commands
    BY <1>2, TailFacts DEF AnswerCalcChange
  <2>2. Head(requests).total \in Nat
    BY <1>2, <2>1 DEF AnswerCalcChange, Commands
  <2>3. [kind |-> "change", amount |-> ChangeOf(coins, Head(requests).total)] \in MoneyEvents
    BY <2>2, ChangeFacts DEF MoneyEvents
  <2>4. posted' \in Seq(MoneyEvents)
    BY <1>2, <2>3, PostType DEF AnswerCalcChange
  <2> QED
    BY <1>2, <1>p, <2>1, <2>4 DEF AnswerCalcChange
<1>3. CASE AnswerStartTransaction
  <2>1. PICK kind \in {"verified", "expired"} : Post([kind |-> kind])
    BY <1>3 DEF AnswerStartTransaction
  <2>2. posted' \in Seq(MoneyEvents)
    BY <2>1, PostType DEF MoneyEvents
  <2>3. requests' \in Seq(Commands)
    BY <1>3, TailFacts DEF AnswerStartTransaction
  <2> QED
    BY <1>3, <1>p, <2>2, <2>3 DEF AnswerStartTransaction
<1>4. CASE Fork1
  BY <1>4, <1>p DEF Fork1
<1> QED
  BY <1>1, <1>2, <1>3, <1>4 DEF WalletStep

\* What the text in the field says is in the parameters, and on the page if the
\* page shows it; the last question is about the amount and fee it leaves.
LEMMA Extracted ==
    ASSUME TypeOK, NEW to \in Payees, ExtractParameters(to)
    PROVE  /\ peer' \in Peers \cup {Nobody} /\ shownPeer' \in Peers \cup {Nobody}
           /\ sendAmount' \in Nat /\ sendFee' \in Nat
           /\ \E asks \in Seq(Commands) :
                 /\ requests' = requests \o asks
                 /\ asks = <<>> => UNCHANGED <<sendAmount, sendFee>>
                 /\ asks # <<>> => asks[Len(asks)] = CalcChange(sendAmount' + sendFee')
           /\ \A asked \in ParamsOf[to] :
                 /\ peer' = asked.peer
                 /\ asked.peer # Nobody => shownPeer' = asked.peer
<1>c. ParamsOf[to] \subseteq Params /\ \A asked, other \in ParamsOf[to] : asked = other
  BY PagesAssumption DEF SendConstants
<1>t. /\ requests \in Seq(Commands) /\ sendAmount \in Nat /\ sendFee \in Nat
      /\ peer \in Peers \cup {Nobody} /\ shownPeer \in Peers \cup {Nobody}
  BY DEF TypeOK, SendTypeOK
<1>1. CASE ParamsOf[to] = {} /\ UNCHANGED <<peer, shownPeer, sendAmount, sendFee, requests>>
  <2>1. <<>> \in Seq(Commands) /\ requests' = requests \o <<>>
    BY <1>t, <1>1
  <2> QED
    BY <1>t, <1>1, <2>1
<1>2. ASSUME NEW asked \in ParamsOf[to],
             LET setsAmount == asked.amount > 0 /\ asked.amount # sendAmount
                 fees == {fee % FeeRange : fee \in asked.fee} \ {sendFee}
             IN /\ peer' = asked.peer
                /\ shownPeer' = IF asked.peer = Nobody THEN shownPeer ELSE asked.peer
                /\ sendAmount' = IF setsAmount THEN asked.amount ELSE sendAmount
                /\ IF fees # {} THEN sendFee' \in fees ELSE UNCHANGED sendFee
                /\ Ask((IF setsAmount THEN <<CalcChange(sendAmount' + sendFee)>> ELSE <<>>)
                       \o (IF fees # {} THEN <<CalcChange(sendAmount' + sendFee')>> ELSE <<>>))
      PROVE  /\ peer' \in Peers \cup {Nobody} /\ shownPeer' \in Peers \cup {Nobody}
             /\ sendAmount' \in Nat /\ sendFee' \in Nat
             /\ \E asks \in Seq(Commands) :
                   /\ requests' = requests \o asks
                   /\ asks = <<>> => UNCHANGED <<sendAmount, sendFee>>
                   /\ asks # <<>> => asks[Len(asks)] = CalcChange(sendAmount' + sendFee')
             /\ peer' = asked.peer /\ (asked.peer # Nobody => shownPeer' = asked.peer)
  <2> DEFINE setsAmount == asked.amount > 0 /\ asked.amount # sendAmount
             fees == {fee % FeeRange : fee \in asked.fee} \ {sendFee}
             one == IF setsAmount THEN <<CalcChange(sendAmount' + sendFee)>> ELSE <<>>
             two == IF fees # {} THEN <<CalcChange(sendAmount' + sendFee')>> ELSE <<>>
  <2>1. asked.peer \in Peers \cup {Nobody} /\ asked.amount \in Nat /\ asked.fee \subseteq Nat
    BY <1>c DEF Params
  <2>2. fees \subseteq Nat
    BY <2>1, FeeTypes
  <2>3. /\ peer' = asked.peer
        /\ shownPeer' = IF asked.peer = Nobody THEN shownPeer ELSE asked.peer
        /\ sendAmount' = IF setsAmount THEN asked.amount ELSE sendAmount
        /\ IF fees # {} THEN sendFee' \in fees ELSE UNCHANGED sendFee
        /\ Ask(one \o two)
    BY <1>2
  <2> HIDE DEF fees
  <2>4. sendAmount' \in Nat /\ sendFee' \in Nat
    BY <1>t, <2>1, <2>2, <2>3
  <2>5. CalcChange(sendAmount' + sendFee) \in Commands
        /\ CalcChange(sendAmount' + sendFee') \in Commands
    <3>1. \A a, b \in Nat : a + b \in Nat
      OBVIOUS
    <3> QED
      BY <1>t, <2>4, <3>1, CommandTypes
  <2>6. one \o two \in Seq(Commands)
    BY <2>5
  <2>7. one \o two # <<>> => (one \o two)[Len(one \o two)] = CalcChange(sendAmount' + sendFee')
    <3>1. CASE fees # {}
      BY <2>5, <3>1
    <3>2. CASE fees = {}
      <4>1. UNCHANGED sendFee
        BY <2>3, <3>2
      <4> QED
        BY <2>5, <3>2, <4>1
    <3> QED
      BY <3>1, <3>2
  <2>8. one \o two = <<>> => UNCHANGED <<sendAmount, sendFee>>
    <3>1. one \o two = <<>> => fees = {} /\ ~setsAmount
      OBVIOUS
    <3> QED
      BY <2>3, <3>1
  <2>9. requests' = requests \o (one \o two)
    BY <2>3 DEF Ask
  <2> HIDE DEF one, two
  <2> QED
    BY <1>t, <2>1, <2>3, <2>4, <2>6, <2>7, <2>8, <2>9
<1>3. CASE \E asked \in ParamsOf[to] : peer' = asked.peer
  BY <1>c, <1>1, <1>2, <1>3 DEF ExtractParameters
<1> QED
  BY <1>c, <1>1, <1>2 DEF ExtractParameters

LEMMA SendType ==
    ASSUME TypeOK, SendStep, UNCHANGED swapVars
    PROVE  TypeOK'
<1> USE DEF TypeOK, MoneyTypeOK, SendTypeOK
<1>p. SwapTypeOK'
  BY DEF SwapTypeOK, swapVars
<1>c. SendConstants
  BY PagesAssumption
<1>b. ASSUME CanSendChanged, UNCHANGED <<available, minFee>>
      PROVE  sendEnabled' \in BOOLEAN /\ evaluatedAt' \in [available : Nat, minFee : Nat]
  BY <1>b, FeeTypes DEF CanSendChanged, CanSend, IsEnough, SendInputs
<1>1. CASE SendOpens
  <2>1. minFee \in Nat /\ Ask(<<CalcChange(minFee)>>)
    BY <1>1, FeeTypes DEF SendOpens
  <2>2. requests' \in Seq(Commands)
    BY <2>1, CommandTypes, AskOne
  <2> QED
    BY <1>1, <1>b, <1>p, <2>1, <2>2 DEF SendOpens
<1>2. ASSUME NEW fee \in Nat, SetFeeGrothes(fee) PROVE TypeOK'
  <2>1. requests' \in Seq(Commands)
    BY <1>2, CommandTypes, AskOne DEF SetFeeGrothes
  <2> QED
    BY <1>2, <1>b, <1>p, <2>1 DEF SetFeeGrothes
<1>3. ASSUME NEW amount \in Nat, SetSendAmount(amount) PROVE TypeOK'
  <2>1. requests' \in Seq(Commands)
    BY <1>3, CommandTypes, AskOne DEF SetSendAmount
  <2> QED
    BY <1>3, <1>b, <1>p, <2>1 DEF SetSendAmount
<1>4. ASSUME NEW to \in Payees \cup {Nobody}, SetReceiverTA(to) PROVE TypeOK'
  <2>1. /\ receiver' \in Payees \cup {Nobody}
        /\ UNCHANGED <<sendOpen, change, confirm, coins, posted, available, minFee, calcCoins>>
        /\ CanSendChanged
    BY <1>4 DEF SetReceiverTA
  <2>2. /\ peer' \in Peers \cup {Nobody} /\ shownPeer' \in Peers \cup {Nobody}
        /\ sendAmount' \in Nat /\ sendFee' \in Nat /\ requests' \in Seq(Commands)
    <3>1. CASE to \in Payees
      <4>1. ExtractParameters(to)
        BY <1>4, <3>1 DEF SetReceiverTA
      <4>2. PICK asks \in Seq(Commands) : requests' = requests \o asks
        BY <3>1, <4>1, Extracted
      <4>3. requests' \in Seq(Commands)
        BY <4>2
      <4> QED
        BY <3>1, <4>1, <4>3, Extracted
    <3>2. CASE to \notin Payees
      BY <1>4, <3>2 DEF SetReceiverTA
    <3> QED
      BY <3>1, <3>2
  <2> QED
    BY <1>b, <1>p, <2>1, <2>2
<1>5. CASE ClickSend
  BY <1>5, <1>p DEF ClickSend, moneyVars
<1>6. CASE SendMoney
  <2>1. \A whom \in ReadPeer : StartTransaction(whom, sendAmount, sendFee) \in Commands
    BY CommandTypes DEF ReadPeer
  <2>2. requests' \in Seq(Commands)
    <3>1. CASE CanSendNow
      BY <1>6, <2>1, <3>1, AskOne DEF SendMoney
    <3>2. CASE ~CanSendNow
      BY <1>6, <3>2 DEF SendMoney
    <3> QED
      BY <3>1, <3>2
  <2> QED
    BY <1>6, <1>p, <2>2 DEF SendMoney
<1>7. CASE RejectSend
  BY <1>7, <1>p DEF RejectSend, moneyVars
<1>8. CASE SendBack
  BY <1>8, <1>p, ShortDialogs DEF SendBack, SendClose, NoInputs, moneyVars
<1>9. MaxAvailable \in Nat /\ Fees \subseteq Nat /\ Amounts \subseteq Nat
  BY <1>c DEF MaxAvailable, SendConstants
<1> QED
  BY <1>1, <1>2, <1>3, <1>4, <1>5, <1>6, <1>7, <1>8, <1>9 DEF SendStep, SetMaxAvailableAmount

\* What a button is evaluated with.
SwapInputsType == [coin : Nat, minFee : Nat, expired : BOOLEAN]

LEMMA SwapEvaluated ==
    ASSUME SwapInputs' \in SwapInputsType, SwapCanSendChanged
    PROVE  swapEnabled' \in BOOLEAN /\ swapSeen' \in SwapInputsType
BY DEF SwapCanSendChanged, SwapCanSend, SwapIsEnough, SwapInputsType

\* What canSend reads has its types while the page leaves it alone.
LEMMA SwapInputsTypes ==
    ASSUME MoneyTypeOK', SwapTypeOK, UNCHANGED <<coinAvailable, expired>>
    PROVE  SwapInputs' \in SwapInputsType
<1>1. coinAvailable' \in Nat /\ expired' \in BOOLEAN
  BY PagesAssumption DEF SwapConstants, SwapTypeOK
<1>2. minFee' \in Nat
  <2>1. minFee' \in {DefaultFee, Fork1Fee}
    BY DEF MoneyTypeOK
  <2> QED
    BY <2>1, FeeTypes
<1> QED
  BY <1>1, <1>2 DEF SwapInputs, SwapInputsType

LEMMA RecalcType ==
    ASSUME requests \in Seq(Commands), swapEnabled \in BOOLEAN, swapSeen \in SwapInputsType,
           SwapInputs' \in SwapInputsType, swapAmount' \in Nat, swapFee' \in Nat,
           RecalcAvailable
    PROVE  /\ requests' \in Seq(Commands) /\ swapChange' = 0
           /\ swapEnabled' \in BOOLEAN /\ swapSeen' \in SwapInputsType
<1>1. CASE payHds'
  BY <1>1, CommandTypes, AskOne DEF RecalcAvailable
<1>2. CASE ~payHds'
  BY <1>2, SwapEvaluated DEF RecalcAvailable
<1> QED
  BY <1>1, <1>2

LEMMA SwapType ==
    ASSUME TypeOK, SwapStep, UNCHANGED sendVars
    PROVE  TypeOK'
<1> USE DEF TypeOK, MoneyTypeOK, SwapTypeOK
<1>p. SendTypeOK'
  BY DEF SendTypeOK, sendVars
<1>c. SwapFees \subseteq Nat
  BY PagesAssumption DEF SwapConstants
<1>m. /\ UNCHANGED <<coins, posted, available, minFee, calcCoins>>
      /\ swapSeen \in SwapInputsType
  BY DEF SwapStep, SetSendFee, SetReceiveFee, ClickSwap, AcceptSwap, RejectSwap, SwapBack,
     CoinMoves, Expire, moneyVars, SwapInputsType
<1>e. MoneyTypeOK' /\ (UNCHANGED <<coinAvailable, expired>> => SwapInputs' \in SwapInputsType)
  BY <1>m, SwapInputsTypes
<1>1. ASSUME NEW fee \in Nat, SetSendFee(fee) PROVE TypeOK'
  <2>1. /\ requests' \in Seq(Commands) /\ swapChange' = 0
        /\ swapEnabled' \in BOOLEAN /\ swapSeen' \in SwapInputsType
    BY <1>1, <1>m, <1>e, RecalcType DEF SetSendFee
  <2> QED
    BY <1>1, <1>p, <1>e, <2>1 DEF SetSendFee, SwapInputsType
<1>2. CASE SetReceiveFee
  <2>1. swapEnabled' \in BOOLEAN /\ swapSeen' \in SwapInputsType
    BY <1>2, <1>e, SwapEvaluated DEF SetReceiveFee
  <2> QED
    BY <1>2, <1>p, <1>e, <2>1 DEF SetReceiveFee, moneyVars, SwapInputsType
<1>3. CASE ClickSwap
  BY <1>3, <1>p DEF ClickSwap, moneyVars
<1>4. CASE AcceptSwap
  <2>1. requests' \in Seq(Commands)
    BY <1>4, CommandTypes, AskOne DEF AcceptSwap
  <2> QED
    BY <1>4, <1>p, <2>1 DEF AcceptSwap, SwapClose, NoSwapInputs
<1>5. CASE RejectSwap
  BY <1>5, <1>p DEF RejectSwap, moneyVars
<1>6. CASE SwapBack
  BY <1>6, <1>p DEF SwapBack, SwapClose, NoSwapInputs, moneyVars
<1>7. CASE CoinMoves \/ Expire
  BY <1>7, <1>p DEF CoinMoves, Expire, moneyVars
<1> QED
  BY <1>1, <1>2, <1>3, <1>4, <1>5, <1>6, <1>7, <1>c DEF SwapStep

\* The questions of a page that opens; the last one is about an offer in hds.
LEMMA SwapOpensAsks ==
    ASSUME NEW offer \in Offers, SwapOpens(offer), requests \in Seq(Commands), MoneyTypeOK
    PROVE  /\ offer.payHds \in BOOLEAN /\ swapAmount' \in Nat /\ swapFee' \in Nat
           /\ \E asks \in Seq(Commands), total \in Nat :
                 /\ asks # <<>> /\ requests' = requests \o asks
                 /\ asks[Len(asks)] = CalcChange(total)
                 /\ payHds' => total = swapAmount' + swapFee'
<1>1. offer.payHds \in BOOLEAN /\ offer.amount \in Nat /\ minFee \in Nat /\ CoinFee \in Nat
  BY PagesAssumption, FeeTypes DEF SwapConstants
<1>2. /\ payHds' = offer.payHds /\ swapAmount' = offer.amount
      /\ swapFee' = IF offer.payHds THEN minFee ELSE CoinFee
  BY DEF SwapOpens, SwapFilled
<1>3. CASE offer.payHds /\ offer.amount # 0
  <2> DEFINE asks == <<CalcChange(minFee)>> \o <<CalcChange(offer.amount + minFee)>>
  <2>1. requests' = requests \o asks
    BY <1>3 DEF SwapOpens, Ask
  <2>2. asks \in Seq(Commands) /\ asks # <<>>
        /\ asks[Len(asks)] = CalcChange(offer.amount + minFee)
    BY <1>1, CommandTypes
  <2> HIDE DEF asks
  <2> QED
    BY <1>1, <1>2, <1>3, <2>1, <2>2
<1>4. CASE ~(offer.payHds /\ offer.amount # 0)
  <2> DEFINE asks == <<CalcChange(minFee)>>
  <2>1. requests' = requests \o (asks \o <<>>)
    BY <1>4 DEF SwapOpens, Ask
  <2>2. /\ asks \in Seq(Commands) /\ asks # <<>> /\ asks \o <<>> = asks
        /\ asks[Len(asks)] = CalcChange(minFee)
    BY <1>1, CommandTypes
  <2>3. offer.payHds => swapAmount' + swapFee' = minFee
    BY <1>1, <1>2, <1>4
  <2> HIDE DEF asks
  <2> QED
    BY <1>1, <1>2, <2>1, <2>2, <2>3
<1> QED
  BY <1>3, <1>4

LEMMA OpenSwapType ==
    ASSUME TypeOK, NEW offer \in Offers, OpenSwap(offer)
    PROVE  TypeOK'
<1> USE DEF TypeOK, MoneyTypeOK
<1>1. SendTypeOK'
  <2>1. CASE SendClose
    BY <2>1, ShortDialogs DEF SendClose, NoInputs, SendTypeOK
  <2>2. CASE UNCHANGED sendVars
    BY <2>2 DEF sendVars, SendTypeOK
  <2> QED
    BY <2>1, <2>2 DEF OpenSwap
<1>2. SwapOpens(offer)
  BY DEF OpenSwap
<1>3. requests' \in Seq(Commands)
  <2>1. PICK asks \in Seq(Commands) : requests' = requests \o asks
    BY <1>2, SwapOpensAsks
  <2> QED
    BY <2>1
<1>4. SwapTypeOK' /\ UNCHANGED <<coins, posted, available, minFee, calcCoins>>
  <2>1. SwapFilled(offer) /\ swapAmount' \in Nat /\ swapFee' \in Nat /\ offer.payHds \in BOOLEAN
    BY <1>2, SwapOpensAsks DEF SwapOpens
  <2>2. coinAvailable' \in CoinBalances \cup {0} /\ expired' \in BOOLEAN /\ minFee' \in Nat
    BY <2>1, FeeTypes DEF SwapFilled
  <2>3. swapSeen' \in [coin : Nat, minFee : Nat, expired : BOOLEAN]
    BY <2>1, <2>2, PagesAssumption DEF SwapFilled, SwapInputs, SwapConstants
  <2> QED
    BY <2>1, <2>2, <2>3 DEF SwapFilled, SwapTypeOK
<1> QED
  BY <1>1, <1>3, <1>4

LEMMA EventFacts ==
    ASSUME TypeOK, OnEvent
    PROVE  /\ posted # <<>> /\ Head(posted) = posted[1] /\ posted[1] \in MoneyEvents
           /\ posted' = Tail(posted) /\ posted' \in Seq(MoneyEvents)
           /\ posted[1].kind \in {"status", "change"} => posted[1].amount \in Nat
           /\ available' = IF posted[1].kind = "status" THEN posted[1].amount ELSE available
           /\ available' \in Nat /\ UNCHANGED <<coins, minFee, calcCoins>>
           /\ SendOnEvent(posted[1]) /\ SwapOnEvent(posted[1])
<1>1. posted \in Seq(MoneyEvents) /\ posted # <<>>
  BY DEF TypeOK, MoneyTypeOK, OnEvent, TakeEvent
<1>2. Head(posted) = posted[1] /\ posted[1] \in MoneyEvents /\ Tail(posted) \in Seq(MoneyEvents)
  BY <1>1, TailFacts
<1>3. posted[1].kind \in {"status", "change"} => posted[1].amount \in Nat
  BY <1>2 DEF MoneyEvents
<1> QED
  BY <1>1, <1>2, <1>3 DEF TypeOK, MoneyTypeOK, OnEvent, TakeEvent

LEMMA EventType ==
    ASSUME TypeOK, OnEvent
    PROVE  TypeOK'
<1> USE EventFacts
<1> DEFINE e == posted[1]
<1>m. MoneyTypeOK'
  BY DEF TypeOK, MoneyTypeOK
<1>1. SendTypeOK'
  <2> USE DEF TypeOK, SendTypeOK
  <2>1. CASE sendOpen /\ e.kind = "change" /\ OnChangeCalculated(e.amount)
    <3>1. minFee' \in Nat
      BY FeeTypes, <1>m
    <3> QED
      BY <2>1, <3>1 DEF OnChangeCalculated, CanSendChanged, CanSend, IsEnough, SendInputs
  <2>2. CASE SendClose
    BY <2>2, ShortDialogs DEF SendClose, NoInputs
  <2>3. CASE UNCHANGED sendVars
    BY <2>3 DEF sendVars
  <2> QED
    BY <2>1, <2>2, <2>3 DEF SendOnEvent
<1>2. SwapTypeOK' /\ requests' \in Seq(Commands)
  <2> USE DEF TypeOK, SwapTypeOK
  <2>1. CASE swapOpen /\ e.kind = "change" /\ SwapOnChangeCalculated(e.amount)
    <3>1. swapEnabled' \in BOOLEAN /\ swapSeen' \in SwapInputsType
      BY <1>m, <2>1, SwapInputsTypes, SwapEvaluated DEF SwapOnChangeCalculated
    <3> QED
      BY <2>1, <3>1 DEF SwapOnChangeCalculated, SwapInputsType
  <2>2. CASE /\ UNCHANGED <<swapOpen, payHds, swapAmount, swapFee, swapConfirm, coinAvailable,
                            expired>>
             /\ RecalcAvailable
    <3>1. /\ requests' \in Seq(Commands) /\ swapChange' = 0
          /\ swapEnabled' \in BOOLEAN /\ swapSeen' \in SwapInputsType
      <4>1. SwapInputs' \in SwapInputsType /\ swapSeen \in SwapInputsType
        BY <1>m, <2>2, SwapInputsTypes DEF SwapInputsType
      <4> QED
        BY <2>2, <4>1, RecalcType
    <3> QED
      BY <2>2, <3>1 DEF SwapInputsType
  <2>3. CASE UNCHANGED <<swapVars, requests>>
    BY <2>3 DEF swapVars
  <2> QED
    BY <2>1, <2>2, <2>3 DEF SwapOnEvent
<1> QED
  BY <1>1, <1>2 DEF TypeOK, MoneyTypeOK

LEMMA StepType == TypeOK /\ [Next]_vars => TypeOK'
<1> SUFFICES ASSUME TypeOK, [Next]_vars PROVE TypeOK'
  OBVIOUS
<1>1. CASE UNCHANGED vars
  BY <1>1 DEF vars, moneyVars, sendVars, swapVars, TypeOK, MoneyTypeOK, SendTypeOK, SwapTypeOK
<1>2. CASE Next
  BY <1>2, WalletType, SendType, SwapType, OpenSwapType, EventType DEF Next
<1> QED
  BY <1>1, <1>2

-----------------------------------------------------------------------------
(* The invariant *)

IInv == TypeOK /\ PagesInv

LEMMA InitPages == Init => PagesInv
<1> SUFFICES ASSUME Init PROVE PagesInv
  OBVIOUS
<1>1. posted = <<>> /\ available = SumSet(coins) /\ ~sendOpen /\ ~swapOpen
      /\ confirm = <<>> /\ receiver = Nobody
  BY DEF Init, MoneyInit, SendClosed, SwapClosed
<1>2. BalanceFollows
  <2>1. 1..Len(posted) = {}
    BY <1>1
  <2> QED
    BY <1>1, <2>1 DEF BalanceFollows, Balance
<1>3. Nobody \notin Payees
  BY PagesAssumption DEF SendConstants
<1> QED
  BY <1>1, <1>2, <1>3 DEF Init, PagesInv, OnePage, ClosedIsReset, SendFollows, SwapFollows,
     ButtonOfEvaluation, SwapButtonOfEvaluation, ConfirmIsOfPage, PeerIsOfReceiver

\* What the pages show and what is answered, when neither changes.
LEMMA PagesKept ==
    ASSUME PagesInv, UNCHANGED <<sendVars, swapVars>>
    PROVE  /\ OnePage' /\ ClosedIsReset' /\ ConfirmIsOfPage' /\ ButtonOfEvaluation'
           /\ PeerIsOfReceiver'
BY DEF PagesInv, OnePage, ClosedIsReset, SendClosed, ConfirmIsOfPage, ButtonOfEvaluation,
   PeerIsOfReceiver, sendVars, swapVars

\* The wallet posts something that is no answer to a question, which may be the
\* answer to another command.
LEMMA OtherEvent ==
    ASSUME IInv, UNCHANGED <<sendVars, swapVars>>, UNCHANGED <<available, calcCoins>>,
           NEW e \in MoneyEvents, e.kind # "change", posted' = Append(posted, e),
           BalanceFollows',
           \/ requests' = requests
           \/ requests # <<>> /\ requests[1].kind # "calcChange" /\ requests' = Tail(requests)
    PROVE  PagesInv'
<1>t. posted \in Seq(MoneyEvents) /\ requests \in Seq(Commands)
  BY DEF IInv, TypeOK, MoneyTypeOK
<1>i. PagesInv
  BY DEF IInv
<1>1. OnePage' /\ ClosedIsReset' /\ ConfirmIsOfPage' /\ ButtonOfEvaluation' /\ PeerIsOfReceiver'
  BY <1>i, PagesKept
<1>3. ASSUME NEW total, NEW shown, ChangeFollows(requests, posted, calcCoins, total, shown)
      PROVE  ChangeFollows(requests', posted', calcCoins, total, shown)
  <2>1. ChangeFollows(requests', posted, calcCoins, total, shown)
    BY <1>t, <1>3, FollowsDone
  <2> QED
    BY <1>t, <2>1, FollowsPost
<1>4. (NoneAsked(requests') <=> NoneAsked(requests))
      /\ (NoneAnswered(posted') <=> NoneAnswered(posted))
  BY <1>t, TailAsked, AppendAnswered
<1>5. SendFollows'
  BY <1>i, <1>3 DEF PagesInv, SendFollows, sendVars
<1>6. SwapFollows'
  <2>1. SwapFollows /\ UNCHANGED <<swapOpen, payHds, swapAmount, swapFee, swapChange>>
    BY <1>i DEF PagesInv, swapVars
  <2>2. CalcFollows(posted, available, SumSet(calcCoins)) =>
            CalcFollows(posted', available, SumSet(calcCoins))
    BY <1>t, CalcPost
  <2> QED
    BY <1>3, <1>4, <2>1, <2>2 DEF SwapFollows
<1>7. SwapButtonOfEvaluation'
  BY <1>i, <1>4 DEF PagesInv, SwapButtonOfEvaluation, Settled, swapVars
<1> QED
  BY <1>1, <1>5, <1>6, <1>7 DEF PagesInv

\* The wallet tells its balance whenever its coins change.
LEMMA BalanceTold ==
    ASSUME IInv, UNCHANGED available,
           NEW e \in MoneyEvents, posted' = Append(posted, e), NEW value,
           \/ e.kind = "status" /\ e.amount = value
           \/ e.kind # "status" /\ value = SumSet(coins)
    PROVE  Balance(posted', Len(posted'), available', value)
<1>t. posted \in Seq(MoneyEvents)
  BY DEF IInv, TypeOK, MoneyTypeOK
<1>n. Len(posted') = Len(posted) + 1 /\ Len(posted) \in 0..Len(posted)
  BY <1>t, AppendFacts
<1>1. Balance(posted, Len(posted), available, SumSet(coins))
  BY DEF IInv, PagesInv, BalanceFollows
<1>2. Balance(posted', Len(posted) + 1, available, value)
  BY <1>t, <1>n, <1>1, BalancePost
<1> QED
  BY <1>n, <1>2

LEMMA WalletPages ==
    ASSUME IInv, WalletStep, UNCHANGED <<sendVars, swapVars>>
    PROVE  PagesInv'
<1>t. posted \in Seq(MoneyEvents) /\ requests \in Seq(Commands) /\ coins \in Holdings
  BY DEF IInv, TypeOK, MoneyTypeOK
<1>1. CASE MoneyMoves
  <2>1. coins' \in Holdings /\ UNCHANGED <<requests, available, calcCoins>>
        /\ Post([kind |-> "status", amount |-> SumSet(coins')])
    BY <1>1 DEF MoneyMoves
  <2>2. PICK e \in MoneyEvents : e.kind = "status" /\ e.amount = SumSet(coins') /\ Post(e)
    BY <2>1, ChangeFacts DEF MoneyEvents
  <2>3. posted' = Append(posted, e)
    BY <1>t, <2>1, <2>2, PostType
  <2>4. BalanceFollows'
    BY <2>1, <2>2, <2>3, BalanceTold DEF BalanceFollows
  <2>5. UNCHANGED <<available, calcCoins>> /\ requests' = requests
    BY <2>1
  <2>6. e.kind # "change"
    BY <2>2
  <2> QED
    BY <2>3, <2>4, <2>5, <2>6, OtherEvent
<1>2. CASE AnswerCalcChange
  <2> DEFINE c == requests[1]
             e == [kind |-> "change", amount |-> ChangeOf(coins, c.total)]
  <2>0. requests # <<>> /\ c \in Commands /\ Head(requests) = c
    BY <1>t, <1>2, TailFacts DEF AnswerCalcChange
  <2>1. /\ c.kind = "calcChange" /\ requests' = Tail(requests) /\ Post(e) /\ calcCoins' = coins
        /\ UNCHANGED <<coins, available>>
    BY <1>2, <2>0 DEF AnswerCalcChange
  <2>2. c.total \in Nat
    BY <2>0, <2>1 DEF Commands
  <2>3. e \in MoneyEvents /\ e.kind = "change" /\ e.amount = ChangeOf(coins, c.total)
    BY <1>t, <2>2, ChangeFacts DEF MoneyEvents
  <2> HIDE DEF c, e
  <2>4. posted' = Append(posted, e)
    BY <1>t, <2>1, <2>3, PostType
  <2>i. PagesInv
    BY DEF IInv
  <2>5. Balance(posted, Len(posted), available, SumSet(coins))
    BY <2>i DEF PagesInv, BalanceFollows
  <2>6. BalanceFollows'
    BY <2>1, <2>3, <2>4, BalanceTold DEF BalanceFollows
  <2>7. ASSUME NEW total, NEW shown, ChangeFollows(requests, posted, calcCoins, total, shown)
        PROVE  ChangeFollows(requests', posted', coins, total, shown)
    BY <1>t, <2>0, <2>1, <2>3, <2>4, <2>7, FollowsAnswer DEF c
  <2>8. SendFollows'
    BY <2>i, <2>1, <2>7 DEF PagesInv, SendFollows, sendVars
  <2>9. CalcFollows(posted', available, SumSet(coins))
    BY <1>t, <2>3, <2>4, <2>5, CalcAnswer
  <2>10. SwapFollows'
    <3>1. SwapFollows /\ UNCHANGED <<swapOpen, payHds, swapAmount, swapFee, swapChange>>
      BY <2>i DEF PagesInv, swapVars
    <3> QED
      BY <2>1, <2>7, <2>9, <3>1 DEF SwapFollows
  <2>11. SwapButtonOfEvaluation'
    <3>1. ~NoneAnswered(posted')
      BY <1>t, <2>3, <2>4, AppendAnswered
    <3> QED
      BY <3>1 DEF SwapButtonOfEvaluation, Settled
  <2> QED
    BY <2>i, <2>6, <2>8, <2>10, <2>11, PagesKept DEF PagesInv
<1>3. CASE AnswerStartTransaction
  <2>1. PICK kind \in {"verified", "expired"} : Post([kind |-> kind])
    BY <1>3 DEF AnswerStartTransaction
  <2> DEFINE e == [kind |-> kind]
  <2>2. e \in MoneyEvents /\ e.kind \notin {"status", "change"}
    BY DEF MoneyEvents
  <2>3. Post(e)
    BY <2>1
  <2>4. /\ requests # <<>> /\ Head(requests).kind = "startTransaction"
        /\ requests' = Tail(requests) /\ UNCHANGED <<coins, available, calcCoins>>
    BY <1>3 DEF AnswerStartTransaction
  <2>5. requests[1].kind # "calcChange"
    BY <1>t, <2>4, TailFacts
  <2> HIDE DEF e
  <2>6. posted' = Append(posted, e)
    BY <1>t, <2>2, <2>3, PostType
  <2>7. BalanceFollows'
    BY <2>2, <2>4, <2>6, BalanceTold DEF BalanceFollows
  <2> QED
    BY <2>2, <2>4, <2>5, <2>6, <2>7, OtherEvent
<1>4. CASE Fork1
  <2>1. PagesInv /\ UNCHANGED <<coins, requests, posted, available, calcCoins, sendVars, swapVars>>
    BY <1>4 DEF IInv, Fork1
  <2>2. BalanceFollows' /\ SendFollows' /\ SwapFollows' /\ SwapButtonOfEvaluation'
    BY <2>1 DEF PagesInv, BalanceFollows, SendFollows, SwapFollows, SwapButtonOfEvaluation,
       Settled, sendVars, swapVars
  <2> QED
    BY <2>1, <2>2, PagesKept DEF PagesInv
<1> QED
  BY <1>1, <1>2, <1>3, <1>4 DEF WalletStep


\* The page asks: the last question is about what it shows then.
LEMMA SendAsks ==
    ASSUME requests \in Seq(Commands), NEW asks \in Seq(Commands), asks # <<>>,
           sendAmount' + sendFee' \in Nat,
           asks[Len(asks)] = CalcChange(sendAmount' + sendFee'), Ask(asks)
    PROVE  SendFollows'
<1>1. requests' = requests \o asks
  BY DEF Ask
<1>2. ChangeFollows(requests', posted', calcCoins', sendAmount' + sendFee', change')
  BY <1>1, FollowsAsk
<1> QED
  BY <1>2 DEF SendFollows

LEMMA SendAsksOne ==
    ASSUME requests \in Seq(Commands), NEW total \in Nat, total = sendAmount' + sendFee',
           Ask(<<CalcChange(total)>>)
    PROVE  SendFollows'
<1> DEFINE asks == <<CalcChange(total)>>
<1>1. asks \in Seq(Commands) /\ asks # <<>> /\ asks[Len(asks)] = CalcChange(total)
  BY CommandTypes
<1> HIDE DEF asks
<1> QED
  BY <1>1, SendAsks DEF asks

\* What the steps of the send page leave alone.
LEMMA SwapClosedKept ==
    ASSUME PagesInv, ~swapOpen, UNCHANGED swapVars, UNCHANGED <<coins, posted, available>>
    PROVE  OnePage' /\ BalanceFollows' /\ SwapFollows' /\ SwapButtonOfEvaluation'
BY DEF PagesInv, swapVars, OnePage, BalanceFollows, SwapFollows, SwapButtonOfEvaluation

LEMMA SendPagesStep ==
    ASSUME IInv, ~swapOpen, SendStep, UNCHANGED swapVars
    PROVE  PagesInv'
<1>t. /\ requests \in Seq(Commands) /\ sendAmount \in Nat /\ sendFee \in Nat
      /\ available \in Nat /\ minFee \in Nat
  BY FeeTypes DEF IInv, TypeOK, MoneyTypeOK, SendTypeOK
<1>i. PagesInv /\ ConfirmIsOfPage /\ ButtonOfEvaluation /\ SendFollows /\ ClosedIsReset
      /\ PeerIsOfReceiver
  BY DEF IInv, PagesInv
<1>c. SendConstants
  BY PagesAssumption
<1>s. ASSUME UNCHANGED <<coins, posted, available>>,
             SendFollows' /\ ButtonOfEvaluation' /\ ConfirmIsOfPage' /\ ClosedIsReset',
             PeerIsOfReceiver'
      PROVE  PagesInv'
  BY <1>i, <1>s, SwapClosedKept DEF PagesInv
<1>b. CanSendChanged => ButtonOfEvaluation'
  BY DEF CanSendChanged, ButtonOfEvaluation
<1>r. UNCHANGED <<receiver, peer, shownPeer, shownPeer>> => PeerIsOfReceiver'
  BY <1>i DEF PeerIsOfReceiver
<1>1. CASE SendOpens
  <2>1. minFee \in Nat /\ Ask(<<CalcChange(minFee)>>) /\ sendFee' = minFee
        /\ UNCHANGED <<receiver, peer, shownPeer, sendAmount, change, confirm, coins, posted,
                       available>>
        /\ CanSendChanged /\ ~sendOpen /\ sendOpen'
    BY <1>1, <1>t DEF SendOpens
  <2>2. SendFollows'
    <3>1. minFee = sendAmount' + sendFee'
      BY <1>i, <2>1 DEF ClosedIsReset, SendClosed
    <3> QED
      BY <1>t, <2>1, <3>1, SendAsksOne
  <2>3. ConfirmIsOfPage' /\ ClosedIsReset'
    BY <1>i, <2>1 DEF ConfirmIsOfPage, ClosedIsReset, SendClosed
  <2> QED
    BY <1>s, <1>b, <1>r, <2>1, <2>2, <2>3
<1>2. ASSUME NEW fee \in Nat, SetFeeGrothes(fee) PROVE PagesInv'
  <2>1. /\ confirm = <<>> /\ sendOpen /\ sendFee' = fee /\ Ask(<<CalcChange(sendAmount + fee)>>)
        /\ UNCHANGED <<sendOpen, receiver, peer, shownPeer, sendAmount, change, confirm,
                       coins, posted, available>>
        /\ CanSendChanged
    BY <1>2 DEF SetFeeGrothes, Editing
  <2>2. SendFollows'
    <3>1. sendAmount + fee \in Nat /\ sendAmount + fee = sendAmount' + sendFee'
      BY <1>t, <2>1
    <3> QED
      BY <1>t, <2>1, <3>1, SendAsksOne
  <2>3. ConfirmIsOfPage' /\ ClosedIsReset'
    BY <1>i, <2>1 DEF ConfirmIsOfPage, ClosedIsReset
  <2> QED
    BY <1>s, <1>b, <1>r, <2>1, <2>2, <2>3
<1>3. ASSUME NEW amount \in Nat, SetSendAmount(amount) PROVE PagesInv'
  <2>1. /\ confirm = <<>> /\ sendOpen /\ sendAmount' = amount
        /\ Ask(<<CalcChange(amount + sendFee)>>)
        /\ UNCHANGED <<sendOpen, receiver, peer, shownPeer, sendFee, change, confirm,
                       coins, posted, available>>
        /\ CanSendChanged
    BY <1>3 DEF SetSendAmount, Editing
  <2>2. SendFollows'
    <3>1. amount + sendFee \in Nat /\ amount + sendFee = sendAmount' + sendFee'
      BY <1>t, <2>1
    <3> QED
      BY <1>t, <2>1, <3>1, SendAsksOne
  <2>3. ConfirmIsOfPage' /\ ClosedIsReset'
    BY <1>i, <2>1 DEF ConfirmIsOfPage, ClosedIsReset
  <2> QED
    BY <1>s, <1>b, <1>r, <2>1, <2>2, <2>3
<1>4. ASSUME NEW to \in Payees \cup {Nobody}, SetReceiverTA(to) PROVE PagesInv'
  <2>1. /\ confirm = <<>> /\ sendOpen /\ receiver' = to
        /\ UNCHANGED <<sendOpen, change, confirm, coins, posted, available, calcCoins>>
        /\ CanSendChanged
    BY <1>4 DEF SetReceiverTA, Editing
  <2>2. CASE to \in Payees
    <3>1. ExtractParameters(to) /\ TypeOK
      BY <1>4, <2>2 DEF SetReceiverTA, IInv
    <3>2. PICK asks \in Seq(Commands) :
             /\ requests' = requests \o asks
             /\ asks = <<>> => UNCHANGED <<sendAmount, sendFee>>
             /\ asks # <<>> => asks[Len(asks)] = CalcChange(sendAmount' + sendFee')
      BY <2>2, <3>1, Extracted
    <3>3. sendAmount' + sendFee' \in Nat
      <4>1. sendAmount' \in Nat /\ sendFee' \in Nat /\ \A a, b \in Nat : a + b \in Nat
        BY <2>2, <3>1, Extracted
      <4> QED
        BY <4>1
    <3>4. SendFollows'
      <4>1. CASE asks = <<>>
        <5>1. requests' = requests
          BY <1>t, <3>2, <4>1
        <5> QED
          BY <1>i, <2>1, <3>2, <4>1, <5>1 DEF SendFollows
      <4>2. CASE asks # <<>>
        <5>1. ChangeFollows(requests', posted', calcCoins', sendAmount' + sendFee', change')
          BY <1>t, <3>2, <3>3, <4>2, FollowsAsk
        <5> QED
          BY <5>1 DEF SendFollows
      <4> QED
        BY <4>1, <4>2
    <3>5. PeerIsOfReceiver'
      BY <2>1, <2>2, <3>1, Extracted DEF PeerIsOfReceiver
    <3>6. ConfirmIsOfPage' /\ ClosedIsReset'
      BY <2>1 DEF ConfirmIsOfPage, ClosedIsReset
    <3> QED
      BY <1>s, <1>b, <2>1, <3>4, <3>5, <3>6
  <2>3. CASE to \notin Payees
    <3>1. UNCHANGED <<peer, shownPeer, sendAmount, sendFee, requests>>
      BY <1>4, <2>3 DEF SetReceiverTA
    <3>2. SendFollows' /\ ConfirmIsOfPage' /\ ClosedIsReset' /\ PeerIsOfReceiver'
      BY <1>i, <2>1, <2>3, <3>1 DEF SendFollows, ConfirmIsOfPage, ClosedIsReset,
         PeerIsOfReceiver
    <3> QED
      BY <1>s, <1>b, <2>1, <3>2
  <2> QED
    BY <2>2, <2>3
<1>5. CASE ClickSend
  <2>1. /\ sendOpen /\ confirm' = <<[payee |-> shownPeer, amount |-> sendAmount, fee |-> sendFee]>>
        /\ UNCHANGED <<moneyVars, sendOpen, receiver, peer, shownPeer, sendAmount, sendFee,
                       change, sendEnabled, evaluatedAt>>
    BY <1>5 DEF ClickSend, Editing
  <2> QED
    BY <1>s, <1>i, <1>r, <2>1 DEF SendFollows, ButtonOfEvaluation, ConfirmIsOfPage, moneyVars,
       ClosedIsReset, SendClosed
<1>6. CASE SendMoney
  <2>1. /\ confirm' = <<>>
        /\ UNCHANGED <<coins, posted, available, calcCoins, sendOpen, receiver, peer, shownPeer,
                       sendAmount, sendFee, change, sendEnabled, evaluatedAt>>
    BY <1>6 DEF SendMoney
  <2>2. SendFollows'
    <3>1. CASE CanSendNow
      <4>1. PICK whom \in ReadPeer : Ask(<<StartTransaction(whom, sendAmount, sendFee)>>)
        BY <1>6, <3>1 DEF SendMoney
      <4> DEFINE c == StartTransaction(whom, sendAmount, sendFee)
      <4>2. c \in Commands /\ c.kind # "calcChange"
        <5>1. whom \in Peers \cup {Nobody, "swap"}
          BY DEF IInv, TypeOK, SendTypeOK, ReadPeer
        <5> QED
          BY <1>t, <5>1, CommandTypes
      <4>3. requests' = requests \o <<c>>
        BY <4>1 DEF Ask
      <4> HIDE DEF c
      <4>4. ASSUME NEW total, ChangeFollows(requests, posted, calcCoins, total, change)
            PROVE  ChangeFollows(requests', posted, calcCoins, total, change)
        BY <1>t, <4>2, <4>3, <4>4, FollowsOther
      <4> QED
        BY <1>i, <2>1, <4>4 DEF SendFollows
    <3>2. CASE ~CanSendNow
      BY <1>i, <1>6, <2>1, <3>2 DEF SendMoney, SendFollows
    <3> QED
      BY <3>1, <3>2
  <2> QED
    BY <1>s, <1>i, <1>r, <2>1, <2>2 DEF ButtonOfEvaluation, ConfirmIsOfPage, ClosedIsReset,
       SendClosed
<1>7. CASE RejectSend
  <2>1. /\ confirm' = <<>>
        /\ UNCHANGED <<moneyVars, sendOpen, receiver, peer, shownPeer, sendAmount, sendFee,
                       change, sendEnabled, evaluatedAt>>
    BY <1>7 DEF RejectSend
  <2> QED
    BY <1>s, <1>i, <1>r, <2>1 DEF SendFollows, ButtonOfEvaluation, ConfirmIsOfPage, moneyVars,
       ClosedIsReset, SendClosed
<1>8. CASE SendBack
  <2>1. sendOpen' = FALSE /\ confirm' = <<>> /\ receiver' = Nobody /\ UNCHANGED moneyVars
    BY <1>8 DEF SendBack, SendClose
  <2>2. ClosedIsReset'
    BY <1>8 DEF SendBack, SendClose, ClosedIsReset, SendClosed
  <2> QED
    BY <1>s, <1>c, <2>1, <2>2 DEF SendFollows, ButtonOfEvaluation, ConfirmIsOfPage, moneyVars,
       PeerIsOfReceiver, SendConstants
<1>9. MaxAvailable \in Nat /\ Fees \subseteq Nat /\ Amounts \subseteq Nat
  BY <1>c, <1>t DEF MaxAvailable, SendConstants
<1> QED
  BY <1>1, <1>2, <1>3, <1>4, <1>5, <1>6, <1>7, <1>8, <1>9 DEF SendStep, SetMaxAvailableAmount

\* What the steps of the swap page leave alone.
LEMMA SendKept ==
    ASSUME PagesInv, swapOpen' => swapOpen,
           UNCHANGED sendVars, UNCHANGED <<coins, posted, available, calcCoins>>
    PROVE  /\ OnePage' /\ ClosedIsReset' /\ BalanceFollows'
           /\ ButtonOfEvaluation' /\ ConfirmIsOfPage' /\ PeerIsOfReceiver'
BY DEF PagesInv, sendVars, OnePage, ClosedIsReset, SendClosed, BalanceFollows,
   ButtonOfEvaluation, ConfirmIsOfPage, PeerIsOfReceiver

\* The swap page asks for its change when it is paid in hds.
LEMMA SwapAsks ==
    ASSUME requests \in Seq(Commands), NEW asks \in Seq(Commands), asks # <<>>,
           requests' = requests \o asks, NEW total \in Nat, asks[Len(asks)] = CalcChange(total),
           payHds' => total = swapAmount' + swapFee'
    PROVE  SwapFollows' /\ SwapButtonOfEvaluation'
<1>1. ~NoneAsked(requests')
  BY FollowsAsk
<1>2. ChangeFollows(requests', posted', calcCoins', total, swapChange')
  BY FollowsAsk
<1> QED
  BY <1>1, <1>2 DEF SwapFollows, SwapButtonOfEvaluation, Settled

\* recalcAvailable: the change is asked for, or the button is evaluated.
LEMMA RecalcFollows ==
    ASSUME requests \in Seq(Commands), swapAmount' \in Nat, swapFee' \in Nat, RecalcAvailable
    PROVE  SwapFollows' /\ SwapButtonOfEvaluation'
<1>1. CASE payHds'
  <2> DEFINE total == swapAmount' + swapFee'
             asks == <<CalcChange(total)>>
  <2>1. total \in Nat
    <3>1. \A a, b \in Nat : a + b \in Nat
      OBVIOUS
    <3> QED
      BY <3>1
  <2>2. requests' = requests \o asks
    BY <1>1 DEF RecalcAvailable, Ask
  <2> HIDE DEF total
  <2>3. asks \in Seq(Commands) /\ asks # <<>> /\ asks[Len(asks)] = CalcChange(total)
    BY <2>1, CommandTypes
  <2> HIDE DEF asks
  <2> QED
    BY <2>1, <2>2, <2>3, SwapAsks DEF total
<1>2. CASE ~payHds'
  <2>1. SwapCanSendChanged
    BY <1>2 DEF RecalcAvailable
  <2>2. SwapButtonOfEvaluation'
    BY <2>1 DEF SwapCanSendChanged, SwapButtonOfEvaluation
  <2> QED
    BY <1>2, <2>2 DEF SwapFollows
<1> QED
  BY <1>1, <1>2

LEMMA SwapPagesStep ==
    ASSUME IInv, SwapStep, UNCHANGED sendVars
    PROVE  PagesInv'
<1>t. /\ requests \in Seq(Commands) /\ swapAmount \in Nat /\ swapFee \in Nat
      /\ SwapFees \subseteq Nat
  BY PagesAssumption DEF IInv, TypeOK, SwapTypeOK, SwapConstants
<1>i. PagesInv /\ SendFollows /\ SwapFollows /\ SwapButtonOfEvaluation /\ OnePage
  BY DEF IInv, PagesInv
<1>s. ASSUME swapOpen' => swapOpen, UNCHANGED <<coins, posted, available, calcCoins>>,
             SendFollows' /\ SwapFollows' /\ SwapButtonOfEvaluation'
      PROVE  PagesInv'
  BY <1>i, <1>s, SendKept DEF PagesInv
<1>p. swapOpen => SendFollows'
  BY <1>i DEF OnePage, SendFollows, sendVars
<1>1. ASSUME NEW fee \in Nat, SetSendFee(fee) PROVE PagesInv'
  <2>1. /\ swapOpen /\ swapFee' = fee /\ UNCHANGED <<coins, posted, available, calcCoins>>
        /\ UNCHANGED <<swapOpen, payHds, swapAmount, swapConfirm>> /\ RecalcAvailable
    BY <1>1 DEF SetSendFee, SwapEditing
  <2>2. SwapFollows' /\ SwapButtonOfEvaluation'
    BY <1>t, <2>1, RecalcFollows
  <2> QED
    BY <1>p, <1>s, <2>1, <2>2
<1>2. CASE SetReceiveFee
  <2>1. /\ swapOpen /\ SwapCanSendChanged
        /\ UNCHANGED <<moneyVars, swapOpen, payHds, swapAmount, swapFee, swapChange, swapConfirm>>
    BY <1>2 DEF SetReceiveFee, SwapEditing
  <2>2. SwapFollows'
    BY <1>i, <2>1 DEF SwapFollows, moneyVars
  <2>3. SwapButtonOfEvaluation'
    BY <2>1 DEF SwapCanSendChanged, SwapButtonOfEvaluation
  <2> QED
    BY <1>p, <1>s, <2>1, <2>2, <2>3 DEF moneyVars
<1>3. ASSUME UNCHANGED <<moneyVars, swapOpen, payHds, swapAmount, swapFee, swapChange,
                         swapEnabled, swapSeen>>
      PROVE  PagesInv'
  <2>1. SendFollows'
    BY <1>i, <1>3 DEF SendFollows, moneyVars, sendVars
  <2>2. SwapFollows'
    BY <1>i, <1>3 DEF SwapFollows, moneyVars
  <2>3. SwapButtonOfEvaluation'
    BY <1>i, <1>3 DEF SwapButtonOfEvaluation, Settled,
       moneyVars
  <2> QED
    BY <1>3, <1>s, <2>1, <2>2, <2>3 DEF moneyVars
<1>4. CASE AcceptSwap
  <2> DEFINE c == StartTransaction("swap", swapAmount, swapFee)
  <2>1. /\ requests' = requests \o <<c>> /\ swapOpen' = FALSE
        /\ UNCHANGED <<coins, posted, available, calcCoins>>
    BY <1>4 DEF AcceptSwap, Ask, SwapClose
  <2>2. c \in Commands /\ c.kind # "calcChange"
    BY <1>t, CommandTypes
  <2> HIDE DEF c
  <2>3. ASSUME NEW total, ChangeFollows(requests, posted, calcCoins, total, change)
        PROVE  ChangeFollows(requests', posted, calcCoins, total, change)
    BY <1>t, <2>1, <2>2, <2>3, FollowsOther
  <2>4. SendFollows'
    BY <1>i, <2>1, <2>3 DEF SendFollows, sendVars
  <2> QED
    BY <1>s, <2>1, <2>4 DEF SwapFollows, SwapButtonOfEvaluation
<1>5. CASE SwapBack
  <2>1. swapOpen /\ swapOpen' = FALSE /\ UNCHANGED moneyVars
    BY <1>5 DEF SwapBack, SwapEditing, SwapClose
  <2> QED
    BY <1>p, <1>s, <2>1 DEF SwapFollows, SwapButtonOfEvaluation, moneyVars
<1> QED
  BY <1>t, <1>1, <1>2, <1>3, <1>4, <1>5 DEF SwapStep, ClickSwap, RejectSwap, CoinMoves, Expire

LEMMA OpenSwapPages ==
    ASSUME IInv, NEW offer \in Offers, OpenSwap(offer)
    PROVE  PagesInv'
<1>t. requests \in Seq(Commands) /\ MoneyTypeOK
  BY DEF IInv, TypeOK
<1>i. PagesInv /\ BalanceFollows /\ ClosedIsReset /\ ConfirmIsOfPage
  BY DEF IInv, PagesInv
<1>c. Nobody \notin Payees
  BY PagesAssumption DEF SendConstants
<1>1. SendClosed'
  <2>1. CASE sendOpen
    BY <2>1 DEF OpenSwap, SendClose, SendClosed
  <2>2. CASE ~sendOpen
    BY <1>i, <2>2 DEF OpenSwap, ClosedIsReset, SendClosed, sendVars
  <2> QED
    BY <2>1, <2>2
<1>2. OnePage' /\ ClosedIsReset' /\ SendFollows' /\ ButtonOfEvaluation' /\ ConfirmIsOfPage'
      /\ PeerIsOfReceiver'
  BY <1>1, <1>c DEF SendClosed, OnePage, ClosedIsReset, SendFollows, ButtonOfEvaluation,
     ConfirmIsOfPage, PeerIsOfReceiver
<1>3. SwapOpens(offer)
  BY DEF OpenSwap
<1>4. BalanceFollows'
  BY <1>i, <1>3 DEF SwapOpens, SwapFilled, BalanceFollows
<1>5. PICK asks \in Seq(Commands), total \in Nat :
         /\ asks # <<>> /\ requests' = requests \o asks
         /\ asks[Len(asks)] = CalcChange(total)
         /\ payHds' => total = swapAmount' + swapFee'
  BY <1>t, <1>3, SwapOpensAsks
<1>6. SwapFollows' /\ SwapButtonOfEvaluation'
  BY <1>t, <1>5, SwapAsks
<1> QED
  BY <1>2, <1>4, <1>6 DEF PagesInv

LEMMA EventPages ==
    ASSUME IInv, OnEvent
    PROVE  PagesInv'
<1> DEFINE e == posted[1]
<1>i. TypeOK /\ PagesInv
  BY DEF IInv
<1>t. /\ requests \in Seq(Commands) /\ posted \in Seq(MoneyEvents)
      /\ swapAmount \in Nat /\ swapFee \in Nat
  BY <1>i DEF TypeOK, MoneyTypeOK, SwapTypeOK
<1>e. /\ posted # <<>> /\ posted' = Tail(posted)
      /\ available' = IF e.kind = "status" THEN e.amount ELSE available
      /\ UNCHANGED <<coins, calcCoins>> /\ SendOnEvent(e) /\ SwapOnEvent(e)
  BY <1>i, EventFacts
<1>n. Len(posted') = Len(posted) - 1 /\ Len(posted) \in 1..Len(posted)
  BY <1>t, <1>e, TailFacts
<1>1. BalanceFollows'
  <2>1. Balance(posted, Len(posted), available, SumSet(coins))
    BY <1>i DEF PagesInv, BalanceFollows
  <2>2. Balance(posted', Len(posted) - 1, available', SumSet(coins))
    BY <1>t, <1>e, <1>n, <2>1, BalanceTake
  <2> QED
    BY <1>e, <1>n, <2>2 DEF BalanceFollows
<1>2. ASSUME NEW total, NEW shown, ChangeFollows(requests, posted, calcCoins, total, shown)
      PROVE  ChangeFollows(requests, posted', calcCoins, total,
                           IF e.kind = "change" THEN e.amount ELSE shown)
  BY <1>t, <1>e, <1>2, FollowsTake
<1>3. NoneAnswered(posted) <=> e.kind # "change" /\ NoneAnswered(posted')
  BY <1>t, <1>e, TailAnswered
<1> HIDE DEF e
<1>4. OnePage' /\ ClosedIsReset' /\ ConfirmIsOfPage' /\ ButtonOfEvaluation' /\ PeerIsOfReceiver'
  <2>o. OnePage /\ ClosedIsReset /\ ConfirmIsOfPage /\ ButtonOfEvaluation /\ PeerIsOfReceiver
    BY <1>i DEF PagesInv
  <2>s. swapOpen' = swapOpen
    BY <1>e DEF SwapOnEvent, SwapOnChangeCalculated, swapVars
  <2>1. CASE sendOpen /\ OnChangeCalculated(e.amount)
    BY <2>o, <2>s, <2>1 DEF OnChangeCalculated, CanSendChanged, OnePage, ClosedIsReset,
       ConfirmIsOfPage, ButtonOfEvaluation, PeerIsOfReceiver
  <2>2. CASE SendClose
    <3>1. SendClosed' /\ Nobody \notin Payees
      BY <2>2, PagesAssumption DEF SendClose, SendClosed, SendConstants
    <3> QED
      BY <3>1 DEF SendClosed, OnePage, ClosedIsReset, ConfirmIsOfPage, ButtonOfEvaluation,
         PeerIsOfReceiver
  <2>3. CASE UNCHANGED sendVars
    BY <2>o, <2>s, <2>3 DEF sendVars, OnePage, ClosedIsReset, SendClosed, ConfirmIsOfPage,
       ButtonOfEvaluation, PeerIsOfReceiver
  <2> QED
    BY <1>e, <2>1, <2>2, <2>3 DEF SendOnEvent
<1>5. SendFollows'
  <2> SUFFICES ASSUME sendOpen' PROVE SendFollows'
    BY DEF SendFollows
  <2>1. /\ sendOpen /\ UNCHANGED <<sendAmount, sendFee>>
        /\ change' = IF e.kind = "change" THEN e.amount ELSE change
    BY <1>e DEF SendOnEvent, OnChangeCalculated, SendClose, sendVars
  <2>2. requests' = requests
    <3>1. ~swapOpen
      BY <1>i, <2>1 DEF PagesInv, OnePage
    <3> QED
      BY <1>e, <3>1 DEF SwapOnEvent
  <2>3. ChangeFollows(requests, posted, calcCoins, sendAmount + sendFee, change)
    BY <1>i, <2>1 DEF PagesInv, SendFollows
  <2> QED
    BY <1>2, <1>e, <2>1, <2>2, <2>3 DEF SendFollows
<1>6. SwapFollows' /\ SwapButtonOfEvaluation'
  <2>c. ASSUME ~(e.kind = "status" /\ e.amount # available),
               CalcFollows(posted, available, SumSet(calcCoins))
        PROVE  CalcFollows(posted', available', SumSet(calcCoins))
    BY <1>t, <1>e, <2>c, CalcTake DEF e
  <2>1. CASE swapOpen /\ e.kind = "change" /\ SwapOnChangeCalculated(e.amount)
    <3>1. /\ swapChange' = e.amount /\ SwapCanSendChanged
          /\ UNCHANGED <<swapOpen, payHds, swapAmount, swapFee, requests>>
      BY <2>1 DEF SwapOnChangeCalculated
    <3>2. SwapFollows'
      BY <1>2, <1>i, <1>e, <2>1, <2>c, <3>1 DEF PagesInv, SwapFollows
    <3>3. SwapButtonOfEvaluation'
      BY <3>1 DEF SwapCanSendChanged, SwapButtonOfEvaluation
    <3> QED
      BY <3>2, <3>3
  <2>2. CASE /\ UNCHANGED <<swapOpen, payHds, swapAmount, swapFee, swapConfirm, coinAvailable,
                            expired>>
             /\ RecalcAvailable
    BY <1>t, <2>2, RecalcFollows
  <2>3. CASE /\ ~(swapOpen /\ (e.kind = "change" \/ AvailableChanged(e)))
             /\ UNCHANGED <<swapVars, requests>>
    <3>1. UNCHANGED <<swapOpen, payHds, swapAmount, swapFee, swapChange, swapEnabled, swapSeen,
                      requests>>
      BY <2>3 DEF swapVars
    <3>2. swapOpen => e.kind # "change" /\ ~(e.kind = "status" /\ e.amount # available)
      BY <2>3 DEF AvailableChanged
    <3>3. SwapFollows'
      BY <1>2, <1>i, <1>e, <2>c, <3>1, <3>2 DEF PagesInv, SwapFollows
    <3>4. swapOpen => available' = available
      BY <1>e, <3>2
    <3>5. SwapButtonOfEvaluation'
      BY <1>i, <1>3, <3>1, <3>2, <3>4 DEF PagesInv, SwapButtonOfEvaluation, Settled
    <3> QED
      BY <3>3, <3>5
  <2> QED
    BY <1>e, <2>1, <2>2, <2>3 DEF SwapOnEvent
<1> QED
  BY <1>1, <1>4, <1>5, <1>6 DEF PagesInv

LEMMA StepPages == IInv /\ [Next]_vars => PagesInv'
<1> SUFFICES ASSUME IInv, [Next]_vars PROVE PagesInv'
  OBVIOUS
<1>1. CASE UNCHANGED vars
  BY <1>1 DEF vars, moneyVars, sendVars, swapVars, IInv, PagesInv, OnePage, ClosedIsReset,
     SendClosed, BalanceFollows, SendFollows, SwapFollows, ButtonOfEvaluation,
     SwapButtonOfEvaluation, Settled, ConfirmIsOfPage, PeerIsOfReceiver
<1>2. CASE Next
  BY <1>2, WalletPages, SendPagesStep, SwapPagesStep, OpenSwapPages, EventPages DEF Next
<1> QED
  BY <1>1, <1>2

THEOREM Invariant == Spec => []IInv
<1>1. Init => IInv
  BY InitType, InitPages DEF IInv
<1>2. IInv /\ [Next]_vars => IInv'
  <2> SUFFICES ASSUME IInv, [Next]_vars PROVE IInv'
    OBVIOUS
  <2> QED
    BY StepType, StepPages DEF IInv
<1> QED
  BY <1>1, <1>2, PTL DEF Spec

-----------------------------------------------------------------------------
(* The theorems *)

\* Whatever pages are opened, edited and left, and in whatever order the wallet
\* answers them, the variables of both pages keep their types.
THEOREM SendPagesTypeCorrect == Spec => []TypeOK
<1>1. IInv => TypeOK
  BY DEF IInv
<1> QED
  BY <1>1, Invariant, PTL

\* ChangeIsOfTotal (WalletModel's changeCalculated carries no request): when
\* nothing is asked or answered any more, the send page shows the change of the
\* amount and fee it shows, also when a page that was left had asked.
THEOREM ChangeAlwaysOfTotal == Spec => []ChangeIsOfTotal
<1>1. IInv => ChangeIsOfTotal
  BY DEF IInv, PagesInv, SendFollows, ChangeFollows, ChangeIsOfTotal, Settled
<1> QED
  BY <1>1, Invariant, PTL

\* ButtonIsCurrent (canSendChanged): the send button is what canSend says as long
\* as the balance and the least fee are those it was evaluated with.
THEOREM ButtonAlwaysCurrent == Spec => []ButtonIsCurrent
<1>1. IInv => ButtonIsCurrent
  BY DEF IInv, PagesInv, ButtonOfEvaluation, ButtonIsCurrent, CanSendNow
<1> QED
  BY <1>1, Invariant, PTL

\* SwapButtonCatchesUp (recalcAvailable): the swap button says canSend when
\* nothing is asked or answered any more, whatever hds came and went meanwhile, as
\* long as the clock, the balance in the other coin and the least fee, of which no
\* signal tells, are as they were when the button was evaluated last.
THEOREM SwapButtonAlwaysCatchesUp == Spec => []SwapButtonCatchesUp
<1>1. IInv => SwapButtonCatchesUp
  BY DEF IInv, PagesInv, SwapButtonOfEvaluation, SwapButtonCatchesUp, SwapCanSendNow
<1> QED
  BY <1>1, Invariant, PTL

\* SwapEnoughIsExact (SendSwapViewModel::isEnough): with the answers delivered, the
\* swap page says there is enough exactly if the wallet's coins cover the swap,
\* although an answer may have been calculated with other coins.
THEOREM SwapEnoughAlwaysExact == Spec => []SwapEnoughIsExact
<1>1. IInv => SwapEnoughIsExact
  <2> SUFFICES ASSUME IInv, swapOpen, payHds, Settled, posted = <<>>
               PROVE  SwapIsEnough(available, coinAvailable, TRUE, swapAmount, swapFee,
                                   swapChange)
                      <=> SumSet(coins) >= swapAmount + swapFee
    BY DEF SwapEnoughIsExact
  <2> DEFINE total == swapAmount + swapFee
  <2>t. calcCoins \in Holdings /\ swapAmount \in Nat /\ swapFee \in Nat /\ swapChange \in Nat
    BY DEF IInv, TypeOK, MoneyTypeOK, SwapTypeOK
  <2>1. /\ swapChange = ChangeOf(calcCoins, total)
        /\ CalcFollows(posted, available, SumSet(calcCoins))
        /\ Balance(posted, Len(posted), available, SumSet(coins))
    BY DEF IInv, PagesInv, SwapFollows, BalanceFollows, ChangeFollows, Settled
  <2>2. SumSet(calcCoins) = available /\ SumSet(coins) = available
    <3>1. Len(posted) = 0 /\ 1..0 = {} /\ 0..Len(posted) = {0}
      OBVIOUS
    <3> QED
      BY <2>1, <3>1 DEF CalcFollows, Balance
  <2>3. total \in Nat
    <3>1. \A a, b \in Nat : a + b \in Nat
      OBVIOUS
    <3> QED
      BY <2>t, <3>1
  <2>4. SumSet(calcCoins) >= total + ChangeOf(calcCoins, total) <=> SumSet(calcCoins) >= total
    BY <2>t, <2>3, ChangeFacts
  <2>5. SwapIsEnough(available, coinAvailable, TRUE, swapAmount, swapFee, swapChange)
        <=> available >= total + swapChange
    BY DEF SwapIsEnough
  <2> HIDE DEF total
  <2>6. available >= total + swapChange <=> available >= total
    BY <2>1, <2>2, <2>4
  <2> QED
    BY <2>2, <2>5, <2>6 DEF total
<1> QED
  BY <1>1, Invariant, PTL

\* SentAsConfirmed (SendViewModel::sendMoney): the amount and the fee the user
\* confirms are those that are sent; and if the receiver in the field names a peer,
\* so is the payee.  Of a token without a peer nothing is said but amount and fee.
THEOREM SentAlwaysAsConfirmed == Spec => SentAsConfirmed
<1> DEFINE Sent == \A i \in DOMAIN requests' \ DOMAIN requests :
                      /\ confirm[1].amount = requests'[i].amount
                      /\ confirm[1].fee = requests'[i].fee
                      /\ \A asked \in ParamsOf[receiver] :
                            asked.peer # Nobody =>
                                requests'[i].payee = asked.peer /\ confirm[1].payee = asked.peer
<1>1. IInv /\ [Next]_vars => (SendMoney => Sent)
  <2> SUFFICES ASSUME IInv, SendMoney PROVE Sent
    OBVIOUS
  <2>1. /\ requests \in Seq(Commands)
        /\ confirm = <<[payee |-> shownPeer, amount |-> sendAmount, fee |-> sendFee]>>
        /\ PeerIsOfReceiver
    BY DEF IInv, TypeOK, PagesInv, ConfirmIsOfPage, SendMoney
  <2>2. CASE CanSendNow
    <3>1. PICK whom \in ReadPeer : Ask(<<StartTransaction(whom, sendAmount, sendFee)>>)
      BY <2>2 DEF SendMoney
    <3> DEFINE c == StartTransaction(whom, sendAmount, sendFee)
               r == requests \o <<c>>
    <3>2. requests' = r
      BY <3>1 DEF Ask
    <3>3. c.payee = whom /\ c.amount = sendAmount /\ c.fee = sendFee
      BY DEF StartTransaction
    <3>4. \A i \in DOMAIN r \ DOMAIN requests : r[i] = c
      <4> HIDE DEF c
      <4> QED
        BY <2>1
    <3>5. ASSUME NEW asked \in ParamsOf[receiver], asked.peer # Nobody
          PROVE  whom = asked.peer /\ shownPeer = asked.peer
      <4>1. peer = asked.peer /\ shownPeer = asked.peer
        BY <2>1, <2>2, <3>5 DEF PeerIsOfReceiver, CanSendNow, CanSend
      <4> QED
        BY <3>5, <4>1 DEF ReadPeer
    <3>6. /\ confirm[1].payee = shownPeer
          /\ confirm[1].amount = sendAmount /\ confirm[1].fee = sendFee
      BY <2>1
    <3> HIDE DEF c, r
    <3> QED
      BY <3>2, <3>3, <3>4, <3>5, <3>6
  <2>3. CASE ~CanSendNow
    BY <2>3 DEF SendMoney
  <2> QED
    BY <2>2, <2>3
<1>2. IInv /\ [Next]_vars => [SendMoney => Sent]_<<requests, sendVars>>
  BY <1>1
<1>3. Spec => [][SendMoney => Sent]_<<requests, sendVars>>
  BY <1>2, Invariant, PTL DEF Spec
<1> QED
  BY <1>3 DEF SentAsConfirmed
=============================================================================
