----------------------------- MODULE LiveProofs -----------------------------
(***************************************************************************)
(* The leases of live mode, for any number of sessions, agents and faults: *)
(* an event is with one agent, no poll waits beside work, an answered      *)
(* generation is handed out no more, and its late outcome never consumes   *)
(* the answer.                                                             *)
(***************************************************************************)
EXTENDS LiveSession, SequenceFacts, FiniteSetTheorems, SequenceTheorems,
        WellFoundedInduction, TLAPS

Entries == [event : EventSet, leased : BOOLEAN]
Leases == [at : Holding \cup {"idle", "parked"}, id : Sessions \cup {NoSession},
           type : Types \cup {Nothing}, valid : BOOLEAN]
Snapshots == [phase : Phases, pending : EventSet \cup {Nothing}, canceled : BOOLEAN]

-----------------------------------------------------------------------------
(* Numbers and sets. *)

\* A set of natural numbers that is not empty has a least member.
LEMMA LeastOf ==
  ASSUME NEW S, S \subseteq Nat, S # {}
  PROVE  \E x \in S : \A y \in S : x <= y
<1> DEFINE less == OpToRel(<, Nat)
<1>1. IsWellFoundedOn(less, Nat)
  BY NatLessThanWellFounded
<1>2. \A x, y \in Nat : y < x => <<y, x>> \in less
  BY DEF OpToRel
<1> HIDE DEF less
<1>3. PICK x \in S : \A y \in S : ~ (<<y, x>> \in less)
  BY <1>1, WFMin
<1>4. \A y \in S : ~ (y < x)
  BY <1>2, <1>3
<1> QED
  BY <1>4

LEMMA MinOf ==
  ASSUME NEW S, S \subseteq Nat, S # {}
  PROVE  Min(S) \in S /\ \A y \in S : Min(S) <= y
BY LeastOf DEF Min

-----------------------------------------------------------------------------
(* The queue. *)

\* An event is queued once (enqueueEvent).
KeysOnce(q) == \A i, j \in DOMAIN q : Key(q[i]) = Key(q[j]) => i = j

\* Without one entry the queue holds the others.
LEMMA RemovedEntry ==
  ASSUME NEW q \in Seq(Entries), KeysOnce(q), NEW k \in DOMAIN q, NEW t, t = RemoveAt(q, k)
  PROVE  /\ t \in Seq(Entries) /\ KeysOnce(t)
         /\ \A j \in DOMAIN t : \E i \in DOMAIN q : i # k /\ t[j] = q[i]
         /\ \A i \in DOMAIN q : i # k => \E j \in DOMAIN t : t[j] = q[i]
<1>1. Once(q) /\ t = Without(q, k)
  BY DEF KeysOnce, Once, Without, RemoveAt
<1>2. t \in Seq(Entries) /\ Once(t) /\ \A x : Holds(t, x) <=> Holds(q, x) /\ x # q[k]
  BY <1>1, RemovedOnce
<1>3. \A j \in DOMAIN t : \E i \in DOMAIN q : i # k /\ t[j] = q[i]
  BY <1>2 DEF Holds
<1>4. \A i \in DOMAIN q : i # k => \E j \in DOMAIN t : t[j] = q[i]
  BY <1>1, <1>2 DEF Holds, Once
<1>5. KeysOnce(t)
  BY <1>2, <1>3 DEF KeysOnce, Once
<1> QED
  BY <1>2, <1>3, <1>4, <1>5

Earlier(q, i) == {j \in Available(q) : Before(q, j, i)}

\* The ranks of the available entries are numbers that grow with the order.
LEMMA RankFacts ==
  ASSUME NEW q \in Seq(Entries)
  PROVE  /\ IsFiniteSet(Available(q))
         /\ \A i \in Available(q) : Rank(q, i) \in Nat \ {0}
         /\ \A i \in Available(q) :
              /\ i \notin Earlier(q, i) /\ IsFiniteSet(Earlier(q, i))
              /\ Cardinality(Earlier(q, i)) \in Nat
              /\ Rank(q, i) = Cardinality(Earlier(q, i)) + 1
         /\ \A i, j \in Available(q) : Before(q, j, i) => Rank(q, j) < Rank(q, i)
<1>1. Len(q) \in Nat /\ DOMAIN q = 1..Len(q) /\ \A i \in DOMAIN q : q[i] \in Entries
  BY LenProperties, ElementOfSeq
<1>2. IsFiniteSet(Available(q))
  <2>1. IsFiniteSet(1..Len(q)) /\ Available(q) \subseteq 1..Len(q)
    BY <1>1, FS_Interval DEF Available
  <2> QED
    BY <2>1, FS_Subset
<1>3. \A i \in DOMAIN q : i \in Nat /\ Priority(q[i].event.type) \in Nat
  BY <1>1 DEF Priority, Entries, EventSet, Types, Answers
<1>4. ASSUME NEW i \in Available(q)
      PROVE  /\ i \notin Earlier(q, i) /\ IsFiniteSet(Earlier(q, i))
             /\ Cardinality(Earlier(q, i)) \in Nat
             /\ Rank(q, i) = Cardinality(Earlier(q, i)) + 1
  <2>1. IsFiniteSet(Earlier(q, i))
    BY <1>2, FS_Subset DEF Earlier
  <2>2. Cardinality(Earlier(q, i)) \in Nat
    BY <2>1, FS_CardinalityType
  <2>3. Rank(q, i) = 1 + Cardinality(Earlier(q, i))
    BY DEF Rank, Earlier
  <2>4. i \notin Earlier(q, i)
    BY <1>3 DEF Earlier, Before, Available
  <2> QED
    BY <2>1, <2>2, <2>3, <2>4
<1>5. ASSUME NEW i \in Available(q), NEW j \in Available(q), Before(q, j, i)
      PROVE  Rank(q, j) < Rank(q, i)
  <2>1. ASSUME NEW k \in Available(q), Before(q, k, j) PROVE Before(q, k, i)
    BY <1>3, <1>5, <2>1 DEF Before, Available
  <2>2. Earlier(q, j) \subseteq Earlier(q, i)
    BY <2>1 DEF Earlier
  <2>3. j \in Earlier(q, i) /\ j \notin Earlier(q, j)
    BY <1>4, <1>5 DEF Earlier
  <2>4. Cardinality(Earlier(q, j)) < Cardinality(Earlier(q, i))
    <3>1. Earlier(q, j) # Earlier(q, i)
      BY <2>3
    <3>2. /\ Cardinality(Earlier(q, j)) <= Cardinality(Earlier(q, i))
          /\ Cardinality(Earlier(q, j)) # Cardinality(Earlier(q, i))
      BY <1>4, <2>2, <3>1, FS_Subset
    <3> QED
      BY <1>4, <3>2
  <2> QED
    BY <1>4, <2>4
<1> QED
  BY <1>2, <1>4, <1>5

\* Those of the first n ranks have the ranks 1, 2, ... and are all there are
\* when they are fewer than n.
LEMMA TakenFacts ==
  ASSUME NEW q \in Seq(Entries), NEW n \in Nat,
         NEW taken, taken = {i \in Available(q) : Rank(q, i) <= n}
  PROVE  /\ Cardinality(taken) \in Nat
         /\ \A i \in taken : Rank(q, i) <= Cardinality(taken)
         /\ Cardinality(taken) < n => taken = Available(q)
<1>1. IsFiniteSet(taken) /\ Cardinality(taken) \in Nat
  BY RankFacts, FS_Subset, FS_CardinalityType
<1>2. ASSUME NEW i \in taken PROVE Rank(q, i) <= Cardinality(taken)
  <2>1. PICK earlier : earlier = Earlier(q, i)
    OBVIOUS
  <2>2. i \in Available(q)
    OBVIOUS
  <2>3. /\ i \notin earlier /\ IsFiniteSet(earlier)
        /\ Cardinality(earlier) \in Nat /\ Rank(q, i) = Cardinality(earlier) + 1
    BY <2>1, <2>2, RankFacts
  <2>4. ASSUME NEW j \in earlier PROVE j \in taken
    <3>1. j \in Available(q) /\ Rank(q, j) < Rank(q, i) /\ Rank(q, i) <= n
          /\ Rank(q, j) \in Nat /\ Rank(q, i) \in Nat
      BY <2>1, <2>2, RankFacts DEF Earlier
    <3> QED
      BY <3>1
  <2>5. Cardinality(earlier \cup {i}) = Cardinality(earlier) + 1
    BY <2>3, FS_AddElement
  <2>6. earlier \cup {i} \subseteq taken
    BY <2>4
  <2> QED
    BY <1>1, <2>3, <2>5, <2>6, FS_Subset
<1>3. ASSUME Cardinality(taken) < n PROVE taken = Available(q)
  <2> SUFFICES ASSUME taken # Available(q) PROVE FALSE
    OBVIOUS
  <2>1. PICK ranks : ranks = {Rank(q, i) : i \in Available(q) \ taken}
    OBVIOUS
  <2>2. ranks \subseteq Nat /\ ranks # {}
    BY <2>1, RankFacts
  <2>3. PICK r \in ranks : \A y \in ranks : r <= y
    BY <2>2, LeastOf
  <2>4. PICK i \in Available(q) \ taken : r = Rank(q, i)
    BY <2>1
  <2>5. PICK earlier : earlier = Earlier(q, i)
    OBVIOUS
  <2>6. Cardinality(earlier) \in Nat /\ Rank(q, i) = Cardinality(earlier) + 1
    BY <2>5, RankFacts
  <2>7. ASSUME NEW j \in earlier PROVE j \in taken
    <3>1. j \in Available(q) /\ Rank(q, j) < Rank(q, i) /\ Rank(q, j) \in Nat /\ Rank(q, i) \in Nat
      BY <2>5, RankFacts DEF Earlier
    <3>2. ~ (Rank(q, i) <= Rank(q, j))
      BY <3>1
    <3> QED
      BY <2>1, <2>3, <2>4, <3>1, <3>2
  <2>8. Cardinality(earlier) <= Cardinality(taken)
    BY <1>1, <2>7, FS_Subset
  <2>9. Rank(q, i) <= n
    BY <1>1, <1>3, <2>6, <2>8
  <2> QED
    BY <2>4, <2>9
<1> QED
  BY <1>1, <1>2, <1>3

-----------------------------------------------------------------------------
(* Handing out. *)

\* Some agents get an available entry, each one of its own, which is leased
\* from then on.
HandedOut(q, q2, ag, ag2) ==
  /\ q2 \in Seq(Entries) /\ DOMAIN q2 = DOMAIN q
  /\ \A i \in DOMAIN q : q2[i].event = q[i].event /\ (q[i].leased => q2[i].leased)
  /\ ag2 \in [Agents -> Leases]
  /\ \E share \in [Agents -> Nat] :
       /\ \A a \in Agents :
            \/ share[a] \notin DOMAIN q /\ ag2[a] = ag[a]
            \/ /\ share[a] \in DOMAIN q
               /\ ~q[share[a]].leased /\ q2[share[a]].leased
               /\ ag2[a] = Leased(q[share[a]].event)
       /\ \A a, b \in Agents : share[a] = share[b] /\ share[a] \in DOMAIN q => a = b

\* The polls that get nothing stay as they are, and there are such only when
\* nothing is available.
LEMMA ServeFacts ==
  ASSUME NEW q \in Seq(Entries), NEW polls \in Seq(Agents), Once(polls),
         NEW agents \in [Agents -> Leases], Serve(q, polls, agents, << >>)
  PROVE  /\ HandedOut(q, queue', agents, agent')
         /\ parked' \in Seq(Agents) /\ Once(parked')
         /\ \A i \in DOMAIN parked' : agent'[parked'[i]] = agents[parked'[i]] /\ Holds(polls, parked'[i])
         /\ parked' # << >> => \A i \in DOMAIN queue' : queue'[i].leased
         /\ \A a \in Agents : ~Holds(polls, a) => agent'[a] = agents[a]
         /\ polls # << >> /\ Available(q) # {} => Len(parked') < Len(polls)
<1> DEFINE taken == {i \in Available(q) : Rank(q, i) <= Len(polls)}
           Share(a) == {i \in taken : polls[Rank(q, i)] = a}
           share == [a \in Agents |-> IF Share(a) = {} THEN 0 ELSE CHOOSE i \in Share(a) : TRUE]
           n == Cardinality(taken)
<1>1. /\ queue' = [i \in DOMAIN q |-> IF i \in taken THEN [q[i] EXCEPT !.leased = TRUE] ELSE q[i]]
      /\ agent' = [a \in Agents |->
                     IF Share(a) = {} THEN agents[a] ELSE Leased(q[CHOOSE i \in Share(a) : TRUE].event)]
      /\ parked' = SubSeq(polls, n + 1, Len(polls)) \o << >>
  BY DEF Serve
<1>2. /\ Len(q) \in Nat /\ DOMAIN q = 1..Len(q) /\ \A i \in DOMAIN q : q[i] \in Entries
      /\ Len(polls) \in Nat /\ DOMAIN polls = 1..Len(polls) /\ \A i \in DOMAIN polls : polls[i] \in Agents
  BY LenProperties, ElementOfSeq
<1>3. /\ n \in Nat
      /\ \A i \in taken : i \in Available(q) /\ Rank(q, i) \in 1..n /\ Rank(q, i) \in DOMAIN polls
      /\ n < Len(polls) => taken = Available(q)
  <2>1. \A i \in Available(q) : Rank(q, i) \in Nat \ {0}
    BY RankFacts
  <2>2. /\ n \in Nat
        /\ \A i \in taken : Rank(q, i) <= n
        /\ n < Len(polls) => taken = Available(q)
    BY <1>2, TakenFacts
  <2> QED
    BY <1>2, <2>1, <2>2
<1>4. \A i \in taken : i \in DOMAIN q /\ ~q[i].leased
  BY DEF Available
<1>0. n = 0 <=> taken = {}
  <2>1. IsFiniteSet(taken)
    BY RankFacts, FS_Subset
  <2> QED
    BY <2>1, FS_EmptySet
<1> HIDE DEF taken
<1>5. \A a \in Agents : share[a] # 0 => share[a] \in taken /\ polls[Rank(q, share[a])] = a
  OBVIOUS
<1>6. /\ \A a \in Agents : IF share[a] = 0 THEN agent'[a] = agents[a] ELSE agent'[a] = Leased(q[share[a]].event)
      /\ agent' = [a \in Agents |-> agent'[a]]
  BY <1>1, <1>2, <1>4
<1>7. share \in [Agents -> Nat] /\ 0 \notin DOMAIN q
  BY <1>2, <1>4, <1>5
<1> HIDE DEF share
<1>8. /\ queue' \in [1..Len(q) -> Entries]
      /\ \A i \in DOMAIN q : /\ queue'[i].event = q[i].event /\ (q[i].leased => queue'[i].leased)
                             /\ i \in taken => queue'[i].leased
  <2>1. ASSUME NEW i \in DOMAIN q
        PROVE  /\ queue'[i] \in Entries /\ queue'[i].event = q[i].event
               /\ (q[i].leased => queue'[i].leased) /\ (i \in taken => queue'[i].leased)
    <3>1. PICK e : e = q[i]
      OBVIOUS
    <3>2. e \in Entries
      BY <1>2, <3>1
    <3>3. CASE i \in taken
      <4>1. queue'[i] = [e EXCEPT !.leased = TRUE]
        BY <1>1, <3>1, <3>3
      <4> QED
        BY <3>1, <3>2, <4>1 DEF Entries
    <3>4. CASE i \notin taken
      BY <1>1, <1>2, <3>4
    <3> QED
      BY <3>3, <3>4
  <2>2. queue' = [i \in 1..Len(q) |-> queue'[i]]
    BY <1>1, <1>2
  <2> QED
    BY <1>2, <2>1, <2>2
<1>9. queue' \in Seq(Entries) /\ DOMAIN queue' = DOMAIN q
  BY <1>2, <1>8, FunctionIsSeq
<1>10. agent' \in [Agents -> Leases]
  <2>1. \A i \in DOMAIN q : Leased(q[i].event) \in Leases
    <3>1. \A i \in DOMAIN q : q[i].event.id \in Sessions /\ q[i].event.type \in Types
      BY <1>2 DEF Entries, EventSet
    <3> QED
      BY <3>1 DEF Leased, Leases, Holding
  <2> QED
    BY <1>4, <1>5, <1>6, <2>1
<1>11. HandedOut(q, queue', agents, agent')
  <2>1. \A a, b \in Agents : share[a] = share[b] /\ share[a] \in DOMAIN q => a = b
    BY <1>5, <1>7
  <2>2. \A a \in Agents :
          \/ share[a] \notin DOMAIN q /\ agent'[a] = agents[a]
          \/ /\ share[a] \in DOMAIN q
             /\ ~q[share[a]].leased /\ queue'[share[a]].leased
             /\ agent'[a] = Leased(q[share[a]].event)
    BY <1>4, <1>5, <1>6, <1>7, <1>8
  <2> QED
    BY <1>7, <1>8, <1>9, <1>10, <2>1, <2>2 DEF HandedOut
<1>12. /\ parked' \in Seq(Agents) /\ DOMAIN parked' = 1..Len(parked')
       /\ Len(parked') = IF n + 1 <= Len(polls) THEN Len(polls) - n ELSE 0
       /\ \A j \in DOMAIN parked' : n + j \in DOMAIN polls /\ parked'[j] = polls[n + j]
  <2> DEFINE rest == SubSeq(polls, n + 1, Len(polls))
  <2>1. n + 1 \in Int /\ Len(polls) \in Int /\ \A j \in (n + 1)..Len(polls) : polls[j] \in Agents
    BY <1>2, <1>3
  <2>2. /\ rest \in Seq(Agents)
        /\ Len(rest) = IF n + 1 <= Len(polls) THEN Len(polls) - (n + 1) + 1 ELSE 0
        /\ \A j \in 1..(Len(polls) - (n + 1) + 1) : rest[j] = polls[(n + 1) + j - 1]
    BY <2>1, SubSeqProperties
  <2> HIDE DEF rest
  <2>3. parked' = rest
    <3>1. parked' = rest \o << >>
      BY <1>1 DEF rest
    <3> QED
      BY <2>2, <3>1, ConcatEmptySeq
  <2>4. DOMAIN rest = 1..Len(rest)
    BY <2>2, LenProperties
  <2>5. Len(rest) = IF n + 1 <= Len(polls) THEN Len(polls) - n ELSE 0
    BY <1>2, <1>3, <2>2
  <2>6. \A j \in DOMAIN rest : n + j \in DOMAIN polls /\ rest[j] = polls[n + j]
    <3> SUFFICES ASSUME NEW j \in DOMAIN rest PROVE n + j \in DOMAIN polls /\ rest[j] = polls[n + j]
      OBVIOUS
    <3>1. n + 1 <= Len(polls) /\ j \in 1..(Len(polls) - n)
      BY <1>2, <1>3, <2>4, <2>5
    <3>2. j \in 1..(Len(polls) - (n + 1) + 1) /\ (n + 1) + j - 1 = n + j
      BY <1>2, <1>3, <3>1
    <3>3. n + j \in 1..Len(polls)
      BY <1>2, <1>3, <3>1
    <3> QED
      BY <1>2, <2>2, <3>2, <3>3
  <2> QED
    BY <2>2, <2>3, <2>4, <2>5, <2>6
<1>13. Once(parked')
  <2> SUFFICES ASSUME NEW i \in DOMAIN parked', NEW j \in DOMAIN parked', parked'[i] = parked'[j]
               PROVE  i = j
    BY DEF Once
  <2>1. n + i = n + j
    BY <1>12 DEF Once
  <2> QED
    BY <1>3, <1>12, <2>1
<1>14. \A a \in Agents : share[a] # 0 => \E k \in 1..n : k \in DOMAIN polls /\ polls[k] = a
  BY <1>3, <1>5
<1>15. ASSUME NEW i \in DOMAIN parked'
       PROVE  agent'[parked'[i]] = agents[parked'[i]] /\ Holds(polls, parked'[i])
  <2>1. parked'[i] = polls[n + i] /\ n + i \in DOMAIN polls /\ i \in Nat \ {0} /\ polls[n + i] \in Agents
    BY <1>2, <1>12
  <2>2. share[polls[n + i]] = 0
    <3> SUFFICES ASSUME share[polls[n + i]] # 0 PROVE FALSE
      OBVIOUS
    <3>1. PICK k \in 1..n : k \in DOMAIN polls /\ polls[k] = polls[n + i]
      BY <1>14, <2>1
    <3>2. k = n + i
      BY <2>1, <3>1 DEF Once
    <3> QED
      BY <1>3, <2>1, <3>2
  <2> QED
    BY <1>6, <2>1, <2>2 DEF Holds
<1>16. ASSUME parked' # << >> PROVE \A i \in DOMAIN queue' : queue'[i].leased
  <2>1. n < Len(polls)
    <3>1. Len(parked') # 0
      BY <1>12, <1>16, EmptySeq
    <3> QED
      BY <1>2, <1>3, <1>12, <3>1
  <2>2. \A i \in DOMAIN q : i \in taken \/ q[i].leased
    BY <1>3, <2>1 DEF Available
  <2> QED
    BY <1>8, <1>9, <2>2
<1>17. ASSUME NEW a \in Agents, ~Holds(polls, a) PROVE agent'[a] = agents[a]
  BY <1>6, <1>14, <1>17 DEF Holds
<1>18. ASSUME polls # << >>, Available(q) # {} PROVE Len(parked') < Len(polls)
  <2>1. Len(polls) # 0
    BY <1>2, <1>18, EmptySeq
  <2>2. n = 0 => ~(n < Len(polls))
    BY <1>0, <1>3, <1>18
  <2> QED
    BY <1>2, <1>3, <1>12, <2>1, <2>2
<1> QED
  BY <1>11, <1>12, <1>13, <1>15, <1>16, <1>17, <1>18

-----------------------------------------------------------------------------
(* The inductive invariant.  Its parts take the state as parameters: an     *)
(* action changes it in stages (an entry leaves the queue, another one is   *)
(* appended, what is available is handed out), and each stage keeps them.   *)

Busy(x) == x.at \in {"scaffolding", "working"} /\ x.valid

\* What an agent holds is an event; a merge under way is of an answer.
Assigned(ag) ==
  \A a \in Agents :
    /\ ag[a].at \in Holding => ag[a].id \in Sessions /\ ag[a].type \in Types
    /\ ag[a].at = "scaffolding" => ag[a].type = "generate" /\ ag[a].valid
    /\ ag[a].at = "finishing" => ag[a].type \in Answers

\* The event of a lease that runs is in the queue and leased, unless it is a
\* generation that an answer has retired.
Handed(q, ag) ==
  \A a \in Agents :
    Busy(ag[a]) =>
      \/ \E i \in DOMAIN q : Key(q[i]) = <<ag[a].id, ag[a].type>> /\ q[i].leased
      \/ ag[a].type = "generate" /\ ~IsQueued(q, ag[a].id, ag[a].type)

Exclusive(ag) ==
  \A a, b \in Agents :
    Busy(ag[a]) /\ Busy(ag[b]) /\ ag[a].id = ag[b].id /\ ag[a].type = ag[b].type => a = b

Leasing(q, ag) == KeysOnce(q) /\ Assigned(ag) /\ Handed(q, ag) /\ Exclusive(ag)

\* The helper knows nothing of the session yet.
Untouched(s, jr, q, ag) ==
  /\ jr[s].phase = "new" /\ jr[s].pending = Nothing
  /\ \A i \in DOMAIN q : q[i].event.id # s
  /\ \A a \in Agents : ag[a].at \in Holding => ag[a].id # s

\* Nobody has begun to generate the variants of the session.
Awaited(s, fresh, jr, q, ag) ==
  \/ s \in fresh
  \/ jr[s].pending = Event(s, "generate")
  \/ \E i \in DOMAIN q : q[i].event = Event(s, "generate")
  \/ \E a \in Agents : ag[a].at = "scaffolding" /\ ag[a].id = s

\* Nothing but the request for variants has happened to it.
Calm(s, touched, jr, q, ag) ==
  /\ s \notin touched /\ ~jr[s].canceled
  /\ jr[s].pending \in {Nothing, Event(s, "generate")}
  /\ \A i \in DOMAIN q : q[i].event.id = s => q[i].event = Event(s, "generate")
  /\ \A a \in Agents : ag[a].at \in Holding /\ ag[a].id = s => ag[a].at = "scaffolding"

\* What the journal says is pending is of its session, and not a generation
\* that was answered.
Pends(s, jr) ==
  jr[s].pending # Nothing =>
    jr[s].pending.id = s /\ (jr[s].pending.type = "generate" => ~jr[s].canceled)

Story(s, fresh, touched, jr, q, ag) ==
  /\ s \in fresh => Untouched(s, jr, q, ag)
  /\ Awaited(s, fresh, jr, q, ag) => Calm(s, touched, jr, q, ag)
  /\ Pends(s, jr)

Retired(q, jr) ==
  \A i \in DOMAIN q : q[i].event.type = "generate" => ~jr[q[i].event.id].canceled

Consistent(fresh, touched, jr, q, ag) ==
  /\ q \in Seq(Entries) /\ ag \in [Agents -> Leases] /\ jr \in [Sessions -> Snapshots]
  /\ Leasing(q, ag) /\ Retired(q, jr)
  /\ \A s \in Sessions : Story(s, fresh, touched, jr, q, ag)

\* An agent waits in one place, and only an agent that waits.
Line(p, ag) ==
  /\ p \in Seq(Agents) /\ Once(p)
  /\ \A i \in DOMAIN p : ag[p[i]].at = "parked"

\* Sessions that the helper has not been asked to create, and those of which
\* the page or an agent has more than a first request.
Fresh ==
  {s \in Sessions : \/ s \in unused \cup capturing
                    \/ \E m \in requests : m.id = s /\ m.type = "generate"}
Touched ==
  {s \in Sessions : \/ s \in written
                    \/ \E m \in requests : m.id = s /\ m.type \notin {"checkpoint", "generate"}
                    \/ current = s /\ view \in {"cycling", "saving"}}

PageTyped ==
  /\ view \in Views /\ linked \in BOOLEAN
  /\ current \in Sessions \cup {NoSession} /\ awaiting \in Sessions \cup {NoSession}
  /\ gate \in Sessions \cup {NoSession}
  /\ capturing \subseteq Sessions /\ abandoned \subseteq Sessions
  /\ unused \subseteq Sessions /\ written \subseteq Sessions
  /\ requests \subseteq RequestSet
  /\ faults \in 0..MaxFaults

\* A session is created once: its id is unused, or its screenshot is under
\* way, or the request that creates it is.
CreatedOnce ==
  /\ view # "picking" => current \in Sessions
  /\ unused \cap capturing = {}
  /\ \A m \in requests :
       m.type = "generate" => m.after = NoSession /\ m.id \notin unused \cup capturing

IInv ==
  /\ PageTyped /\ CreatedOnce
  /\ Consistent(Fresh, Touched, journal, queue, agent)
  /\ Line(parked, agent) /\ NoPollWaitsBesideWork

LEMMA IInvTyped == IInv => TypeOK
BY DEF IInv, PageTyped, Consistent, Line, TypeOK, Entries, Leases, Snapshots

LEMMA Initially == Init => IInv
<1> SUFFICES ASSUME Init PROVE IInv
  OBVIOUS
<1>1. /\ queue = << >> /\ parked = << >> /\ agent = [a \in Agents |-> Idle]
      /\ journal = [s \in Sessions |-> BaseSnapshot] /\ written = {}
      /\ capturing = {} /\ unused = Sessions \ Foreign /\ faults = 0
      /\ awaiting = NoSession /\ gate = NoSession /\ linked = TRUE /\ abandoned = {}
  BY DEF Init
<1>2. PICK s \in Foreign \cup {NoSession} :
        /\ current = s
        /\ view = IF s = NoSession THEN "picking" ELSE "generating"
        /\ requests = IF s = NoSession THEN {}
                      ELSE {[id |-> s, type |-> "checkpoint", after |-> NoSession]}
  BY DEF Init
<1>3. \A m \in requests : m.type = "checkpoint" /\ m \in RequestSet
  BY <1>2, LiveAssumption DEF RequestSet
<1>4. PageTyped
  BY <1>1, <1>2, <1>3, LiveAssumption DEF PageTyped, Views
<1>5. CreatedOnce
  BY <1>1, <1>2, <1>3, LiveAssumption DEF CreatedOnce
<1>6. queue \in Seq(Entries) /\ parked \in Seq(Agents) /\ DOMAIN queue = {} /\ DOMAIN parked = {}
  BY <1>1
<1>7. Idle \in Leases /\ Idle.at = "idle" /\ BaseSnapshot \in Snapshots
      /\ BaseSnapshot.phase = "new" /\ BaseSnapshot.pending = Nothing /\ ~BaseSnapshot.canceled
  BY DEF Idle, Leases, Holding, BaseSnapshot, Snapshots, Phases
<1>8. \A a \in Agents : agent[a].at = "idle"
  BY <1>1, <1>7
<1>9. Leasing(queue, agent) /\ Retired(queue, journal)
  BY <1>6, <1>8 DEF Leasing, KeysOnce, Assigned, Handed, Exclusive, Busy, Retired, Holding
<1>10. ASSUME NEW r \in Sessions PROVE Story(r, Fresh, Touched, journal, queue, agent)
  <2>1. journal[r] = BaseSnapshot
    BY <1>1
  <2>2. r \notin Touched
    BY <1>1, <1>2, <1>3 DEF Touched
  <2> QED
    BY <1>6, <1>7, <1>8, <2>1, <2>2 DEF Story, Untouched, Calm, Pends, Holding
<1>11. Consistent(Fresh, Touched, journal, queue, agent)
  BY <1>1, <1>6, <1>7, <1>9, <1>10 DEF Consistent
<1>12. Line(parked, agent)
  BY <1>6 DEF Line, Once
<1> QED
  BY <1>1, <1>4, <1>5, <1>11, <1>12 DEF IInv, NoPollWaitsBesideWork

-----------------------------------------------------------------------------
(* The stages of a step. *)

\* Two records are of the same event if their keys agree.
LEMMA KeyFacts ==
  ASSUME NEW e \in Entries
  PROVE  /\ e.event \in EventSet /\ e.leased \in BOOLEAN
         /\ e.event.id \in Sessions /\ e.event.type \in Types /\ e.event.prepared \in BOOLEAN
         /\ e.event = [id |-> e.event.id, type |-> e.event.type, prepared |-> e.event.prepared]
         /\ e = [event |-> e.event, leased |-> e.leased]
         /\ Key(e) = <<e.event.id, e.event.type>>
         /\ e.event = Event(e.event.id, "generate") <=> e.event.type = "generate" /\ ~e.event.prepared
<1>1. PICK v \in EventSet, l \in BOOLEAN : e = [event |-> v, leased |-> l]
  BY DEF Entries
<1>2. v = [id |-> v.id, type |-> v.type, prepared |-> v.prepared]
      /\ v.id \in Sessions /\ v.type \in Types /\ v.prepared \in BOOLEAN
  BY DEF EventSet
<1>3. v = Event(v.id, "generate") <=> v.type = "generate" /\ ~v.prepared
  BY <1>2 DEF Event
<1> QED
  BY <1>1, <1>2, <1>3 DEF Key

LEMMA EntriesOf ==
  ASSUME NEW q \in Seq(Entries)
  PROVE  \A i \in DOMAIN q :
           /\ q[i] \in Entries
           /\ q[i].event \in EventSet /\ q[i].leased \in BOOLEAN
           /\ q[i].event.id \in Sessions /\ q[i].event.type \in Types
           /\ Key(q[i]) = <<q[i].event.id, q[i].event.type>>
           /\ q[i].event = Event(q[i].event.id, "generate") <=>
                q[i].event.type = "generate" /\ ~q[i].event.prepared
<1>1. \A i \in DOMAIN q : q[i] \in Entries
  BY ElementOfSeq, LenProperties
<1> QED
  BY <1>1, KeyFacts

LEMMA UnleasedEntry ==
  ASSUME NEW e \in Entries, NEW f, f = [e EXCEPT !.leased = FALSE]
  PROVE  f \in Entries /\ f.event = e.event /\ Key(f) = Key(e)
<1>1. PICK v \in EventSet, l \in BOOLEAN : e = [event |-> v, leased |-> l]
  BY DEF Entries
<1>2. f = [event |-> v, leased |-> FALSE]
  BY <1>1
<1> QED
  BY <1>1, <1>2 DEF Entries, Key

LEMMA PreparedEvent ==
  ASSUME NEW s \in Sessions, NEW e, e = [Event(s, "generate") EXCEPT !.prepared = TRUE]
  PROVE  /\ e \in EventSet /\ e # Event(s, "generate")
         /\ e.id = s /\ e.type = "generate" /\ Key(Entry(e)) = <<s, "generate">>
<1>1. PICK v : v = [id |-> s, type |-> "generate", prepared |-> FALSE]
  OBVIOUS
<1>2. v = Event(s, "generate")
  BY <1>1 DEF Event
<1>3. e = [v EXCEPT !.prepared = TRUE]
  BY <1>2
<1>4. e = [id |-> s, type |-> "generate", prepared |-> TRUE]
  BY <1>1, <1>3
<1>5. e \in EventSet
  <2>1. PICK p \in BOOLEAN : p = TRUE
    OBVIOUS
  <2>2. PICK type \in Types : type = "generate"
    BY DEF Types
  <2>3. [id |-> s, type |-> type, prepared |-> p] \in EventSet
    BY DEF EventSet
  <2> QED
    BY <1>4, <2>1, <2>2, <2>3
<1>6. e.prepared /\ ~v.prepared
  BY <1>1, <1>4
<1> QED
  BY <1>2, <1>4, <1>5, <1>6 DEF Key, Entry

\* Handing out available entries.
LEMMA HandedOutKeeps ==
  ASSUME NEW fresh, NEW touched, NEW jr, NEW q, NEW ag, NEW q2, NEW ag2,
         Consistent(fresh, touched, jr, q, ag), HandedOut(q, q2, ag, ag2)
  PROVE  Consistent(fresh, touched, jr, q2, ag2)
<1> PICK share \in [Agents -> Nat] :
       /\ \A a \in Agents :
            \/ share[a] \notin DOMAIN q /\ ag2[a] = ag[a]
            \/ /\ share[a] \in DOMAIN q
               /\ ~q[share[a]].leased /\ q2[share[a]].leased
               /\ ag2[a] = Leased(q[share[a]].event)
       /\ \A a, b \in Agents : share[a] = share[b] /\ share[a] \in DOMAIN q => a = b
  BY DEF HandedOut
<1>1. /\ q \in Seq(Entries) /\ ag \in [Agents -> Leases] /\ jr \in [Sessions -> Snapshots]
      /\ Leasing(q, ag) /\ Retired(q, jr)
      /\ \A s \in Sessions : Story(s, fresh, touched, jr, q, ag)
  BY DEF Consistent
<1>2. /\ q2 \in Seq(Entries) /\ DOMAIN q2 = DOMAIN q /\ ag2 \in [Agents -> Leases]
      /\ \A i \in DOMAIN q : q2[i].event = q[i].event /\ (q[i].leased => q2[i].leased)
  BY DEF HandedOut
<1>3. \A i \in DOMAIN q :
        /\ Key(q2[i]) = Key(q[i]) /\ Key(q[i]) = <<q[i].event.id, q[i].event.type>>
        /\ q[i].event.id \in Sessions /\ q[i].event.type \in Types
        /\ q[i].event = Event(q[i].event.id, "generate") <=>
             q[i].event.type = "generate" /\ ~q[i].event.prepared
  BY <1>1, <1>2, EntriesOf DEF Key
<1>4. \A a \in Agents : share[a] \in DOMAIN q =>
        /\ ag2[a].id = q[share[a]].event.id /\ ag2[a].type = q[share[a]].event.type
        /\ ag2[a].valid /\ Busy(ag2[a])
        /\ ag2[a].at \in {"scaffolding", "working"}
        /\ ag2[a].at = "scaffolding" <=> q[share[a]].event = Event(ag2[a].id, "generate")
  <2> SUFFICES ASSUME NEW a \in Agents, share[a] \in DOMAIN q
               PROVE  /\ ag2[a].id = q[share[a]].event.id /\ ag2[a].type = q[share[a]].event.type
                      /\ ag2[a].valid /\ Busy(ag2[a])
                      /\ ag2[a].at \in {"scaffolding", "working"}
                      /\ ag2[a].at = "scaffolding" <=> q[share[a]].event = Event(ag2[a].id, "generate")
    OBVIOUS
  <2>1. PICK v : v = q[share[a]].event
    OBVIOUS
  <2>2. ag2[a] = [at |-> IF v.type = "generate" /\ ~v.prepared THEN "scaffolding" ELSE "working",
                  id |-> v.id, type |-> v.type, valid |-> TRUE]
    BY <2>1 DEF Leased
  <2> QED
    BY <1>3, <2>1, <2>2 DEF Busy
<1>5. \A id, type : IsQueued(q2, id, type) <=> IsQueued(q, id, type)
  BY <1>2 DEF IsQueued
<1>6. KeysOnce(q2)
  BY <1>1, <1>2, <1>3 DEF Leasing, KeysOnce
<1>7. Assigned(ag2)
  <2> SUFFICES ASSUME NEW a \in Agents
               PROVE  /\ ag2[a].at \in Holding => ag2[a].id \in Sessions /\ ag2[a].type \in Types
                      /\ ag2[a].at = "scaffolding" => ag2[a].type = "generate" /\ ag2[a].valid
                      /\ ag2[a].at = "finishing" => ag2[a].type \in Answers
    BY DEF Assigned
  <2>1. CASE share[a] \in DOMAIN q
    BY <1>3, <1>4, <2>1
  <2>2. CASE share[a] \notin DOMAIN q
    BY <1>1, <2>2 DEF Leasing, Assigned
  <2> QED
    BY <2>1, <2>2
<1>8. Handed(q2, ag2)
  <2> SUFFICES ASSUME NEW a \in Agents, Busy(ag2[a])
               PROVE  \/ \E i \in DOMAIN q2 : Key(q2[i]) = <<ag2[a].id, ag2[a].type>> /\ q2[i].leased
                      \/ ag2[a].type = "generate" /\ ~IsQueued(q2, ag2[a].id, ag2[a].type)
    BY DEF Handed
  <2>1. CASE share[a] \in DOMAIN q
    BY <1>2, <1>3, <1>4, <2>1
  <2>2. CASE share[a] \notin DOMAIN q
    <3>1. ag2[a] = ag[a]
      BY <2>2
    <3>2. CASE \E i \in DOMAIN q : Key(q[i]) = <<ag[a].id, ag[a].type>> /\ q[i].leased
      BY <1>2, <1>3, <3>1, <3>2
    <3>3. CASE ag[a].type = "generate" /\ ~IsQueued(q, ag[a].id, ag[a].type)
      BY <1>5, <3>1, <3>3
    <3> QED
      BY <1>1, <3>1, <3>2, <3>3 DEF Leasing, Handed
  <2> QED
    BY <2>1, <2>2
<1>9. Exclusive(ag2)
  <2>1. ASSUME NEW a \in Agents, NEW b \in Agents, Busy(ag2[b]),
               ag2[a].id = ag2[b].id, ag2[a].type = ag2[b].type,
               share[a] \in DOMAIN q, share[b] \notin DOMAIN q
        PROVE  FALSE
    <3>1. Key(q[share[a]]) = <<ag[b].id, ag[b].type>> /\ ~q[share[a]].leased /\ Busy(ag[b])
          /\ ag[b].id = q[share[a]].event.id /\ ag[b].type = q[share[a]].event.type
      BY <1>3, <1>4, <2>1
    <3>2. CASE \E i \in DOMAIN q : Key(q[i]) = <<ag[b].id, ag[b].type>> /\ q[i].leased
      <4>1. PICK i \in DOMAIN q : Key(q[i]) = <<ag[b].id, ag[b].type>> /\ q[i].leased
        BY <3>2
      <4>2. i = share[a]
        BY <1>1, <2>1, <3>1, <4>1 DEF Leasing, KeysOnce
      <4> QED
        BY <3>1, <4>1, <4>2
    <3>3. CASE ~IsQueued(q, ag[b].id, ag[b].type)
      BY <2>1, <3>1, <3>3 DEF IsQueued
    <3> QED
      BY <1>1, <3>1, <3>2, <3>3 DEF Leasing, Handed
  <2> SUFFICES ASSUME NEW a \in Agents, NEW b \in Agents, Busy(ag2[a]), Busy(ag2[b]),
                      ag2[a].id = ag2[b].id, ag2[a].type = ag2[b].type
               PROVE  a = b
    BY DEF Exclusive
  <2>2. CASE share[a] \in DOMAIN q /\ share[b] \in DOMAIN q
    <3>1. Key(q[share[a]]) = Key(q[share[b]])
      BY <1>3, <1>4, <2>2
    <3> QED
      BY <1>1, <2>2, <3>1 DEF Leasing, KeysOnce
  <2>3. CASE share[a] \notin DOMAIN q /\ share[b] \notin DOMAIN q
    BY <1>1, <2>3 DEF Leasing, Exclusive
  <2> QED
    BY <2>1, <2>2, <2>3
<1>10. Retired(q2, jr)
  BY <1>1, <1>2 DEF Retired
<1>11. ASSUME NEW s \in Sessions PROVE Story(s, fresh, touched, jr, q2, ag2)
  <2>1. Story(s, fresh, touched, jr, q, ag)
    BY <1>1
  <2>2. ASSUME s \in fresh PROVE Untouched(s, jr, q2, ag2)
    BY <1>2, <1>4, <2>1, <2>2 DEF Story, Untouched
  <2>3. ASSUME Awaited(s, fresh, jr, q2, ag2) PROVE Awaited(s, fresh, jr, q, ag)
    BY <1>2, <1>3, <1>4, <2>3 DEF Awaited
  <2>4. ASSUME Awaited(s, fresh, jr, q, ag) PROVE Calm(s, touched, jr, q2, ag2)
    BY <1>2, <1>3, <1>4, <2>1, <2>4 DEF Story, Calm
  <2> QED
    BY <2>1, <2>2, <2>3, <2>4 DEF Story
<1> QED
  BY <1>1, <1>2, <1>6, <1>7, <1>8, <1>9, <1>10, <1>11 DEF Consistent, Leasing

\* Serving the polls that wait.
LEMMA FlushKeeps ==
  ASSUME NEW fresh, NEW touched, NEW jr, NEW q, NEW agents,
         Consistent(fresh, touched, jr, q, agents), Line(parked, agents), Flush(q, agents)
  PROVE  /\ Consistent(fresh, touched, jr, queue', agent')
         /\ Line(parked', agent') /\ NoPollWaitsBesideWork'
         /\ \A a \in Agents : agents[a].at # "parked" => agent'[a] = agents[a]
<1>1. /\ q \in Seq(Entries) /\ agents \in [Agents -> Leases]
      /\ parked \in Seq(Agents) /\ Once(parked) /\ \A i \in DOMAIN parked : agents[parked[i]].at = "parked"
      /\ Serve(q, parked, agents, << >>)
  BY DEF Consistent, Line, Flush
<1>2. /\ HandedOut(q, queue', agents, agent')
      /\ parked' \in Seq(Agents) /\ Once(parked')
      /\ \A i \in DOMAIN parked' : agent'[parked'[i]] = agents[parked'[i]] /\ Holds(parked, parked'[i])
      /\ parked' # << >> => \A i \in DOMAIN queue' : queue'[i].leased
      /\ \A a \in Agents : ~Holds(parked, a) => agent'[a] = agents[a]
  BY <1>1, ServeFacts
<1>3. Line(parked', agent')
  BY <1>1, <1>2 DEF Line, Holds
<1>4. NoPollWaitsBesideWork'
  BY <1>2 DEF NoPollWaitsBesideWork, Available
<1>5. \A a \in Agents : agents[a].at # "parked" => agent'[a] = agents[a]
  BY <1>1, <1>2 DEF Holds
<1> QED
  BY <1>2, <1>3, <1>4, <1>5, HandedOutKeeps

\* What may become of what an agent holds when a reply, a timer or a restart
\* takes it away: nothing, the same without its lease, or a merge to finish.
Loosened(new, old) ==
  \/ new.at \in {"idle", "parked"}
  \/ /\ new.id = old.id /\ new.type = old.type /\ (new.valid => old.valid)
     /\ \/ new.at = old.at
        \/ new.at = "finishing" /\ old.at = "working" /\ old.type \in Answers /\ ~new.valid

Loosening(ag2, ag) ==
  /\ ag2 \in [Agents -> Leases]
  /\ \A a \in Agents : /\ Loosened(ag2[a], ag[a])
                       /\ ag2[a].at = "scaffolding" => ag2[a].valid

Fewer(q2, q) ==
  /\ q2 \in Seq(Entries) /\ KeysOnce(q2)
  /\ \A j \in DOMAIN q2 : \E i \in DOMAIN q : q2[j].event = q[i].event

\* Entries leave the queue and agents lose what they hold.
LEMMA LoosenedKeeps ==
  ASSUME NEW fresh, NEW touched, NEW jr, NEW q, NEW ag, NEW q2, NEW ag2,
         Consistent(fresh, touched, jr, q, ag),
         Fewer(q2, q), Loosening(ag2, ag), Handed(q2, ag2)
  PROVE  Consistent(fresh, touched, jr, q2, ag2)
<1>1. /\ q \in Seq(Entries) /\ ag \in [Agents -> Leases] /\ jr \in [Sessions -> Snapshots]
      /\ Leasing(q, ag) /\ Retired(q, jr)
      /\ \A s \in Sessions : Story(s, fresh, touched, jr, q, ag)
  BY DEF Consistent
<1>2. \A a \in Agents :
        /\ ag2[a].at \in Holding => ag[a].at \in Holding /\ ag2[a].id = ag[a].id /\ ag2[a].type = ag[a].type
        /\ ag2[a].at = "scaffolding" => ag[a].at = "scaffolding" /\ ag2[a].valid
        /\ ag2[a].at \in Holding /\ ag[a].at = "scaffolding" => ag2[a].at = "scaffolding"
        /\ ag2[a].at = "finishing" => ag[a].at = "finishing" \/ ag[a].type \in Answers
        /\ Busy(ag2[a]) => Busy(ag[a])
  BY DEF Loosening, Loosened, Holding, Busy
<1>3. Assigned(ag2)
  BY <1>1, <1>2 DEF Leasing, Assigned, Holding
<1>4. Exclusive(ag2)
  BY <1>1, <1>2 DEF Leasing, Exclusive, Busy, Holding
<1>5. Retired(q2, jr)
  BY <1>1 DEF Retired, Fewer
<1>6. ASSUME NEW s \in Sessions PROVE Story(s, fresh, touched, jr, q2, ag2)
  <2>1. Story(s, fresh, touched, jr, q, ag)
    BY <1>1
  <2>2. ASSUME s \in fresh PROVE Untouched(s, jr, q2, ag2)
    BY <1>2, <2>1, <2>2 DEF Story, Untouched, Fewer
  <2>3. ASSUME Awaited(s, fresh, jr, q2, ag2) PROVE Awaited(s, fresh, jr, q, ag)
    BY <1>2, <2>3 DEF Awaited, Holding, Fewer
  <2>4. ASSUME Awaited(s, fresh, jr, q, ag) PROVE Calm(s, touched, jr, q2, ag2)
    BY <1>2, <2>1, <2>4 DEF Story, Calm, Fewer
  <2> QED
    BY <2>1, <2>2, <2>3, <2>4 DEF Story
<1> QED
  BY <1>1, <1>3, <1>4, <1>5, <1>6 DEF Consistent, Leasing, Fewer, Loosening

\* The page learns of no session and forgets some.
LEMMA PageKeeps ==
  ASSUME NEW fresh, NEW touched, NEW jr, NEW q, NEW ag, NEW fresh2, NEW touched2,
         Consistent(fresh, touched, jr, q, ag), fresh2 \subseteq fresh, touched2 \subseteq touched
  PROVE  Consistent(fresh2, touched2, jr, q, ag)
<1>1. ASSUME NEW s \in Sessions, Story(s, fresh, touched, jr, q, ag)
      PROVE  Story(s, fresh2, touched2, jr, q, ag)
  BY <1>1 DEF Story, Awaited, Calm
<1> QED
  BY <1>1 DEF Consistent

\* The journal of a session whose variants somebody began to generate, or
\* that never will be, is written, or its files are.
LEMMA JournalKeeps ==
  ASSUME NEW fresh, NEW touched, NEW jr, NEW q, NEW ag, NEW s \in Sessions,
         NEW fresh2, NEW touched2, NEW jr2,
         Consistent(fresh, touched, jr, q, ag), ~Awaited(s, fresh, jr, q, ag),
         fresh2 \subseteq fresh, touched2 \subseteq touched \cup {s},
         jr2 \in [Sessions -> Snapshots], \A r \in Sessions \ {s} : jr2[r] = jr[r],
         jr2[s].pending # Event(s, "generate"), Pends(s, jr2),
         \/ jr2[s].canceled => jr[s].canceled
         \/ \A i \in DOMAIN q : q[i].event.type = "generate" => q[i].event.id # s
  PROVE  Consistent(fresh2, touched2, jr2, q, ag)
<1>1. /\ q \in Seq(Entries) /\ ag \in [Agents -> Leases] /\ jr \in [Sessions -> Snapshots]
      /\ Leasing(q, ag) /\ Retired(q, jr)
      /\ \A r \in Sessions : Story(r, fresh, touched, jr, q, ag)
  BY DEF Consistent
<1>2. Retired(q, jr2)
  <2>1. \A i \in DOMAIN q : q[i].event.id \in Sessions
    BY <1>1, EntriesOf
  <2> QED
    BY <1>1, <2>1 DEF Retired
<1>3. ASSUME NEW r \in Sessions \ {s} PROVE Story(r, fresh2, touched2, jr2, q, ag)
  <2>1. Story(r, fresh, touched, jr, q, ag) /\ jr2[r] = jr[r]
    BY <1>1
  <2>2. r \in fresh2 => Untouched(r, jr2, q, ag)
    BY <2>1 DEF Story, Untouched
  <2>3. Awaited(r, fresh2, jr2, q, ag) => Awaited(r, fresh, jr, q, ag)
    BY <2>1 DEF Awaited
  <2>4. Awaited(r, fresh, jr, q, ag) => Calm(r, touched2, jr2, q, ag)
    BY <2>1 DEF Story, Calm
  <2> QED
    BY <2>1, <2>2, <2>3, <2>4 DEF Story, Pends
<1>4. Story(s, fresh2, touched2, jr2, q, ag)
  <2>1. ~Awaited(s, fresh2, jr2, q, ag) /\ s \notin fresh2
    BY DEF Awaited
  <2> QED
    BY <2>1 DEF Story
<1> QED
  BY <1>1, <1>2, <1>3, <1>4 DEF Consistent

LEMMA AppendedEntry ==
  ASSUME NEW q \in Seq(Entries), NEW e \in EventSet, NEW t, t = Append(q, Entry(e)),
         NEW n, n = Len(q) + 1
  PROVE  /\ t \in Seq(Entries) /\ DOMAIN t = DOMAIN q \cup {n}
         /\ t[n] = Entry(e) /\ \A i \in DOMAIN q : t[i] = q[i]
<1>1. PICK x \in Entries : x = Entry(e)
  BY DEF Entry, Entries
<1>2. t = Append(q, x)
  BY <1>1
<1> QED
  BY <1>1, <1>2, Appended

\* Another event of such a session is queued.
LEMMA AppendKeeps ==
  ASSUME NEW fresh, NEW touched, NEW jr, NEW q, NEW ag, NEW e \in EventSet, NEW q2,
         Consistent(fresh, touched, jr, q, ag), ~Awaited(e.id, fresh, jr, q, ag),
         e.type # "generate", q2 = Enqueued(q, e)
  PROVE  Consistent(fresh, touched, jr, q2, ag)
<1>1. /\ q \in Seq(Entries) /\ ag \in [Agents -> Leases] /\ jr \in [Sessions -> Snapshots]
      /\ Leasing(q, ag) /\ Retired(q, jr)
      /\ \A s \in Sessions : Story(s, fresh, touched, jr, q, ag)
  BY DEF Consistent
<1>2. CASE IsQueued(q, e.id, e.type)
  BY <1>2 DEF Enqueued
<1>3. CASE ~IsQueued(q, e.id, e.type)
  <2>1. q2 = Append(q, Entry(e)) /\ Entry(e) \in Entries
    BY <1>3 DEF Enqueued, Entry, Entries
  <2>2. PICK n : n = Len(q) + 1
    OBVIOUS
  <2>3. /\ q2 \in Seq(Entries) /\ DOMAIN q2 = DOMAIN q \cup {n}
        /\ q2[n] = Entry(e) /\ \A i \in DOMAIN q : q2[i] = q[i]
    BY <1>1, <2>1, <2>2, AppendedEntry
  <2>4. q2[n].event = e /\ ~q2[n].leased
    BY <2>3 DEF Entry
  <2>5. \A i \in DOMAIN q : Key(q[i]) # <<e.id, e.type>>
    BY <1>3 DEF IsQueued, Key
  <2>6. Key(q2[n]) = <<e.id, e.type>>
    BY <2>4 DEF Key
  <2>7. KeysOnce(q2)
    BY <1>1, <2>3, <2>5, <2>6 DEF Leasing, KeysOnce
  <2>8. ASSUME NEW a \in Agents, Busy(ag[a])
        PROVE  \/ \E i \in DOMAIN q2 : Key(q2[i]) = <<ag[a].id, ag[a].type>> /\ q2[i].leased
               \/ ag[a].type = "generate" /\ ~IsQueued(q2, ag[a].id, ag[a].type)
    <3>1. CASE \E i \in DOMAIN q : Key(q[i]) = <<ag[a].id, ag[a].type>> /\ q[i].leased
      BY <2>3, <3>1
    <3>2. CASE ag[a].type = "generate" /\ ~IsQueued(q, ag[a].id, ag[a].type)
      BY <2>3, <2>4, <3>2 DEF IsQueued
    <3> QED
      BY <1>1, <2>8, <3>1, <3>2 DEF Leasing, Handed
  <2>9. Handed(q2, ag)
    BY <2>8 DEF Handed
  <2>10. Retired(q2, jr)
    BY <1>1, <2>3, <2>4 DEF Retired
  <2>11. e # Event(e.id, "generate") /\ e.id \in Sessions
    BY DEF Event, EventSet
  <2>12. ASSUME NEW s \in Sessions, s # e.id PROVE Story(s, fresh, touched, jr, q2, ag)
    <3>1. Story(s, fresh, touched, jr, q, ag)
      BY <1>1
    <3>2. e # Event(s, "generate")
      BY DEF Event
    <3> QED
      BY <2>3, <2>4, <2>12, <3>1, <3>2 DEF Story, Untouched, Awaited, Calm
  <2>13. Story(e.id, fresh, touched, jr, q2, ag)
    <3>1. ~Awaited(e.id, fresh, jr, q2, ag)
      BY <2>3, <2>4, <2>11 DEF Awaited
    <3>2. e.id \notin fresh /\ Pends(e.id, jr)
      BY <1>1, <2>11 DEF Awaited, Story
    <3> QED
      BY <3>1, <3>2 DEF Story
  <2> QED
    BY <1>1, <2>3, <2>7, <2>9, <2>10, <2>12, <2>13 DEF Consistent, Leasing
<1> QED
  BY <1>2, <1>3

-----------------------------------------------------------------------------
(* Entries that leave the queue, leases that are revoked. *)

\* The generation that an answer retires.
LEMMA UnretiredKeeps ==
  ASSUME NEW fresh, NEW touched, NEW jr, NEW q, NEW ag, NEW s \in Sessions, NEW q2,
         Consistent(fresh, touched, jr, q, ag), q2 = Unretired(q, s)
  PROVE  /\ Consistent(fresh, touched, jr, q2, ag)
         /\ \A j \in DOMAIN q2 : /\ \E i \in DOMAIN q : q2[j] = q[i]
                                 /\ q2[j].event.type = "generate" => q2[j].event.id # s
         /\ \A i \in DOMAIN q : q[i].event.type # "generate" => \E j \in DOMAIN q2 : q2[j] = q[i]
<1>1. q \in Seq(Entries) /\ ag \in [Agents -> Leases] /\ Leasing(q, ag)
  BY DEF Consistent
<1>2. CASE ~IsQueued(q, s, "generate")
  BY <1>2 DEF Unretired, IsQueued
<1>3. CASE IsQueued(q, s, "generate")
  <2>1. \E i \in DOMAIN q : Key(q[i]) = <<s, "generate">>
    BY <1>1, <1>3, EntriesOf DEF IsQueued
  <2>2. PICK k \in DOMAIN q : Key(q[k]) = <<s, "generate">> /\ q2 = RemoveAt(q, k)
    BY <1>3, <2>1 DEF Unretired
  <2>3. q[k].event.id = s /\ q[k].event.type = "generate"
    BY <1>1, <2>2, EntriesOf
  <2>4. /\ q2 \in Seq(Entries) /\ KeysOnce(q2)
        /\ \A j \in DOMAIN q2 : \E i \in DOMAIN q : i # k /\ q2[j] = q[i]
        /\ \A i \in DOMAIN q : i # k => \E j \in DOMAIN q2 : q2[j] = q[i]
    BY <1>1, <2>2, RemovedEntry DEF Leasing
  <2>5. \A i \in DOMAIN q : i # k => ~(q[i].event.id = s /\ q[i].event.type = "generate")
    BY <1>1, <2>2, EntriesOf DEF Leasing, KeysOnce
  <2>6. \A j \in DOMAIN q2 : q2[j].event.type = "generate" => q2[j].event.id # s
    BY <2>4, <2>5
  <2>7. ASSUME NEW a \in Agents, Busy(ag[a])
        PROVE  \/ \E j \in DOMAIN q2 : Key(q2[j]) = <<ag[a].id, ag[a].type>> /\ q2[j].leased
               \/ ag[a].type = "generate" /\ ~IsQueued(q2, ag[a].id, ag[a].type)
    <3>1. CASE \E i \in DOMAIN q : Key(q[i]) = <<ag[a].id, ag[a].type>> /\ q[i].leased
      <4>1. PICK i \in DOMAIN q : Key(q[i]) = <<ag[a].id, ag[a].type>> /\ q[i].leased
        BY <3>1
      <4>2. CASE i = k
        BY <2>2, <2>6, <4>1, <4>2 DEF IsQueued
      <4>3. CASE i # k
        BY <2>4, <4>1, <4>3
      <4> QED
        BY <4>2, <4>3
    <3>2. CASE ag[a].type = "generate" /\ ~IsQueued(q, ag[a].id, ag[a].type)
      BY <2>4, <3>2 DEF IsQueued
    <3> QED
      BY <1>1, <2>7, <3>1, <3>2 DEF Leasing, Handed
  <2>8. Handed(q2, ag)
    BY <2>7 DEF Handed
  <2>9. Fewer(q2, q)
    BY <2>4 DEF Fewer
  <2>10. Loosening(ag, ag)
    BY <1>1 DEF Loosening, Loosened, Leasing, Assigned
  <2>11. Consistent(fresh, touched, jr, q2, ag)
    BY <2>8, <2>9, <2>10, LoosenedKeeps
  <2> QED
    BY <2>3, <2>4, <2>6, <2>11
<1> QED
  BY <1>2, <1>3

\* Agents without the lease of an event.
LEMMA RevokedFacts ==
  ASSUME agent \in [Agents -> Leases], NEW id, NEW type, NEW ag2, ag2 = Revoked(id, type)
  PROVE  /\ ag2 \in [Agents -> Leases]
         /\ \A a \in Agents :
              /\ ag2[a].at = agent[a].at /\ ag2[a].id = agent[a].id /\ ag2[a].type = agent[a].type
              /\ ag2[a].valid <=> agent[a].valid /\ <<agent[a].id, agent[a].type>> # <<id, type>>
<1>1. ASSUME NEW a \in Agents
      PROVE  /\ ag2[a] \in Leases
             /\ ag2[a].at = agent[a].at /\ ag2[a].id = agent[a].id /\ ag2[a].type = agent[a].type
             /\ ag2[a].valid <=> agent[a].valid /\ <<agent[a].id, agent[a].type>> # <<id, type>>
  <2>1. PICK x \in Leases : x = agent[a]
    OBVIOUS
  <2>2. PICK b \in BOOLEAN : b <=> (x.valid /\ <<x.id, x.type>> # <<id, type>>)
    OBVIOUS
  <2>3. ag2[a] = [x EXCEPT !.valid = x.valid /\ <<x.id, x.type>> # <<id, type>>]
    BY <2>1 DEF Revoked
  <2>4. (x.valid /\ <<x.id, x.type>> # <<id, type>>) = b
    BY <2>2 DEF Leases
  <2>5. ag2[a] = [x EXCEPT !.valid = b]
    BY <2>3, <2>4
  <2>6. [x EXCEPT !.valid = b] = [at |-> x.at, id |-> x.id, type |-> x.type, valid |-> b]
    BY DEF Leases
  <2>7. PICK y : y = [at |-> x.at, id |-> x.id, type |-> x.type, valid |-> b]
    OBVIOUS
  <2>8. ag2[a] = y
    BY <2>5, <2>6, <2>7
  <2> QED
    BY <2>1, <2>2, <2>7, <2>8 DEF Leases
<1>2. ag2 = [a \in Agents |-> ag2[a]]
  BY DEF Revoked
<1> QED
  BY <1>1, <1>2

\* What acknowledging an event takes out of the queue.
LEMMA RemainingFacts ==
  ASSUME queue \in Seq(Entries), KeysOnce(queue), Nothing \notin Types,
         NEW id, NEW source, NEW t, t = Remaining(id, source)
  PROVE  /\ t \in Seq(Entries) /\ KeysOnce(t)
         /\ \A j \in DOMAIN t : \E i \in DOMAIN queue : t[j] = queue[i]
         /\ \A i \in DOMAIN queue :
              Key(queue[i]) # <<id, Acknowledged(id, source)>> => \E j \in DOMAIN t : t[j] = queue[i]
         /\ Acknowledged(id, source) \in Types \cup {Nothing}
         /\ source \in Types => Acknowledged(id, source) \in {source, Nothing}
<1>1. Len(queue) \in Nat /\ DOMAIN queue = 1..Len(queue)
  BY LenProperties
<1>2. CASE Matching(id, source) = {}
  BY <1>2 DEF Remaining, Acknowledged
<1>3. CASE Matching(id, source) # {}
  <2>1. Matching(id, source) \subseteq DOMAIN queue /\ Matching(id, source) \subseteq Nat
    BY <1>1 DEF Matching
  <2>2. PICK k \in Matching(id, source) : k = Min(Matching(id, source))
    BY <1>3, <2>1, MinOf
  <2>3. /\ k \in DOMAIN queue /\ queue[k].event.id = id
        /\ source \in {Nothing, queue[k].event.type}
    BY DEF Matching
  <2>4. t = RemoveAt(queue, k) /\ Acknowledged(id, source) = queue[k].event.type
    BY <1>3, <2>2 DEF Remaining, Acknowledged
  <2>5. queue[k].event.type \in Types /\ Key(queue[k]) = <<id, queue[k].event.type>>
    BY <2>3, EntriesOf
  <2>6. /\ t \in Seq(Entries) /\ KeysOnce(t)
        /\ \A j \in DOMAIN t : \E i \in DOMAIN queue : i # k /\ t[j] = queue[i]
        /\ \A i \in DOMAIN queue : i # k => \E j \in DOMAIN t : t[j] = queue[i]
    BY <2>3, <2>4, RemovedEntry
  <2> QED
    BY <2>3, <2>4, <2>5, <2>6
<1> QED
  BY <1>2, <1>3

\* An event is acknowledged, and nobody has it any more.
LEMMA AcknowledgeKeeps ==
  ASSUME NEW fresh, NEW touched, NEW jr, NEW id, NEW source, NEW ag2, NEW t, t = Remaining(id, source),
         Consistent(fresh, touched, jr, queue, agent),
         Loosening(ag2, agent),
         \A a \in Agents :
           Busy(ag2[a]) => <<ag2[a].id, ag2[a].type>> # <<id, Acknowledged(id, source)>>
  PROVE  Consistent(fresh, touched, jr, t, ag2)
<1>1. queue \in Seq(Entries) /\ agent \in [Agents -> Leases] /\ Leasing(queue, agent)
  BY DEF Consistent
<1>2. /\ t \in Seq(Entries) /\ KeysOnce(t)
      /\ \A j \in DOMAIN t : \E i \in DOMAIN queue : t[j] = queue[i]
      /\ \A i \in DOMAIN queue :
           Key(queue[i]) # <<id, Acknowledged(id, source)>> => \E j \in DOMAIN t : t[j] = queue[i]
  BY <1>1, RemainingFacts, LiveAssumption DEF Leasing
<1>3. ASSUME NEW a \in Agents, Busy(ag2[a])
      PROVE  \/ \E j \in DOMAIN t : Key(t[j]) = <<ag2[a].id, ag2[a].type>> /\ t[j].leased
             \/ ag2[a].type = "generate" /\ ~IsQueued(t, ag2[a].id, ag2[a].type)
  <2>1. Busy(agent[a]) /\ ag2[a].id = agent[a].id /\ ag2[a].type = agent[a].type
    BY <1>3 DEF Loosening, Loosened, Busy
  <2>2. CASE \E i \in DOMAIN queue : Key(queue[i]) = <<agent[a].id, agent[a].type>> /\ queue[i].leased
    <3>1. PICK i \in DOMAIN queue : Key(queue[i]) = <<agent[a].id, agent[a].type>> /\ queue[i].leased
      BY <2>2
    <3>2. PICK j \in DOMAIN t : t[j] = queue[i]
      BY <1>2, <1>3, <2>1, <3>1
    <3> QED
      BY <2>1, <3>1, <3>2
  <2>3. CASE agent[a].type = "generate" /\ ~IsQueued(queue, agent[a].id, agent[a].type)
    BY <1>2, <2>1, <2>3 DEF IsQueued
  <2> QED
    BY <1>1, <2>1, <2>2, <2>3 DEF Leasing, Handed
<1>4. Handed(t, ag2)
  BY <1>3 DEF Handed
<1>5. Fewer(t, queue)
  BY <1>2 DEF Fewer
<1> QED
  BY <1>4, <1>5, LoosenedKeeps

-----------------------------------------------------------------------------
(* What the journal makes of an event. *)

LEMMA SnapshotOf ==
  ASSUME NEW x \in Snapshots
  PROVE  /\ x = [phase |-> x.phase, pending |-> x.pending, canceled |-> x.canceled]
         /\ x.phase \in Phases /\ x.pending \in EventSet \cup {Nothing} /\ x.canceled \in BOOLEAN
BY DEF Snapshots

LEMMA RequestedFacts ==
  ASSUME NEW x \in Snapshots, NEW phase \in Phases, NEW e \in EventSet \cup {Nothing},
         NEW y, y = Requested(x, phase, e)
  PROVE  y \in Snapshots /\ y.phase = phase /\ y.pending = e /\ y.canceled = x.canceled
<1> PICK p \in Phases, v \in EventSet \cup {Nothing}, c \in BOOLEAN :
       x = [phase |-> p, pending |-> v, canceled |-> c]
  BY DEF Snapshots
<1>1. y = [phase |-> phase, pending |-> e, canceled |-> c]
  BY DEF Requested
<1> QED
  BY <1>1 DEF Snapshots

LEMMA SettledFacts ==
  ASSUME NEW x \in Snapshots, NEW phase \in Phases, NEW y, y = Settled(x, phase)
  PROVE  y \in Snapshots /\ y.phase = phase /\ y.pending = Nothing /\ y.canceled = x.canceled
<1> PICK p \in Phases, v \in EventSet \cup {Nothing}, c \in BOOLEAN :
       x = [phase |-> p, pending |-> v, canceled |-> c]
  BY DEF Snapshots
<1>1. y = [phase |-> phase, pending |-> Nothing, canceled |-> c]
  BY DEF Settled
<1> QED
  BY <1>1 DEF Snapshots

LEMMA PostedFacts ==
  ASSUME NEW x \in Snapshots, NEW e \in EventSet, NEW y, y = Posted(x, e)
  PROVE  /\ y \in Snapshots
         /\ e.type = "generate" => y.phase = "open" /\ y.pending = e /\ y.canceled = x.canceled
         /\ e.type \in Answers => y.pending = e
         /\ e.type = "variant_mount_failed" => y.pending \in {x.pending, e} /\ y.canceled = x.canceled
<1>1. e.type \in Types
  BY DEF EventSet
<1>2. CASE e.type = "generate"
  <2>1. y = Requested(x, "open", e) /\ e.type \notin Answers
    BY <1>2 DEF Posted, Answers
  <2>2. "open" \in Phases /\ e \in EventSet \cup {Nothing} /\ e.type # "variant_mount_failed"
    BY <1>2 DEF Phases
  <2>3. y \in Snapshots /\ y.phase = "open" /\ y.pending = e /\ y.canceled = x.canceled
    BY <2>1, <2>2, RequestedFacts
  <2> QED
    BY <2>1, <2>2, <2>3
<1>3. CASE e.type \in Answers
  <2>1. PICK phase \in Phases : phase = IF e.type = "accept" THEN "accept_requested" ELSE "discard_requested"
    BY DEF Phases
  <2>2. PICK z : z = Requested(x, phase, e)
    OBVIOUS
  <2>3. z \in Snapshots /\ z.phase = phase /\ z.pending = e
    BY <2>2, RequestedFacts
  <2>4. y = [z EXCEPT !.canceled = TRUE]
    BY <1>3, <2>1, <2>2 DEF Posted, Answers
  <2>5. y = [phase |-> phase, pending |-> e, canceled |-> TRUE]
    BY <2>3, <2>4, SnapshotOf
  <2>6. e.type # "generate" /\ e.type # "variant_mount_failed"
    BY <1>3 DEF Answers
  <2>7. y.pending = e /\ y \in Snapshots
    BY <2>5 DEF Snapshots
  <2> QED
    BY <2>6, <2>7
<1>4. CASE e.type = "variant_mount_failed"
  <2>1. y = IF x.pending = Nothing THEN [x EXCEPT !.pending = e] ELSE x
    BY <1>4 DEF Posted, Answers
  <2>2. CASE x.pending # Nothing
    BY <1>4, <2>1, <2>2 DEF Answers
  <2>3. CASE x.pending = Nothing
    <3>1. y = [phase |-> x.phase, pending |-> e, canceled |-> x.canceled]
      BY <2>1, <2>3, SnapshotOf
    <3>2. e.type # "generate" /\ e.type \notin Answers
      BY <1>4 DEF Answers
    <3> QED
      BY <3>1, <3>2, SnapshotOf DEF Snapshots
  <2> QED
    BY <2>2, <2>3
<1> QED
  BY <1>1, <1>2, <1>3, <1>4 DEF Types, Answers

\* What the page reports of its progress opens the session and no more.
LEMMA CheckpointFacts ==
  ASSUME NEW x \in Snapshots, NEW id, NEW y, y = Posted(x, Event(id, "checkpoint"))
  PROVE  y \in Snapshots /\ y.pending = x.pending /\ y.canceled = x.canceled
<1>1. y = IF Fenced(x) THEN x ELSE [x EXCEPT !.phase = "open"]
  BY DEF Posted, Event, Answers
<1>2. [x EXCEPT !.phase = "open"] = [phase |-> "open", pending |-> x.pending, canceled |-> x.canceled]
  BY SnapshotOf
<1>3. PICK z : z = [phase |-> "open", pending |-> x.pending, canceled |-> x.canceled]
  OBVIOUS
<1>4. z \in Snapshots /\ z.pending = x.pending /\ z.canceled = x.canceled
  BY <1>3, SnapshotOf DEF Snapshots, Phases
<1> QED
  BY <1>1, <1>2, <1>3, <1>4

\* A reply leaves what is pending, or nothing.
LEMMA RepliedFacts ==
  ASSUME NEW x \in Snapshots, NEW reply \in Replies, NEW type, NEW y, y = Replied(x, reply, type)
  PROVE  y \in Snapshots /\ y.pending \in {x.pending, Nothing} /\ y.canceled = x.canceled
<1>1. y = x \/ \E phase \in Phases : y = Settled(x, phase)
  <2>1. CASE reply \in {"done", "carbonize"}
    <3>1. PICK phase \in Phases : phase = IF reply = "carbonize" THEN "carbonize_required" ELSE "open"
      BY DEF Phases
    <3>2. y = x \/ y = Settled(x, phase)
      BY <2>1, <3>1 DEF Replied
    <3> QED
      BY <3>2
  <2>2. CASE reply = "error"
    BY <2>2 DEF Replied, Phases
  <2>3. CASE reply = "complete"
    BY <2>3 DEF Replied, Phases
  <2>4. CASE reply = "discarded"
    BY <2>4 DEF Replied, Phases
  <2> QED
    BY <2>1, <2>2, <2>3, <2>4 DEF Replies
<1> QED
  BY <1>1, SettledFacts

\* A session is created: its generation is journaled and queued.
LEMMA CreationKeeps ==
  ASSUME NEW fresh, NEW touched, NEW jr, NEW q, NEW ag, NEW s \in Sessions,
         NEW fresh2, NEW touched2, NEW jr2, NEW q2, NEW e \in EventSet,
         Consistent(fresh, touched, jr, q, ag), s \in fresh,
         fresh2 \subseteq fresh \ {s}, touched2 \subseteq touched,
         e = Event(s, "generate"),
         jr2 \in [Sessions -> Snapshots], \A r \in Sessions \ {s} : jr2[r] = jr[r],
         jr2[s].pending = e, jr2[s].canceled = jr[s].canceled,
         q2 = Enqueued(q, e)
  PROVE  Consistent(fresh2, touched2, jr2, q2, ag)
<1>1. /\ q \in Seq(Entries) /\ ag \in [Agents -> Leases] /\ jr \in [Sessions -> Snapshots]
      /\ Leasing(q, ag) /\ Retired(q, jr)
      /\ \A r \in Sessions : Story(r, fresh, touched, jr, q, ag)
  BY DEF Consistent
<1>2. Untouched(s, jr, q, ag) /\ Calm(s, touched, jr, q, ag)
  BY <1>1 DEF Story, Awaited
<1>3. e \in EventSet /\ e.id = s /\ e.type = "generate"
  BY DEF Event, EventSet, Types
<1>4. e # Nothing
  BY <1>3, LiveAssumption
<1>5. q2 = Append(q, Entry(e)) /\ Entry(e) \in Entries
  BY <1>2, <1>3 DEF Untouched, Enqueued, IsQueued, Entry, Entries
<1>6. PICK n : n = Len(q) + 1
  OBVIOUS
<1>7. /\ q2 \in Seq(Entries) /\ DOMAIN q2 = DOMAIN q \cup {n}
      /\ q2[n] = Entry(e) /\ \A i \in DOMAIN q : q2[i] = q[i]
  <2>1. q \in Seq(Entries) /\ q2 = Append(q, Entry(e))
    BY <1>1, <1>5
  <2>2. q2 \in Seq(Entries)
    BY <1>6, <2>1, AppendedEntry
  <2>5. DOMAIN q2 = DOMAIN q \cup {n}
    BY <1>6, <2>1, AppendedEntry, Zenon
  <2>3. q2[n] = Entry(e)
    BY <1>6, <2>1, AppendedEntry
  <2>4. \A i \in DOMAIN q : q2[i] = q[i]
    BY <1>6, <2>1, AppendedEntry
  <2> QED
    BY <2>2, <2>3, <2>4, <2>5
<1>8. q2[n].event = e /\ ~q2[n].leased /\ Key(q2[n]) = <<s, "generate">>
  BY <1>3, <1>7 DEF Entry, Key
<1>9. \A i \in DOMAIN q : q[i].event.id # s /\ Key(q[i]) # <<s, "generate">> /\ q[i].event.id \in Sessions
  BY <1>1, <1>2, EntriesOf DEF Untouched
<1>10. KeysOnce(q2)
  BY <1>1, <1>7, <1>8, <1>9 DEF Leasing, KeysOnce
<1>11. ASSUME NEW a \in Agents, Busy(ag[a])
       PROVE  \/ \E i \in DOMAIN q2 : Key(q2[i]) = <<ag[a].id, ag[a].type>> /\ q2[i].leased
              \/ ag[a].type = "generate" /\ ~IsQueued(q2, ag[a].id, ag[a].type)
  <2>1. CASE \E i \in DOMAIN q : Key(q[i]) = <<ag[a].id, ag[a].type>> /\ q[i].leased
    BY <1>7, <2>1
  <2>2. CASE ag[a].type = "generate" /\ ~IsQueued(q, ag[a].id, ag[a].type)
    <3>1. ag[a].id # s
      BY <1>2, <1>11 DEF Untouched, Busy, Holding
    <3> QED
      BY <1>3, <1>7, <1>8, <2>2, <3>1 DEF IsQueued
  <2> QED
    BY <1>1, <1>11, <2>1, <2>2 DEF Leasing, Handed
<1>12. Handed(q2, ag)
  BY <1>11 DEF Handed
<1>13. Retired(q2, jr2)
  <2>1. ~jr2[s].canceled
    BY <1>2 DEF Calm
  <2> QED
    BY <1>1, <1>3, <1>7, <1>8, <1>9, <2>1 DEF Retired
<1>14. ASSUME NEW r \in Sessions, r # s PROVE Story(r, fresh2, touched2, jr2, q2, ag)
  <2>1. Story(r, fresh, touched, jr, q, ag) /\ jr2[r] = jr[r]
    BY <1>1, <1>14
  <2>2. e # Event(r, "generate") /\ e.id # r
    BY <1>3, <1>14 DEF Event
  <2>3. r \in fresh2 => Untouched(r, jr2, q2, ag)
    BY <1>7, <1>8, <2>1, <2>2 DEF Story, Untouched
  <2>4. Awaited(r, fresh2, jr2, q2, ag) => Awaited(r, fresh, jr, q, ag)
    BY <1>7, <1>8, <2>1, <2>2 DEF Awaited
  <2>5. Awaited(r, fresh, jr, q, ag) => Calm(r, touched2, jr2, q2, ag)
    BY <1>7, <1>8, <2>1, <2>2 DEF Story, Calm
  <2> QED
    BY <2>1, <2>3, <2>4, <2>5 DEF Story, Pends
<1>15. Story(s, fresh2, touched2, jr2, q2, ag)
  <2>1. Calm(s, touched2, jr2, q2, ag)
    BY <1>2, <1>7, <1>8, <1>9 DEF Calm
  <2>2. Pends(s, jr2)
    BY <1>2, <1>3 DEF Pends, Calm
  <2> QED
    BY <2>1, <2>2 DEF Story
<1> QED
  BY <1>1, <1>7, <1>10, <1>12, <1>13, <1>14, <1>15 DEF Consistent, Leasing

\* Who works on a session or merges it has begun more than its generation.
LEMMA WorkedOn ==
  ASSUME NEW fresh, NEW touched, NEW jr, NEW q, NEW ag, NEW a \in Agents,
         Consistent(fresh, touched, jr, q, ag), ag[a].at \in {"working", "finishing"}
  PROVE  ag[a].id \in Sessions /\ ag[a].type \in Types /\ ~Awaited(ag[a].id, fresh, jr, q, ag)
<1>1. ag[a].at \in Holding /\ ag[a].at # "scaffolding"
  BY DEF Holding
<1>2. ag[a].id \in Sessions /\ ag[a].type \in Types
  BY <1>1 DEF Consistent, Leasing, Assigned
<1>3. ~Calm(ag[a].id, touched, jr, q, ag)
  BY <1>1 DEF Calm
<1> QED
  BY <1>2, <1>3 DEF Consistent, Story

-----------------------------------------------------------------------------
(* The steps of the agents and the timers. *)

LEMMA PageSame ==
  ASSUME IInv, UNCHANGED <<page, requests, written>>, faults' \in 0..MaxFaults
  PROVE  PageTyped' /\ CreatedOnce' /\ Fresh' = Fresh /\ Touched' = Touched
<1>1. /\ view' = view /\ current' = current /\ awaiting' = awaiting /\ gate' = gate
      /\ capturing' = capturing /\ linked' = linked /\ abandoned' = abandoned /\ unused' = unused
      /\ requests' = requests /\ written' = written
  BY DEF page
<1> QED
  BY <1>1 DEF IInv, PageTyped, CreatedOnce, Fresh, Touched

\* What a lease record holds.
LEMMA LeaseOf ==
  ASSUME NEW x \in Leases
  PROVE  /\ x = [at |-> x.at, id |-> x.id, type |-> x.type, valid |-> x.valid]
         /\ x.at \in Holding \cup {"idle", "parked"} /\ x.id \in Sessions \cup {NoSession}
         /\ x.type \in Types \cup {Nothing} /\ x.valid \in BOOLEAN
BY DEF Leases

\* One agent moves on with what it has.
LEMMA MovedFacts ==
  ASSUME NEW a \in Agents, agent \in [Agents -> Leases], NEW at \in Holding \cup {"idle", "parked"},
         agent' = [agent EXCEPT ![a].at = at]
  PROVE  /\ agent' \in [Agents -> Leases]
         /\ agent'[a].at = at /\ agent'[a].id = agent[a].id /\ agent'[a].type = agent[a].type /\ agent'[a].valid = agent[a].valid
         /\ \A b \in Agents : b # a => agent'[b] = agent[b]
<1>1. PICK x \in Leases : x = agent[a]
  OBVIOUS
<1>2. agent' = [agent EXCEPT ![a] = [x EXCEPT !.at = at]]
  BY <1>1
<1>3. [x EXCEPT !.at = at] = [at |-> at, id |-> x.id, type |-> x.type, valid |-> x.valid]
  BY LeaseOf
<1>4. PICK y : y = [at |-> at, id |-> x.id, type |-> x.type, valid |-> x.valid]
  OBVIOUS
<1>5. agent' = [agent EXCEPT ![a] = y] /\ y \in Leases
  BY <1>2, <1>3, <1>4, LeaseOf DEF Leases
<1> QED
  BY <1>1, <1>4, <1>5

\* Among those who are not at work one agent changes nothing that matters.
LEMMA LooseningOne ==
  ASSUME NEW fresh, NEW touched, NEW jr, NEW q, NEW ag, NEW ag2, NEW a \in Agents,
         Consistent(fresh, touched, jr, q, ag),
         ag2 \in [Agents -> Leases], ag2[a].at \in {"idle", "parked"},
         \A b \in Agents : b # a => ag2[b] = ag[b]
  PROVE  Consistent(fresh, touched, jr, q, ag2)
<1>1. q \in Seq(Entries) /\ Leasing(q, ag)
  BY DEF Consistent
<1>2. Loosening(ag2, ag)
  BY <1>1 DEF Loosening, Loosened, Leasing, Assigned
<1>3. Fewer(q, q)
  BY <1>1 DEF Fewer, Leasing
<1>4. Handed(q, ag2)
  BY <1>1 DEF Handed, Leasing, Busy
<1> QED
  BY <1>2, <1>3, <1>4, LoosenedKeeps

LEMMA PollStep ==
  ASSUME IInv, NEW a \in Agents, Poll(a)
  PROVE  IInv'
<1>1. /\ agent[a].at = "idle" /\ UNCHANGED <<page, requests, written, journal, faults>>
      /\ faults' \in 0..MaxFaults /\ journal' = journal
  BY DEF Poll, IInv, PageTyped
<1>2. PageTyped' /\ CreatedOnce' /\ Fresh' = Fresh /\ Touched' = Touched
  BY <1>1, PageSame
<1>3. /\ Consistent(Fresh, Touched, journal, queue, agent) /\ Line(parked, agent)
      /\ queue \in Seq(Entries) /\ agent \in [Agents -> Leases] /\ NoPollWaitsBesideWork
      /\ parked \in Seq(Agents)
  BY DEF IInv, Consistent, Line
<1>4. CASE Available(queue) # {}
  <2>1. parked = << >>
    BY <1>3, <1>4 DEF NoPollWaitsBesideWork
  <2>2. Serve(queue, <<a>>, agent, << >>)
    BY <1>4, <2>1 DEF Poll
  <2>3. PICK polls : polls = <<a>>
    OBVIOUS
  <2>4. polls \in Seq(Agents) /\ Once(polls) /\ \A x : Holds(polls, x) <=> x = a
    BY <2>3 DEF Once, Holds
  <2>5. Serve(queue, polls, agent, << >>)
    BY <2>2, <2>3
  <2>6. /\ HandedOut(queue, queue', agent, agent')
        /\ parked' \in Seq(Agents) /\ Once(parked')
        /\ \A i \in DOMAIN parked' : agent'[parked'[i]] = agent[parked'[i]] /\ Holds(polls, parked'[i])
        /\ parked' # << >> => \A i \in DOMAIN queue' : queue'[i].leased
    BY <1>3, <2>4, <2>5, ServeFacts
  <2>7. Consistent(Fresh, Touched, journal, queue', agent')
    BY <1>3, <2>6, HandedOutKeeps
  <2>8. polls # << >> /\ Len(polls) = 1
    BY <2>3
  <2>9. Len(parked') < Len(polls)
    BY <1>3, <1>4, <2>4, <2>5, <2>8, ServeFacts
  <2>10. Len(parked') = 0
    BY <2>6, <2>8, <2>9, LenProperties
  <2>11. parked' = << >>
    BY <2>6, <2>10, EmptySeq
  <2>12. Line(parked', agent') /\ NoPollWaitsBesideWork'
    BY <2>6, <2>11 DEF Line, NoPollWaitsBesideWork
  <2> QED
    BY <1>1, <1>2, <2>7, <2>12 DEF IInv
<1>5. CASE Available(queue) = {}
  <2>1. parked' = Append(parked, a) /\ agent' = [agent EXCEPT ![a].at = "parked"] /\ queue' = queue
    BY <1>5 DEF Poll
  <2>2. /\ agent' \in [Agents -> Leases] /\ agent'[a].at = "parked"
        /\ \A b \in Agents : b # a => agent'[b] = agent[b]
    <3>1. PICK at \in Holding \cup {"idle", "parked"} : at = "parked"
      OBVIOUS
    <3>2. agent' = [agent EXCEPT ![a].at = at]
      BY <2>1, <3>1
    <3> QED
      BY <1>3, <3>1, <3>2, MovedFacts
  <2>3. Consistent(Fresh, Touched, journal, queue, agent')
    BY <1>3, <2>2, LooseningOne
  <2>4. ~Holds(parked, a) /\ \A x : Holds(parked, x) => x \in Agents /\ agent[x].at = "parked"
    BY <1>1, <1>3, ElementOfSeq, LenProperties DEF Line, Holds
  <2>5. parked' \in Seq(Agents) /\ Once(parked') /\ \A x : Holds(parked', x) <=> Holds(parked, x) \/ x = a
    BY <1>3, <2>1, <2>4, AppendedOnce DEF Line
  <2>6. Line(parked', agent')
    <3>1. ASSUME NEW i \in DOMAIN parked' PROVE agent'[parked'[i]].at = "parked"
      <4>1. Holds(parked, parked'[i]) \/ parked'[i] = a
        BY <2>5 DEF Holds
      <4>2. CASE parked'[i] = a
        BY <2>2, <4>2
      <4>3. CASE Holds(parked, parked'[i]) /\ parked'[i] # a
        BY <2>2, <2>4, <4>3
      <4> QED
        BY <4>1, <4>2, <4>3
    <3> QED
      BY <2>5, <3>1 DEF Line
  <2>7. NoPollWaitsBesideWork'
    BY <1>5, <2>1 DEF NoPollWaitsBesideWork, Available
  <2> QED
    BY <1>1, <1>2, <2>1, <2>3, <2>6, <2>7 DEF IInv
<1> QED
  BY <1>4, <1>5 DEF Poll

LEMMA PollTimesOutStep ==
  ASSUME IInv, NEW a \in Agents, PollTimesOut(a)
  PROVE  IInv'
<1>1. /\ agent' = [agent EXCEPT ![a] = Idle] /\ UNCHANGED <<page, requests, written, journal, queue, faults>>
      /\ faults' \in 0..MaxFaults /\ journal' = journal /\ queue' = queue
  BY DEF PollTimesOut, IInv, PageTyped
<1>2. PICK i \in DOMAIN parked : parked[i] = a /\ parked' = RemoveAt(parked, i)
  BY DEF PollTimesOut
<1>3. PageTyped' /\ CreatedOnce' /\ Fresh' = Fresh /\ Touched' = Touched
  BY <1>1, PageSame
<1>4. /\ Consistent(Fresh, Touched, journal, queue, agent) /\ Line(parked, agent)
      /\ queue \in Seq(Entries) /\ agent \in [Agents -> Leases] /\ NoPollWaitsBesideWork
      /\ parked \in Seq(Agents) /\ Once(parked)
  BY DEF IInv, Consistent, Line
<1>5. /\ agent' \in [Agents -> Leases] /\ agent'[a].at = "idle"
      /\ \A b \in Agents : b # a => agent'[b] = agent[b]
  BY <1>1, <1>4 DEF Idle, Leases
<1>6. Consistent(Fresh, Touched, journal, queue, agent')
  BY <1>4, <1>5, LooseningOne
<1>7. parked' = Without(parked, i)
  BY <1>2 DEF RemoveAt, Without
<1>8. parked' \in Seq(Agents) /\ Once(parked') /\ \A x : Holds(parked', x) <=> Holds(parked, x) /\ x # a
  BY <1>2, <1>4, <1>7, RemovedOnce
<1>9. Line(parked', agent')
  <2>1. ASSUME NEW j \in DOMAIN parked' PROVE agent'[parked'[j]].at = "parked"
    <3>1. Holds(parked, parked'[j]) /\ parked'[j] # a
      BY <1>8 DEF Holds
    <3>2. agent[parked'[j]].at = "parked" /\ parked'[j] \in Agents
      BY <1>4, <3>1, ElementOfSeq, LenProperties DEF Line, Holds
    <3> QED
      BY <1>5, <3>1, <3>2
  <2> QED
    BY <1>8, <2>1 DEF Line
<1>10. NoPollWaitsBesideWork'
  <2>1. ASSUME Available(queue) # {} PROVE parked' = << >>
    <3>1. parked = << >>
      BY <1>4, <2>1 DEF NoPollWaitsBesideWork
    <3> QED
      BY <1>2, <3>1
  <2> QED
    BY <1>1, <2>1 DEF NoPollWaitsBesideWork, Available
<1> QED
  BY <1>1, <1>3, <1>6, <1>9, <1>10 DEF IInv

\* The waiting polls are as they were, and nothing becomes available.
LEMMA LineSame ==
  ASSUME IInv, parked' = parked, agent' \in [Agents -> Leases],
         (\A i \in DOMAIN queue : queue[i].leased) => (\A i \in DOMAIN queue' : queue'[i].leased),
         \A b \in Agents : agent[b].at = "parked" => agent'[b].at = "parked"
  PROVE  Line(parked', agent') /\ NoPollWaitsBesideWork'
<1>1. parked \in Seq(Agents) /\ \A i \in DOMAIN parked : parked[i] \in Agents /\ agent[parked[i]].at = "parked"
  BY ElementOfSeq, LenProperties DEF IInv, Line
<1>2. Line(parked', agent')
  BY <1>1 DEF IInv, Line
<1> QED
  BY <1>2 DEF IInv, NoPollWaitsBesideWork, Available

LEMMA CrashStep ==
  ASSUME IInv, NEW a \in Agents, Crash(a)
  PROVE  IInv'
<1>1. /\ agent[a].at \in {"working", "finishing"} /\ agent' = [agent EXCEPT ![a] = Idle]
      /\ UNCHANGED <<page, requests, written>>
      /\ queue' = queue /\ parked' = parked /\ journal' = journal
  BY DEF Crash, helper
<1>2. faults' \in 0..MaxFaults
  BY LiveAssumption DEF Crash, IInv, PageTyped
<1>3. PageTyped' /\ CreatedOnce' /\ Fresh' = Fresh /\ Touched' = Touched
  BY <1>1, <1>2, PageSame
<1>4. Consistent(Fresh, Touched, journal, queue, agent) /\ agent \in [Agents -> Leases]
  BY DEF IInv, Consistent
<1>5. /\ agent' \in [Agents -> Leases] /\ agent'[a].at = "idle"
      /\ \A b \in Agents : b # a => agent'[b] = agent[b]
  BY <1>1, <1>4 DEF Idle, Leases
<1>6. Consistent(Fresh, Touched, journal, queue, agent')
  BY <1>4, <1>5, LooseningOne
<1>7. Line(parked', agent') /\ NoPollWaitsBesideWork'
  BY <1>1, <1>5, LineSame
<1> QED
  BY <1>1, <1>3, <1>6, <1>7 DEF IInv

LEMMA LeaseExpiresStep ==
  ASSUME IInv, NEW i \in DOMAIN queue, LeaseExpires(i)
  PROVE  IInv'
<1> PICK q1 : q1 = [queue EXCEPT ![i].leased = FALSE]
  OBVIOUS
<1> PICK ag1 : ag1 = RevokedFor(i)
  OBVIOUS
<1>1. /\ Flush(q1, ag1) /\ UNCHANGED <<page, requests, written, journal, faults>>
      /\ faults' \in 0..MaxFaults /\ journal' = journal
      /\ ~ \E a \in Agents : HeldBy(a, i) /\ agent[a].at = "scaffolding"
  BY DEF LeaseExpires, IInv, PageTyped
<1>2. PageTyped' /\ CreatedOnce' /\ Fresh' = Fresh /\ Touched' = Touched
  BY <1>1, PageSame
<1>3. /\ Consistent(Fresh, Touched, journal, queue, agent) /\ Line(parked, agent)
      /\ queue \in Seq(Entries) /\ agent \in [Agents -> Leases] /\ Leasing(queue, agent)
      /\ parked \in Seq(Agents)
  BY DEF IInv, Consistent, Line
<1>4. /\ ag1 \in [Agents -> Leases]
      /\ \A a \in Agents :
           /\ ag1[a].at = agent[a].at /\ ag1[a].id = agent[a].id /\ ag1[a].type = agent[a].type
           /\ ag1[a].valid <=> agent[a].valid /\ <<agent[a].id, agent[a].type>> # Key(queue[i])
  <2>1. ag1 = Revoked(queue[i].event.id, queue[i].event.type)
    BY DEF RevokedFor
  <2>2. Key(queue[i]) = <<queue[i].event.id, queue[i].event.type>>
    BY DEF Key
  <2> QED
    BY <1>3, <2>1, <2>2, RevokedFacts
<1>5. /\ q1 \in Seq(Entries) /\ DOMAIN q1 = DOMAIN queue
      /\ q1[i].event = queue[i].event /\ Key(q1[i]) = Key(queue[i])
      /\ \A j \in DOMAIN queue : j # i => q1[j] = queue[j]
  <2>1. PICK e \in Entries : e = queue[i]
    BY <1>3, EntriesOf
  <2>2. PICK f : f = [e EXCEPT !.leased = FALSE]
    OBVIOUS
  <2>3. q1 = [queue EXCEPT ![i] = f]
    BY <2>1, <2>2
  <2>4. f \in Entries /\ f.event = e.event /\ Key(f) = Key(e)
    BY <2>2, UnleasedEntry
  <2>5. /\ q1 \in Seq(Entries) /\ DOMAIN q1 = DOMAIN queue /\ q1[i] = f
        /\ \A j \in DOMAIN queue : j # i => q1[j] = queue[j]
    BY <1>3, <2>3, <2>4, Written
  <2> QED
    BY <2>1, <2>4, <2>5
<1>6. Fewer(q1, queue)
  <2>1. \A j \in DOMAIN queue : Key(q1[j]) = Key(queue[j]) /\ q1[j].event = queue[j].event
    BY <1>5
  <2>2. KeysOnce(q1)
    BY <1>3, <1>5, <2>1 DEF KeysOnce, Leasing
  <2> QED
    BY <1>5, <2>1, <2>2 DEF Fewer
<1>7. Loosening(ag1, agent)
  <2>1. ASSUME NEW a \in Agents, ag1[a].at = "scaffolding" PROVE ag1[a].valid
    <3>1. agent[a].at = "scaffolding" /\ agent[a].valid
      BY <1>3, <1>4, <2>1 DEF Leasing, Assigned
    <3>2. <<agent[a].id, agent[a].type>> # Key(queue[i])
      BY <1>1, <3>1 DEF HeldBy, Holding
    <3> QED
      BY <1>4, <3>1, <3>2
  <2>2. \A a \in Agents : Loosened(ag1[a], agent[a])
    BY <1>4 DEF Loosened
  <2> QED
    BY <1>4, <2>1, <2>2 DEF Loosening
<1>8. Handed(q1, ag1)
  <2>1. ASSUME NEW a \in Agents, Busy(ag1[a])
        PROVE  \/ \E j \in DOMAIN q1 : Key(q1[j]) = <<ag1[a].id, ag1[a].type>> /\ q1[j].leased
               \/ ag1[a].type = "generate" /\ ~IsQueued(q1, ag1[a].id, ag1[a].type)
    <3>1. /\ Busy(agent[a]) /\ ag1[a].id = agent[a].id /\ ag1[a].type = agent[a].type
          /\ <<agent[a].id, agent[a].type>> # Key(queue[i])
      BY <1>4, <2>1 DEF Busy
    <3>2. CASE \E j \in DOMAIN queue : Key(queue[j]) = <<agent[a].id, agent[a].type>> /\ queue[j].leased
      <4>1. PICK j \in DOMAIN queue : Key(queue[j]) = <<agent[a].id, agent[a].type>> /\ queue[j].leased
        BY <3>2
      <4>2. j # i
        BY <3>1, <4>1
      <4> QED
        BY <1>5, <3>1, <4>1, <4>2
    <3>3. CASE agent[a].type = "generate" /\ ~IsQueued(queue, agent[a].id, agent[a].type)
      BY <1>5, <3>1, <3>3 DEF IsQueued
    <3> QED
      BY <1>3, <3>1, <3>2, <3>3 DEF Leasing, Handed
  <2> QED
    BY <2>1 DEF Handed
<1>9. Consistent(Fresh, Touched, journal, q1, ag1)
  BY <1>3, <1>6, <1>7, <1>8, LoosenedKeeps
<1>10. Line(parked, ag1)
  BY <1>3, <1>4, ElementOfSeq, LenProperties DEF Line
<1>11. Consistent(Fresh, Touched, journal, queue', agent') /\ Line(parked', agent') /\ NoPollWaitsBesideWork'
  BY <1>1, <1>9, <1>10, FlushKeeps
<1> QED
  BY <1>1, <1>2, <1>11 DEF IInv

LEMMA WriteVariantsStep ==
  ASSUME IInv, NEW a \in Agents, WriteVariants(a)
  PROVE  IInv'
<1> PICK s : s = agent[a].id
  OBVIOUS
<1>1. /\ agent[a].at = "working" /\ written' = written \cup {s}
      /\ view' = view /\ current' = current /\ awaiting' = awaiting /\ gate' = gate
      /\ capturing' = capturing /\ linked' = linked /\ abandoned' = abandoned /\ unused' = unused
      /\ requests' = requests /\ faults' = faults
      /\ journal' = journal /\ queue' = queue /\ parked' = parked /\ agent' = agent
  BY DEF WriteVariants, page, helper
<1>2. Consistent(Fresh, Touched, journal, queue, agent) /\ agent \in [Agents -> Leases]
      /\ journal \in [Sessions -> Snapshots] /\ \A r \in Sessions : Pends(r, journal)
  BY DEF IInv, Consistent, Story
<1>3. s \in Sessions /\ ~Awaited(s, Fresh, journal, queue, agent)
  BY <1>1, <1>2, WorkedOn
<1>4. PageTyped' /\ CreatedOnce'
  BY <1>1, <1>3 DEF IInv, PageTyped, CreatedOnce
<1>5. Fresh' = Fresh
  BY <1>1 DEF Fresh
<1>6. Touched' \subseteq Touched \cup {s}
  BY <1>1 DEF Touched
<1>7. journal[s].pending # Event(s, "generate")
  BY <1>3 DEF Awaited
<1>8. Consistent(Fresh', Touched', journal, queue, agent)
  BY <1>2, <1>3, <1>5, <1>6, <1>7, JournalKeeps
<1>9. Line(parked', agent') /\ NoPollWaitsBesideWork'
  BY <1>1, <1>2, LineSame
<1> QED
  BY <1>1, <1>4, <1>8, <1>9 DEF IInv

LEMMA BounceStep ==
  ASSUME IInv, NEW a \in Agents, Bounce(a)
  PROVE  IInv'
<1> PICK s : s = agent[a].id
  OBVIOUS
<1> PICK source : source = Source(a, "done")
  OBVIOUS
<1>1. /\ agent[a].at = "working" /\ queue' = Remaining(s, source)
      /\ agent' = Revoked(s, Acknowledged(s, source))
      /\ UNCHANGED <<page, requests, written>> /\ faults' \in 0..MaxFaults
      /\ journal' = journal /\ parked' = parked
  BY DEF Bounce, IInv, PageTyped
<1>2. PageTyped' /\ CreatedOnce' /\ Fresh' = Fresh /\ Touched' = Touched
  BY <1>1, PageSame
<1>3. /\ Consistent(Fresh, Touched, journal, queue, agent) /\ agent \in [Agents -> Leases]
      /\ queue \in Seq(Entries) /\ KeysOnce(queue) /\ Assigned(agent)
  BY DEF IInv, Consistent, Leasing
<1>4. s \in Sessions /\ ~Awaited(s, Fresh, journal, queue, agent)
  BY <1>1, <1>3, WorkedOn
<1>5. /\ agent' \in [Agents -> Leases]
      /\ \A b \in Agents :
           /\ agent'[b].at = agent[b].at /\ agent'[b].id = agent[b].id /\ agent'[b].type = agent[b].type
           /\ agent'[b].valid <=>
                agent[b].valid /\ <<agent[b].id, agent[b].type>> # <<s, Acknowledged(s, source)>>
  BY <1>1, <1>3, RevokedFacts
<1>6. Loosening(agent', agent)
  <2>1. ASSUME NEW b \in Agents, agent'[b].at = "scaffolding" PROVE agent'[b].valid
    <3>1. agent[b].at = "scaffolding" /\ agent[b].valid
      BY <1>3, <1>5, <2>1 DEF Assigned
    <3>2. agent[b].id # s
      BY <1>4, <3>1 DEF Awaited
    <3> QED
      BY <1>5, <3>1, <3>2
  <2>2. \A b \in Agents : Loosened(agent'[b], agent[b])
    BY <1>5 DEF Loosened
  <2> QED
    BY <1>5, <2>1, <2>2 DEF Loosening
<1>7. \A b \in Agents :
        Busy(agent'[b]) => <<agent'[b].id, agent'[b].type>> # <<s, Acknowledged(s, source)>>
  BY <1>5 DEF Busy
<1>8. Consistent(Fresh, Touched, journal, queue', agent')
  BY <1>1, <1>3, <1>6, <1>7, AcknowledgeKeeps
<1>9. \A j \in DOMAIN queue' : \E i \in DOMAIN queue : queue'[j] = queue[i]
  BY <1>1, <1>3, RemainingFacts, LiveAssumption
<1>10. Line(parked', agent') /\ NoPollWaitsBesideWork'
  BY <1>1, <1>5, <1>9, LineSame
<1> QED
  BY <1>1, <1>2, <1>8, <1>10 DEF IInv

\* The preflight ends: the event is prepared, in the queue if it is still
\* there and in the journal.
LEMMA ScaffoldedStep ==
  ASSUME IInv, NEW a \in Agents, Scaffolded(a)
  PROVE  IInv'
<1> PICK s : s = agent[a].id
  OBVIOUS
<1>1. PICK e : e = [Event(s, "generate") EXCEPT !.prepared = TRUE]
  OBVIOUS
<1>2. /\ agent[a].at = "scaffolding" /\ agent' = [agent EXCEPT ![a].at = "working"]
      /\ queue' = [i \in DOMAIN queue |->
                     IF Key(queue[i]) = Key(Entry(e)) THEN [queue[i] EXCEPT !.event = e] ELSE queue[i]]
      /\ journal' = [journal EXCEPT ![e.id] = Posted(@, e)]
      /\ UNCHANGED <<page, requests, written>> /\ faults' \in 0..MaxFaults /\ parked' = parked
  BY <1>1 DEF Scaffolded, IInv, PageTyped
<1>3. PageTyped' /\ CreatedOnce' /\ Fresh' = Fresh /\ Touched' = Touched
  BY <1>2, PageSame
<1>4. /\ queue \in Seq(Entries) /\ agent \in [Agents -> Leases] /\ journal \in [Sessions -> Snapshots]
      /\ Leasing(queue, agent) /\ Retired(queue, journal)
      /\ \A r \in Sessions : Story(r, Fresh, Touched, journal, queue, agent)
  BY DEF IInv, Consistent
<1>5. /\ s \in Sessions /\ agent[a].type = "generate" /\ agent[a].valid
      /\ e \in EventSet /\ e # Nothing /\ e # Event(s, "generate")
      /\ e.id = s /\ e.type = "generate" /\ Key(Entry(e)) = <<s, "generate">>
  <2>1. s \in Sessions /\ agent[a].type = "generate" /\ agent[a].valid
    BY <1>2, <1>4 DEF Leasing, Assigned, Holding
  <2>2. /\ e \in EventSet /\ e # Event(s, "generate")
        /\ e.id = s /\ e.type = "generate" /\ Key(Entry(e)) = <<s, "generate">>
    BY <1>1, <2>1, PreparedEvent
  <2> QED
    BY <2>1, <2>2, LiveAssumption
<1>6. Calm(s, Touched, journal, queue, agent) /\ s \notin Fresh
  <2>1. Awaited(s, Fresh, journal, queue, agent) /\ agent[a].at \in Holding
    BY <1>2 DEF Awaited, Holding
  <2> QED
    BY <1>4, <1>5, <2>1 DEF Story, Untouched
<1>7. /\ queue' \in Seq(Entries) /\ DOMAIN queue' = DOMAIN queue
      /\ \A i \in DOMAIN queue :
           /\ Key(queue'[i]) = Key(queue[i]) /\ queue'[i].leased = queue[i].leased
           /\ queue'[i].event.id = queue[i].event.id /\ queue'[i].event.type = queue[i].event.type
           /\ queue[i].event.id # s => queue'[i] = queue[i]
           /\ queue[i].event.id = s => queue'[i].event = e
  <2>1. Key(Entry(e)) = <<s, "generate">>
    BY <1>5
  <2>2. ASSUME NEW i \in DOMAIN queue
        PROVE  /\ queue'[i] \in Entries
               /\ Key(queue'[i]) = Key(queue[i]) /\ queue'[i].leased = queue[i].leased
               /\ queue'[i].event.id = queue[i].event.id /\ queue'[i].event.type = queue[i].event.type
               /\ queue[i].event.id # s => queue'[i] = queue[i]
               /\ queue[i].event.id = s => queue'[i].event = e
    <3>1. PICK x \in Entries : x = queue[i]
      BY <1>4, EntriesOf
    <3>2. CASE x.event.id # s
      <4>1. Key(x) # Key(Entry(e))
        BY <2>1, <3>2 DEF Key
      <4> QED
        BY <1>2, <3>1, <3>2, <4>1
    <3>3. CASE x.event.id = s
      <4>1. x.event.type = "generate"
        BY <1>6, <3>1, <3>3 DEF Calm, Event
      <4>2. Key(x) = Key(Entry(e))
        BY <2>1, <3>3, <4>1 DEF Key
      <4>3. PICK v \in EventSet, l \in BOOLEAN : x = [event |-> v, leased |-> l]
        BY DEF Entries
      <4>4. queue'[i] = [x EXCEPT !.event = e]
        BY <1>2, <3>1, <4>2
      <4>5. queue'[i] = [event |-> e, leased |-> l]
        BY <4>3, <4>4
      <4>6. queue'[i] \in Entries /\ queue'[i].leased = l /\ queue'[i].event = e
        BY <1>5, <4>5 DEF Entries
      <4>7. e.id = x.event.id /\ e.type = x.event.type
        BY <1>5, <3>3, <4>1
      <4> QED
        BY <3>1, <3>3, <4>3, <4>6, <4>7 DEF Key
    <3> QED
      BY <3>2, <3>3
  <2>3. queue' = [i \in DOMAIN queue |-> queue'[i]]
    BY <1>2
  <2>4. queue' \in [1..Len(queue) -> Entries] /\ DOMAIN queue = 1..Len(queue) /\ Len(queue) \in Nat
    BY <1>4, <2>2, <2>3, LenProperties
  <2>5. queue' \in Seq(Entries)
    BY <2>4, FunctionIsSeq
  <2> QED
    BY <2>2, <2>4, <2>5
<1>8. /\ journal' \in [Sessions -> Snapshots] /\ \A r \in Sessions : r # s => journal'[r] = journal[r]
      /\ journal'[s].pending = e /\ journal'[s].canceled = journal[s].canceled
  <2>1. PICK y : y = Posted(journal[s], e)
    OBVIOUS
  <2>2. e.type = "generate" /\ e.id = s
    BY <1>5
  <2>3. y \in Snapshots /\ y.pending = e /\ y.canceled = journal[s].canceled
    <3>1. PICK x \in Snapshots : x = journal[s]
      BY <1>4, <1>5
    <3>2. e \in EventSet /\ y = Posted(x, e)
      BY <1>5, <2>1, <3>1
    <3>3. y \in Snapshots
      BY <3>2, PostedFacts
    <3>4. e.type = "generate" => y.phase = "open" /\ y.pending = e /\ y.canceled = x.canceled
      BY <3>2, PostedFacts
    <3> QED
      BY <2>2, <3>1, <3>3, <3>4
  <2>4. journal' = [journal EXCEPT ![s] = y]
    BY <1>2, <2>1, <2>2
  <2> QED
    BY <1>4, <1>5, <2>3, <2>4
<1>9. /\ agent' \in [Agents -> Leases] /\ agent'[a].at = "working"
      /\ agent'[a].id = s /\ agent'[a].type = "generate" /\ agent'[a].valid
      /\ \A b \in Agents : b # a => agent'[b] = agent[b]
  <2>1. PICK at \in Holding \cup {"idle", "parked"} : at = "working"
    BY DEF Holding
  <2>2. agent' = [agent EXCEPT ![a].at = at]
    BY <1>2, <2>1
  <2> QED
    BY <1>4, <1>5, <2>1, <2>2, MovedFacts
<1>10. KeysOnce(queue')
  BY <1>4, <1>7 DEF Leasing, KeysOnce
<1>11. Assigned(agent')
  BY <1>4, <1>5, <1>9 DEF Leasing, Assigned, Types
<1>12. \A b \in Agents :
         /\ Busy(agent'[b]) => Busy(agent[b])
         /\ agent'[b].id = agent[b].id /\ agent'[b].type = agent[b].type
  BY <1>2, <1>5, <1>9 DEF Busy
<1>13. Exclusive(agent')
  BY <1>4, <1>12 DEF Leasing, Exclusive
<1>14. Handed(queue', agent')
  <2>1. \A id, type : IsQueued(queue', id, type) <=> IsQueued(queue, id, type)
    BY <1>7 DEF IsQueued
  <2> SUFFICES ASSUME NEW b \in Agents, Busy(agent'[b])
               PROVE  \/ \E i \in DOMAIN queue' :
                            Key(queue'[i]) = <<agent'[b].id, agent'[b].type>> /\ queue'[i].leased
                      \/ agent'[b].type = "generate" /\ ~IsQueued(queue', agent'[b].id, agent'[b].type)
    BY DEF Handed
  <2>2. CASE \E i \in DOMAIN queue : Key(queue[i]) = <<agent[b].id, agent[b].type>> /\ queue[i].leased
    BY <1>7, <1>12, <2>2
  <2>3. CASE agent[b].type = "generate" /\ ~IsQueued(queue, agent[b].id, agent[b].type)
    BY <1>12, <2>1, <2>3
  <2> QED
    BY <1>4, <1>12, <2>2, <2>3 DEF Leasing, Handed
<1>15. Retired(queue', journal')
  <2>1. \A r \in Sessions : journal'[r].canceled = journal[r].canceled
    BY <1>8
  <2>2. \A i \in DOMAIN queue : queue[i].event.id \in Sessions
    BY <1>4, EntriesOf
  <2> QED
    BY <1>4, <1>7, <2>1, <2>2 DEF Retired
<1>16. ASSUME NEW r \in Sessions, r # s PROVE Story(r, Fresh, Touched, journal', queue', agent')
  <2>1. Story(r, Fresh, Touched, journal, queue, agent) /\ journal'[r] = journal[r]
    BY <1>4, <1>8, <1>16
  <2>2. \A b \in Agents : agent'[b].id = r => agent'[b] = agent[b]
    BY <1>9, <1>16
  <2>3. \A b \in Agents : agent[b].id = r => agent'[b] = agent[b]
    BY <1>9, <1>16
  <2>4. \A i \in DOMAIN queue : queue[i].event.id = r => queue'[i] = queue[i]
    BY <1>7, <1>16
  <2>5. \A i \in DOMAIN queue : queue'[i].event = Event(r, "generate") => queue[i].event = Event(r, "generate")
    <3>1. Event(r, "generate").id = r
      BY DEF Event
    <3> QED
      BY <1>7, <2>4, <3>1
  <2>6. r \in Fresh => Untouched(r, journal', queue', agent')
    BY <1>7, <2>1, <2>2 DEF Story, Untouched
  <2>7. Awaited(r, Fresh, journal', queue', agent') => Awaited(r, Fresh, journal, queue, agent)
    BY <1>7, <2>1, <2>2, <2>5 DEF Awaited
  <2>8. Awaited(r, Fresh, journal, queue, agent) => Calm(r, Touched, journal', queue', agent')
    BY <1>7, <2>1, <2>2, <2>4 DEF Story, Calm
  <2> QED
    BY <2>1, <2>6, <2>7, <2>8 DEF Story, Pends
<1>17. Story(s, Fresh, Touched, journal', queue', agent')
  <2>1. ASSUME NEW i \in DOMAIN queue' PROVE queue'[i].event # Event(s, "generate")
    <3>1. Event(s, "generate").id = s
      BY DEF Event
    <3>2. queue[i].event.id = s => queue'[i].event = e
      BY <1>7
    <3> QED
      BY <1>5, <1>7, <3>1, <3>2
  <2>2. ASSUME NEW b \in Agents, agent'[b].at = "scaffolding" PROVE agent'[b].id # s
    <3>1. b # a /\ agent[b].at = "scaffolding"
      BY <1>9, <2>2
    <3>2. Busy(agent[a]) /\ Busy(agent[b]) /\ agent[b].type = "generate"
      BY <1>2, <1>4, <1>5, <3>1 DEF Leasing, Assigned, Busy
    <3> QED
      BY <1>4, <1>5, <1>12, <3>1, <3>2 DEF Leasing, Exclusive
  <2>3. ~Awaited(s, Fresh, journal', queue', agent')
    BY <1>5, <1>6, <1>8, <2>1, <2>2 DEF Awaited
  <2>4. Pends(s, journal')
    BY <1>5, <1>6, <1>8 DEF Pends, Calm
  <2> QED
    BY <1>6, <2>3, <2>4 DEF Story
<1>18. Consistent(Fresh, Touched, journal', queue', agent')
  BY <1>7, <1>8, <1>9, <1>10, <1>11, <1>13, <1>14, <1>15, <1>16, <1>17 DEF Consistent, Leasing
<1>19. Line(parked', agent') /\ NoPollWaitsBesideWork'
  <2>1. \A b \in Agents : agent[b].at = "parked" => agent'[b].at = "parked"
    BY <1>2, <1>9
  <2> QED
    BY <1>2, <1>7, <1>9, <2>1, LineSame
<1> QED
  BY <1>3, <1>18, <1>19 DEF IInv

-----------------------------------------------------------------------------
(* Replies. *)

\* The page shows no session as answerable that it did not show so before.
LEMMA BroadcastFacts ==
  ASSUME PageTyped, CreatedOnce, NEW id \in Sessions, NEW reply \in Replies, Broadcast(id, reply)
  PROVE  /\ view' \in Views /\ current' \in Sessions \cup {NoSession}
         /\ awaiting' \in Sessions \cup {NoSession}
         /\ view' # "picking" => current' \in Sessions
         /\ view' \in {"cycling", "saving"} => view \in {"cycling", "saving"} /\ current' = current
<1> DEFINE saving == view = "saving" /\ current = id
           merged == reply \in {"complete", "carbonize"}
<1>1. /\ view \in Views /\ current \in Sessions \cup {NoSession}
      /\ awaiting \in Sessions \cup {NoSession} /\ (view # "picking" => current \in Sessions)
  BY DEF PageTyped, CreatedOnce
<1>2. \/ ~linked /\ UNCHANGED <<view, current, awaiting>>
      \/ /\ linked /\ merged
         /\ awaiting' = IF awaiting = id THEN NoSession ELSE awaiting
         /\ IF saving THEN Release ELSE UNCHANGED <<view, current>>
      \/ /\ linked /\ reply = "discarded"
         /\ IF current = id THEN Release ELSE UNCHANGED <<view, current>>
         /\ UNCHANGED awaiting
      \/ /\ linked /\ reply = "error"
         /\ awaiting' = IF saving \/ awaiting = id THEN NoSession ELSE awaiting
         /\ IF saving THEN Show("cycling", id)
            ELSE IF awaiting = id THEN UNCHANGED <<view, current>>
            ELSE Show("picking", IF current = id THEN NoSession ELSE current)
      \/ linked /\ reply = "done" /\ UNCHANGED <<view, current, awaiting>>
  BY DEF Broadcast, Replies
<1>3. awaiting' \in Sessions \cup {NoSession}
  BY <1>1, <1>2
<1>4. \/ view' = view /\ current' = current
      \/ view' = "picking" /\ current' \in {NoSession, current}
      \/ saving /\ view' = "cycling" /\ current' = id
  BY <1>2 DEF Release, Show
<1> QED
  BY <1>1, <1>3, <1>4 DEF Views

LEMMA FinishingLease ==
  ASSUME NEW x \in Leases, NEW y, y = [x EXCEPT !.at = "finishing", !.valid = FALSE]
  PROVE  /\ y \in Leases /\ y.at = "finishing" /\ ~y.valid
         /\ y.id = x.id /\ y.type = x.type
<1>1. PICK at \in Holding \cup {"idle", "parked"}, id \in Sessions \cup {NoSession},
           type \in Types \cup {Nothing}, valid \in BOOLEAN :
        x = [at |-> at, id |-> id, type |-> type, valid |-> valid]
  BY DEF Leases
<1>2. y = [at |-> "finishing", id |-> id, type |-> type, valid |-> FALSE]
  BY <1>1
<1>3. PICK fin \in Holding, no \in BOOLEAN : fin = "finishing" /\ no = FALSE
  BY DEF Holding
<1>4. [at |-> fin, id |-> id, type |-> type, valid |-> no] \in Leases
  BY DEF Leases
<1> QED
  BY <1>1, <1>2, <1>3, <1>4

LEMMA ReplyStep ==
  ASSUME IInv, NEW a \in Agents, NEW reply \in Replies, Reply(a, reply)
  PROVE  IInv'
<1>0. PICK s, source, ack : /\ s = agent[a].id /\ source = Source(a, reply)
                            /\ ack = Acknowledged(s, source)
  OBVIOUS
<1> PICK rem : rem = Remaining(s, source)
  OBVIOUS
<1> PICK y : y = IF reply = "carbonize" THEN [agent[a] EXCEPT !.at = "finishing", !.valid = FALSE] ELSE Idle
  OBVIOUS
<1> PICK revoked : revoked = Revoked(s, ack)
  OBVIOUS
<1> PICK kept : kept = [revoked EXCEPT ![a] = y]
  OBVIOUS
<1>1. /\ MayReply(a, reply)
      /\ written' = IF reply \in {"complete", "carbonize", "discarded"} THEN written \ {s} ELSE written
      /\ journal' = IF ack = Nothing /\ journal[s].phase \in Completed THEN journal
                    ELSE [journal EXCEPT ![s] = Replied(@, reply, ack)]
      /\ Flush(rem, kept) /\ Broadcast(s, reply)
      /\ gate' = gate /\ capturing' = capturing /\ linked' = linked /\ abandoned' = abandoned
      /\ unused' = unused /\ requests' = requests /\ faults' = faults
  BY <1>0 DEF Reply
<1>2. /\ Consistent(Fresh, Touched, journal, queue, agent) /\ agent \in [Agents -> Leases]
      /\ queue \in Seq(Entries) /\ KeysOnce(queue) /\ Assigned(agent)
      /\ journal \in [Sessions -> Snapshots] /\ \A r \in Sessions : Pends(r, journal)
      /\ PageTyped /\ CreatedOnce /\ Line(parked, agent)
  BY DEF IInv, Consistent, Leasing, Story
<1>3. /\ agent[a].at \in {"working", "finishing"}
      /\ reply = "carbonize" => agent[a].at = "working" /\ agent[a].type \in Answers
  BY <1>1 DEF MayReply, Answers
<1>4. s \in Sessions /\ ~Awaited(s, Fresh, journal, queue, agent)
  BY <1>0, <1>2, <1>3, WorkedOn
<1>5. /\ view' \in Views /\ current' \in Sessions \cup {NoSession}
      /\ awaiting' \in Sessions \cup {NoSession}
      /\ view' # "picking" => current' \in Sessions
      /\ view' \in {"cycling", "saving"} => view \in {"cycling", "saving"} /\ current' = current
  BY <1>1, <1>2, <1>4, BroadcastFacts
<1>6. PageTyped' /\ CreatedOnce'
  BY <1>1, <1>2, <1>5 DEF PageTyped, CreatedOnce
<1>7. Fresh' = Fresh /\ Touched' \subseteq Touched
  <2>1. Fresh' = Fresh
    BY <1>1 DEF Fresh
  <2>2. written' \subseteq written
    BY <1>1
  <2> QED
    BY <1>1, <1>5, <2>1, <2>2 DEF Touched
<1>8. /\ journal' \in [Sessions -> Snapshots] /\ \A r \in Sessions \ {s} : journal'[r] = journal[r]
      /\ journal'[s].pending \in {journal[s].pending, Nothing}
      /\ journal'[s].canceled = journal[s].canceled
  <2>1. PICK x \in Snapshots : x = journal[s]
    BY <1>2, <1>4
  <2>2. PICK z : z = Replied(x, reply, ack)
    OBVIOUS
  <2>3. z \in Snapshots /\ z.pending \in {x.pending, Nothing} /\ z.canceled = x.canceled
    BY <2>2, RepliedFacts
  <2>4. journal' = journal \/ journal' = [journal EXCEPT ![s] = z]
    BY <1>1, <2>1, <2>2
  <2> QED
    BY <1>2, <1>4, <2>1, <2>3, <2>4
<1>9. Consistent(Fresh', Touched', journal', queue, agent)
  <2>1. journal[s].pending # Event(s, "generate") /\ Nothing # Event(s, "generate")
    <3>1. Event(s, "generate") \in EventSet
      BY <1>4 DEF Event, EventSet, Types
    <3> QED
      BY <1>4, <3>1, LiveAssumption DEF Awaited
  <2>2. journal'[s].pending # Event(s, "generate")
    BY <1>8, <2>1
  <2>3. Pends(s, journal')
    BY <1>2, <1>4, <1>8 DEF Pends
  <2>4. Fresh' \subseteq Fresh /\ Touched' \subseteq Touched \cup {s}
    BY <1>7
  <2>5. journal'[s].canceled => journal[s].canceled
    BY <1>8
  <2> QED
    BY <1>2, <1>4, <1>8, <2>2, <2>3, <2>4, <2>5, JournalKeeps
<1>10. y \in Leases /\ ~Busy(y) /\ Loosened(y, agent[a]) /\ y.at # "scaffolding"
  <2>1. CASE reply = "carbonize"
    <3>1. y \in Leases /\ y.at = "finishing" /\ ~y.valid /\ y.id = agent[a].id /\ y.type = agent[a].type
      BY <1>2, <2>1, FinishingLease
    <3> QED
      BY <1>3, <2>1, <3>1 DEF Busy, Loosened
  <2>2. CASE reply # "carbonize"
    BY <2>2 DEF Idle, Leases, Busy, Loosened
  <2> QED
    BY <2>1, <2>2
<1>11. /\ revoked \in [Agents -> Leases]
       /\ \A b \in Agents :
            /\ revoked[b].at = agent[b].at /\ revoked[b].id = agent[b].id /\ revoked[b].type = agent[b].type
            /\ revoked[b].valid <=> agent[b].valid /\ <<agent[b].id, agent[b].type>> # <<s, ack>>
  BY <1>2, RevokedFacts
<1>12. kept \in [Agents -> Leases] /\ kept[a] = y /\ \A b \in Agents : b # a => kept[b] = revoked[b]
  BY <1>10, <1>11
<1>13. Loosening(kept, agent)
  <2>1. ASSUME NEW b \in Agents, b # a PROVE Loosened(kept[b], agent[b]) /\ (kept[b].at = "scaffolding" => kept[b].valid)
    <3>1. kept[b] = revoked[b]
      BY <1>12, <2>1
    <3>2. ASSUME agent[b].at = "scaffolding" PROVE revoked[b].valid
      <4>1. agent[b].valid /\ agent[b].id # s
        BY <1>2, <1>4, <3>2 DEF Assigned, Awaited
      <4> QED
        BY <1>11, <4>1
    <3> QED
      BY <1>11, <3>1, <3>2 DEF Loosened
  <2> QED
    BY <1>10, <1>12, <2>1 DEF Loosening
<1>14. ASSUME NEW b \in Agents, Busy(kept[b])
       PROVE  <<kept[b].id, kept[b].type>> # <<s, ack>>
  BY <1>10, <1>11, <1>12, <1>14 DEF Busy
<1>15. Consistent(Fresh', Touched', journal', rem, kept)
  <2>1. \A b \in Agents : Busy(kept[b]) => <<kept[b].id, kept[b].type>> # <<s, Acknowledged(s, source)>>
    BY <1>0, <1>14
  <2> QED
    BY <1>9, <1>13, <2>1, AcknowledgeKeeps
<1>16. Line(parked, kept)
  <2>1. \A i \in DOMAIN parked : parked[i] \in Agents
    BY <1>2, ElementOfSeq, LenProperties DEF Line
  <2> QED
    BY <1>2, <1>3, <1>11, <1>12, <2>1 DEF Line
<1>17. Consistent(Fresh', Touched', journal', queue', agent') /\ Line(parked', agent') /\ NoPollWaitsBesideWork'
  BY <1>1, <1>15, <1>16, FlushKeeps
<1> QED
  BY <1>6, <1>17 DEF IInv

-----------------------------------------------------------------------------
(* The restart. *)

\* The helper queues again what each unfinished session waits for, in one
\* order or another.
LEMMA PendingFacts ==
  ASSUME journal \in [Sessions -> Snapshots], \A s \in Sessions : Pends(s, journal),
         NEW order \in SetToSeqs(Pending), NEW q, q = [i \in DOMAIN order |-> Entry(order[i])]
  PROVE  /\ q \in Seq(Entries) /\ KeysOnce(q)
         /\ \A i \in DOMAIN q : /\ q[i].event.id \in Sessions
                                /\ q[i].event = journal[q[i].event.id].pending
                                /\ journal[q[i].event.id].pending # Nothing
<1> PICK open : open = {x \in Sessions : journal[x].phase \notin Completed}
  OBVIOUS
<1> PICK events : events = {journal[s].pending : s \in open}
  OBVIOUS
<1>1. Pending = events \ {Nothing}
  BY DEF Pending
<1>2. IsFiniteSet(open)
  BY LiveAssumption, FS_Subset
<1>3. [s \in open |-> journal[s].pending] \in Surjection(open, events)
  BY DEF Surjection
<1>4. IsFiniteSet(events)
  BY <1>2, <1>3, FS_Surjection
<1>5. IsFiniteSet(Pending)
  BY <1>1, <1>4, FS_Subset
<1>6. PICK n \in Nat : n = Cardinality(Pending)
  BY <1>5, FS_CardinalityType
<1>7. order \in [1..n -> Pending] /\ \A i, j \in 1..n : i # j => order[i] # order[j]
  BY <1>6 DEF SetToSeqs
<1>8. ASSUME NEW i \in 1..n
      PROVE  /\ order[i] \in EventSet /\ order[i].id \in Sessions
             /\ order[i] = journal[order[i].id].pending /\ order[i] # Nothing
  <2>1. PICK s \in Sessions : order[i] = journal[s].pending /\ order[i] # Nothing
    BY <1>1, <1>7
  <2>2. order[i].id = s
    BY <2>1 DEF Pends
  <2>3. order[i] \in EventSet
    BY <2>1 DEF Snapshots
  <2> QED
    BY <2>1, <2>2, <2>3
<1>9. ASSUME NEW i \in 1..n
      PROVE q[i] \in Entries /\ q[i].event = order[i] /\ Key(q[i]) = <<order[i].id, order[i].type>>
  <2>1. q[i] = [event |-> order[i], leased |-> FALSE]
    BY <1>7 DEF Entry
  <2>2. order[i] \in EventSet
    BY <1>8
  <2>3. q[i].event = order[i] /\ Key(q[i]) = <<order[i].id, order[i].type>>
    BY <2>1 DEF Key
  <2>4. PICK no \in BOOLEAN : no = FALSE
    OBVIOUS
  <2>5. [event |-> order[i], leased |-> no] \in Entries
    BY <2>2 DEF Entries
  <2> QED
    BY <2>1, <2>3, <2>4, <2>5
<1>10. q \in [1..n -> Entries] /\ DOMAIN q = 1..n
  BY <1>7, <1>9
<1>11. q \in Seq(Entries)
  BY <1>10, FunctionIsSeq
<1>12. KeysOnce(q)
  <2> SUFFICES ASSUME NEW i \in 1..n, NEW j \in 1..n, Key(q[i]) = Key(q[j]) PROVE i = j
    BY <1>10 DEF KeysOnce
  <2>1. order[i].id = order[j].id
    BY <1>9
  <2>2. order[i] = order[j]
    BY <1>8, <2>1
  <2> QED
    BY <1>7, <2>2
<1> QED
  BY <1>8, <1>9, <1>10, <1>11, <1>12

LEMMA EndedLease ==
  ASSUME NEW x \in Leases, NEW y, y = [x EXCEPT !.valid = FALSE]
  PROVE  y \in Leases /\ y.at = x.at /\ ~y.valid /\ y.id = x.id /\ y.type = x.type
<1>1. PICK at \in Holding \cup {"idle", "parked"}, id \in Sessions \cup {NoSession},
           type \in Types \cup {Nothing}, valid \in BOOLEAN :
        x = [at |-> at, id |-> id, type |-> type, valid |-> valid]
  BY DEF Leases
<1>2. y = [at |-> at, id |-> id, type |-> type, valid |-> FALSE]
  BY <1>1
<1>3. PICK no \in BOOLEAN : no = FALSE
  OBVIOUS
<1>4. [at |-> at, id |-> id, type |-> type, valid |-> no] \in Leases
  BY DEF Leases
<1> QED
  BY <1>1, <1>2, <1>3, <1>4

\* What the agents hold after it.
LEMMA RestartedFacts ==
  ASSUME agent \in [Agents -> Leases], Assigned(agent),
         agent' = [a \in Agents |->
           CASE agent[a].at \in {"parked", "scaffolding"} -> Idle
             [] agent[a].at = "working" /\ agent[a].type \in Answers ->
                  [agent[a] EXCEPT !.at = "finishing", !.valid = FALSE]
             [] OTHER -> [agent[a] EXCEPT !.valid = FALSE]]
  PROVE  /\ agent' \in [Agents -> Leases] /\ Assigned(agent')
         /\ \A a \in Agents :
              /\ ~agent'[a].valid /\ agent'[a].at \notin {"scaffolding", "parked"}
              /\ agent'[a].at \in Holding =>
                   /\ agent[a].at \in Holding /\ agent[a].at # "scaffolding"
                   /\ agent'[a].id = agent[a].id
<1>1. ASSUME NEW a \in Agents
      PROVE  /\ agent'[a] \in Leases
             /\ ~agent'[a].valid /\ agent'[a].at \notin {"scaffolding", "parked"}
             /\ agent'[a].at \in Holding =>
                  /\ agent[a].at \in Holding /\ agent[a].at # "scaffolding"
                  /\ agent'[a].id = agent[a].id /\ agent'[a].type = agent[a].type
                  /\ agent'[a].at = "finishing" => agent[a].at = "finishing" \/ agent[a].type \in Answers
  <2>1. PICK x \in Leases : x = agent[a]
    OBVIOUS
  <2>2. CASE x.at \in {"parked", "scaffolding"}
    <3>1. agent'[a] = Idle
      BY <2>1, <2>2
    <3> QED
      BY <3>1 DEF Idle, Leases, Holding
  <2>3. CASE x.at \notin {"parked", "scaffolding"} /\ x.at = "working" /\ x.type \in Answers
    <3>1. agent'[a] = [x EXCEPT !.at = "finishing", !.valid = FALSE]
      BY <2>1, <2>3
    <3>2. PICK y : y = agent'[a]
      OBVIOUS
    <3>3. y \in Leases /\ y.at = "finishing" /\ ~y.valid /\ y.id = x.id /\ y.type = x.type
      BY <3>1, <3>2, FinishingLease
    <3> QED
      BY <2>1, <2>3, <3>2, <3>3 DEF Holding
  <2>4. CASE x.at \notin {"parked", "scaffolding"} /\ ~(x.at = "working" /\ x.type \in Answers)
    <3>1. agent'[a] = [x EXCEPT !.valid = FALSE]
      BY <2>1, <2>4
    <3>2. PICK y : y = agent'[a]
      OBVIOUS
    <3>3. y \in Leases /\ y.at = x.at /\ ~y.valid /\ y.id = x.id /\ y.type = x.type
      BY <3>1, <3>2, EndedLease
    <3> QED
      BY <2>1, <2>4, <3>2, <3>3 DEF Holding
  <2> QED
    BY <2>2, <2>3, <2>4
<1>2. agent' = [a \in Agents |-> agent'[a]]
  OBVIOUS
<1>3. agent' \in [Agents -> Leases]
  BY <1>1, <1>2
<1>4. Assigned(agent')
  BY <1>1 DEF Assigned, Holding
<1> QED
  BY <1>1, <1>3, <1>4

LEMMA RestartStep ==
  ASSUME IInv, Restart
  PROVE  IInv'
<1>1. /\ parked' = << >> /\ requests' = {} /\ gate' = NoSession /\ linked' = FALSE
      /\ view' = IF view = "saving" THEN "cycling" ELSE view
      /\ current' = current /\ awaiting' = awaiting /\ capturing' = capturing
      /\ abandoned' = abandoned /\ unused' = unused /\ written' = written /\ journal' = journal
      /\ faults < MaxFaults /\ faults' = faults + 1
  BY DEF Restart
<1>2. PICK order \in SetToSeqs(Pending) : queue' = [i \in DOMAIN order |-> Entry(order[i])]
  BY DEF Restart
<1>3. /\ agent \in [Agents -> Leases] /\ Assigned(agent) /\ journal \in [Sessions -> Snapshots]
      /\ \A s \in Sessions : Story(s, Fresh, Touched, journal, queue, agent)
      /\ \A s \in Sessions : Pends(s, journal)
  BY DEF IInv, Consistent, Leasing, Story
<1>4. PageTyped' /\ CreatedOnce'
  <2>1. PageTyped /\ CreatedOnce
    BY DEF IInv
  <2>2. faults' \in 0..MaxFaults
    BY <1>1, <2>1, LiveAssumption DEF PageTyped
  <2>3. view' \in Views /\ (view' # "picking" => view # "picking")
    BY <1>1, <2>1 DEF PageTyped, Views
  <2>4. PageTyped'
    BY <1>1, <2>1, <2>2, <2>3 DEF PageTyped
  <2> QED
    BY <1>1, <2>1, <2>3, <2>4 DEF CreatedOnce
<1>5. Fresh' \subseteq Fresh
  BY <1>1 DEF Fresh
<1>6. Touched' \subseteq Touched
  BY <1>1 DEF Touched
<1>7. /\ queue' \in Seq(Entries) /\ KeysOnce(queue')
      /\ \A i \in DOMAIN queue' : /\ queue'[i].event.id \in Sessions
                                  /\ queue'[i].event = journal[queue'[i].event.id].pending
                                  /\ journal[queue'[i].event.id].pending # Nothing
  BY <1>2, <1>3, PendingFacts
<1>8. /\ agent' \in [Agents -> Leases] /\ Assigned(agent')
      /\ \A a \in Agents :
           /\ ~agent'[a].valid /\ agent'[a].at \notin {"scaffolding", "parked"}
           /\ agent'[a].at \in Holding =>
                /\ agent[a].at \in Holding /\ agent[a].at # "scaffolding"
                /\ agent'[a].id = agent[a].id
  <2>1. agent' = [a \in Agents |->
           CASE agent[a].at \in {"parked", "scaffolding"} -> Idle
             [] agent[a].at = "working" /\ agent[a].type \in Answers ->
                  [agent[a] EXCEPT !.at = "finishing", !.valid = FALSE]
             [] OTHER -> [agent[a] EXCEPT !.valid = FALSE]]
    BY DEF Restart
  <2> QED
    BY <1>3, <2>1, RestartedFacts
<1>9. Leasing(queue', agent')
  BY <1>7, <1>8 DEF Leasing, Handed, Exclusive, Busy
<1>10. Retired(queue', journal)
  <2>1. ASSUME NEW i \in DOMAIN queue', queue'[i].event.type = "generate"
        PROVE  ~journal[queue'[i].event.id].canceled
    BY <1>3, <1>7, <2>1 DEF Pends
  <2> QED
    BY <2>1 DEF Retired
<1>11. ASSUME NEW s \in Sessions PROVE Story(s, Fresh', Touched', journal, queue', agent')
  <2>1. Story(s, Fresh, Touched, journal, queue, agent)
    BY <1>3
  <2>2. \A i \in DOMAIN queue' : queue'[i].event.id = s => queue'[i].event = journal[s].pending /\ journal[s].pending # Nothing
    BY <1>7
  <2>3. s \in Fresh' => Untouched(s, journal, queue', agent')
    BY <1>5, <1>8, <2>1, <2>2 DEF Story, Untouched
  <2>4. Event(s, "generate").id = s
    BY DEF Event
  <2>5. Awaited(s, Fresh', journal, queue', agent') => Awaited(s, Fresh, journal, queue, agent)
    BY <1>5, <1>8, <2>2, <2>4 DEF Awaited
  <2>6. Awaited(s, Fresh, journal, queue, agent) => Calm(s, Touched', journal, queue', agent')
    BY <1>6, <1>8, <2>1, <2>2 DEF Story, Calm
  <2> QED
    BY <2>1, <2>3, <2>5, <2>6 DEF Story
<1>12. Consistent(Fresh', Touched', journal', queue', agent')
  BY <1>1, <1>3, <1>7, <1>8, <1>9, <1>10, <1>11 DEF Consistent
<1>13. parked' \in Seq(Agents) /\ DOMAIN parked' = {}
  BY <1>1
<1>14. Line(parked', agent') /\ NoPollWaitsBesideWork'
  BY <1>1, <1>13 DEF Line, Once, NoPollWaitsBesideWork
<1> QED
  BY <1>4, <1>12, <1>14 DEF IInv

-----------------------------------------------------------------------------
(* The steps of the page. *)

\* A step of the page alone.
LEMMA PageStep ==
  ASSUME IInv, UNCHANGED <<helper, agent>>, PageTyped', CreatedOnce',
         Fresh' \subseteq Fresh, Touched' \subseteq Touched
  PROVE  IInv'
<1>1. journal' = journal /\ queue' = queue /\ parked' = parked /\ agent' = agent
  BY DEF helper
<1>2. Consistent(Fresh, Touched, journal, queue, agent) /\ agent \in [Agents -> Leases]
  BY DEF IInv, Consistent
<1>3. Consistent(Fresh', Touched', journal, queue, agent)
  BY <1>2, PageKeeps
<1>4. Line(parked', agent') /\ NoPollWaitsBesideWork'
  BY <1>1, <1>2, LineSame
<1> QED
  BY <1>1, <1>3, <1>4 DEF IInv

LEMMA RequestFacts ==
  ASSUME PageTyped, NEW id \in Sessions, NEW type \in Types \cup {"checkpoint", "orphaned"},
         NEW r, r = Request(id, type)
  PROVE  /\ r \in RequestSet /\ r.id = id /\ r.type = type
         /\ type = "generate" => r.after = NoSession
<1>1. PICK after \in Sessions \cup {NoSession} : after = IF type = "generate" THEN NoSession ELSE gate
  BY DEF PageTyped
<1>2. r = [id |-> id, type |-> type, after |-> after]
  BY <1>1 DEF Request
<1> QED
  BY <1>1, <1>2 DEF RequestSet

LEMMA GoStep ==
  ASSUME IInv, NEW s \in Sessions, NEW annotated \in BOOLEAN, Go(s, annotated)
  PROVE  IInv'
<1> PICK c, g : c = Request(s, "checkpoint") /\ g = Request(s, "generate")
  OBVIOUS
<1>1. /\ PageTyped /\ CreatedOnce
      /\ s \in unused /\ view' = "generating" /\ current' = s /\ awaiting' = NoSession
      /\ unused' = unused \ {s} /\ linked' = linked /\ abandoned' = abandoned
      /\ written' = written /\ faults' = faults /\ UNCHANGED <<helper, agent>>
      /\ \/ capturing' = capturing \cup {s} /\ requests' = requests \cup {c} /\ gate' = gate
         \/ capturing' = capturing /\ requests' = requests \cup {c, g} /\ gate' = s
  BY DEF IInv, Go, Show
<1>2. c \in RequestSet /\ c.id = s /\ c.type = "checkpoint"
  BY <1>1, RequestFacts
<1>3. g \in RequestSet /\ g.id = s /\ g.type = "generate" /\ g.after = NoSession
  <2>1. "generate" \in Types \cup {"checkpoint", "orphaned"}
    BY DEF Types
  <2> QED
    BY <1>1, <2>1, RequestFacts
<1>4. PageTyped'
  BY <1>1, <1>2, <1>3 DEF PageTyped, Views
<1>5. CreatedOnce'
  BY <1>1, <1>2, <1>3 DEF CreatedOnce
<1>6. Fresh' \subseteq Fresh
  BY <1>1, <1>2, <1>3 DEF Fresh
<1>7. Touched' \subseteq Touched
  BY <1>1, <1>2, <1>3 DEF Touched
<1> QED
  BY <1>1, <1>4, <1>5, <1>6, <1>7, PageStep

LEMMA CapturedStep ==
  ASSUME IInv, NEW s \in Sessions, Captured(s)
  PROVE  IInv'
<1> PICK g : g = Request(s, "generate")
  OBVIOUS
<1>1. /\ PageTyped /\ CreatedOnce
      /\ s \in capturing /\ capturing' = capturing \ {s} /\ requests' = requests \cup {g} /\ gate' = s
      /\ view' = view /\ current' = current /\ awaiting' = awaiting
      /\ linked' = linked /\ abandoned' = abandoned /\ unused' = unused
      /\ written' = written /\ faults' = faults /\ UNCHANGED <<helper, agent>>
  BY DEF IInv, Captured
<1>2. g \in RequestSet /\ g.id = s /\ g.type = "generate" /\ g.after = NoSession
  <2>1. "generate" \in Types \cup {"checkpoint", "orphaned"}
    BY DEF Types
  <2> QED
    BY <1>1, <2>1, RequestFacts
<1>3. PageTyped'
  BY <1>1, <1>2 DEF PageTyped
<1>4. CreatedOnce'
  BY <1>1, <1>2 DEF CreatedOnce
<1>5. Fresh' \subseteq Fresh
  BY <1>1, <1>2 DEF Fresh
<1>6. Touched' \subseteq Touched
  BY <1>1, <1>2 DEF Touched
<1> QED
  BY <1>1, <1>3, <1>4, <1>5, <1>6, PageStep

\* A request about the session on display leaves, the variants of which the
\* page has seen or an agent has written.
LEMMA CurrentStep ==
  ASSUME IInv, NEW type \in Types \cup {"checkpoint"}, type # "generate",
         \/ current \in written
         \/ view = "cycling",
         view' \in {view, "cycling", "saving"}, faults' \in 0..MaxFaults,
         requests' = requests \cup {Request(current, type)},
         UNCHANGED <<current, awaiting, gate, capturing, linked, abandoned, unused, written, helper, agent>>
  PROVE  IInv'
<1> PICK r : r = Request(current, type)
  OBVIOUS
<1>1. /\ PageTyped /\ CreatedOnce
      /\ requests' = requests \cup {r} /\ capturing' = capturing /\ gate' = gate
      /\ current' = current /\ awaiting' = awaiting
      /\ linked' = linked /\ abandoned' = abandoned /\ unused' = unused
      /\ written' = written /\ UNCHANGED <<helper, agent>>
  BY DEF IInv
<1>2. current \in Sessions /\ current \in Touched
  BY <1>1 DEF PageTyped, CreatedOnce, Touched
<1>3. r \in RequestSet /\ r.id = current /\ r.type = type
  BY <1>1, <1>2, RequestFacts
<1>4. PageTyped'
  BY <1>1, <1>3 DEF PageTyped, Views
<1>5. CreatedOnce'
  BY <1>1, <1>2, <1>3 DEF CreatedOnce
<1>6. Fresh' \subseteq Fresh
  BY <1>1, <1>3 DEF Fresh
<1>7. Touched' \subseteq Touched
  <2>1. ASSUME NEW s \in Touched', s # current PROVE s \in Touched
    BY <1>1, <1>3, <2>1 DEF Touched
  <2> QED
    BY <1>2, <2>1
<1> QED
  BY <1>1, <1>4, <1>5, <1>6, <1>7, PageStep

LEMMA VariantsArriveStep == IInv /\ VariantsArrive => IInv'
<1> SUFFICES ASSUME IInv, VariantsArrive PROVE IInv'
  OBVIOUS
<1>1. faults' \in 0..MaxFaults
  BY DEF IInv, PageTyped, VariantsArrive
<1> QED
  BY <1>1, CurrentStep DEF VariantsArrive

LEMMA AnswerStep ==
  ASSUME IInv, NEW type \in Answers, Answer(type)
  PROVE  IInv'
<1>1. faults' \in 0..MaxFaults /\ type \in Types \cup {"checkpoint"} /\ type # "generate"
  BY DEF IInv, PageTyped, Answer, Answers, Types
<1> QED
  BY <1>1, CurrentStep DEF Answer

LEMMA MountFailsStep == IInv /\ MountFails => IInv'
<1> SUFFICES ASSUME IInv, MountFails PROVE IInv'
  OBVIOUS
<1>1. faults' \in 0..MaxFaults
  BY LiveAssumption DEF IInv, PageTyped, MountFails
<1>2. PICK type \in Types : type = "variant_mount_failed"
  BY DEF Types
<1>3. requests' = requests \cup {Request(current, type)}
  BY <1>2 DEF MountFails
<1> QED
  BY <1>1, <1>2, <1>3, CurrentStep DEF MountFails, page

LEMMA ReloadStep == IInv /\ Reload => IInv'
<1> SUFFICES ASSUME IInv, Reload PROVE IInv'
  OBVIOUS
<1>1. /\ PageTyped /\ CreatedOnce
      /\ awaiting' = NoSession /\ gate' = NoSession /\ capturing' = {} /\ linked' = TRUE
      /\ abandoned' = abandoned /\ unused' = unused /\ written' = written /\ faults' = faults
      /\ UNCHANGED <<helper, agent>>
  BY DEF IInv, Reload
<1>2. \/ view' = "picking" /\ current' = NoSession /\ requests' = {}
      \/ \E type \in {"orphaned", "checkpoint"} :
           /\ current # NoSession
           /\ requests' = {[id |-> current, after |-> NoSession, type |-> type]}
           /\ type = "orphaned" => view = "cycling" /\ view' = "picking" /\ current' = NoSession
           /\ type = "checkpoint" =>
                current' = current /\ view' = IF current \in written THEN "cycling" ELSE "generating"
  BY DEF Reload, Release, Show
<1>3. \A r \in requests' :
        /\ r \in RequestSet /\ r.type \in {"orphaned", "checkpoint"}
        /\ r.id = current /\ (r.type = "orphaned" => view = "cycling")
  <2>1. CASE requests' = {}
    BY <2>1
  <2>2. CASE requests' # {}
    <3>1. PICK type \in {"orphaned", "checkpoint"} :
            /\ current \in Sessions
            /\ requests' = {[id |-> current, after |-> NoSession, type |-> type]}
            /\ type = "orphaned" => view = "cycling"
      BY <1>1, <1>2, <2>2 DEF PageTyped
    <3>2. PICK r : r = [id |-> current, after |-> NoSession, type |-> type]
      OBVIOUS
    <3>3. r \in RequestSet /\ r.type = type /\ r.id = current
      BY <3>1, <3>2 DEF RequestSet
    <3> QED
      BY <3>1, <3>2, <3>3
  <2> QED
    BY <2>1, <2>2
<1>4. /\ view' \in Views /\ current' \in Sessions \cup {NoSession}
      /\ view' # "picking" => current' \in Sessions
      /\ view' \in {"cycling", "saving"} => current' \in written
  BY <1>1, <1>2 DEF PageTyped, Views
<1>5. PageTyped'
  BY <1>1, <1>3, <1>4 DEF PageTyped
<1>6. CreatedOnce'
  BY <1>1, <1>3, <1>4 DEF CreatedOnce
<1>7. Fresh' \subseteq Fresh
  BY <1>1, <1>3 DEF Fresh
<1>8. Touched' \subseteq Touched
  BY <1>1, <1>3, <1>4 DEF Touched
<1> QED
  BY <1>1, <1>5, <1>6, <1>7, <1>8, PageStep

-----------------------------------------------------------------------------
(* The requests that reach the helper. *)

\* The others stay, and may now go.
LEMMA DeliveredFacts ==
  ASSUME PageTyped, CreatedOnce, NEW m, Delivered(m)
  PROVE  /\ m \in requests /\ m \in RequestSet /\ gate' \in Sessions \cup {NoSession}
         /\ \A r \in requests' :
              /\ r \in RequestSet
              /\ r.type = "generate" => r.after = NoSession
              /\ \E o \in requests : /\ r.id = o.id /\ r.type = o.type
                                     /\ m.type = "generate" /\ o.type = "generate" => o.id # m.id
<1> DEFINE Opened(id) == IF m.type = "generate" /\ id = m.id THEN NoSession ELSE id
<1>1. /\ m \in requests /\ m.after = NoSession /\ gate' = Opened(gate)
      /\ requests' = {[r EXCEPT !.after = Opened(r.after)] : r \in requests \ {m}}
  BY DEF Delivered
<1>2. /\ requests \subseteq RequestSet /\ gate \in Sessions \cup {NoSession}
      /\ \A r \in requests : r.type = "generate" => r.after = NoSession
  BY DEF PageTyped, CreatedOnce
<1>3. gate' \in Sessions \cup {NoSession}
  BY <1>1, <1>2
<1>4. ASSUME NEW r \in requests'
      PROVE  /\ r \in RequestSet
             /\ r.type = "generate" => r.after = NoSession
             /\ \E o \in requests : /\ r.id = o.id /\ r.type = o.type
                                    /\ m.type = "generate" /\ o.type = "generate" => o.id # m.id
  <2>1. PICK o \in requests \ {m} : r = [o EXCEPT !.after = Opened(o.after)]
    BY <1>1
  <2>2. PICK id \in Sessions, type \in Types \cup {"checkpoint", "orphaned"},
             after \in Sessions \cup {NoSession} :
          o = [id |-> id, type |-> type, after |-> after]
    BY <1>2 DEF RequestSet
  <2>3. PICK mid \in Sessions, kind \in Types \cup {"checkpoint", "orphaned"},
             gone \in Sessions \cup {NoSession} :
          m = [id |-> mid, type |-> kind, after |-> gone]
    BY <1>1, <1>2 DEF RequestSet
  <2>4. PICK next \in Sessions \cup {NoSession} : next = Opened(after)
    BY <2>2
  <2>5. Opened(o.after) \in Sessions \cup {NoSession} /\ (o.after = NoSession => Opened(o.after) = NoSession)
    BY <2>2
  <2>6. PICK x \in Sessions \cup {NoSession} : x = Opened(o.after)
    BY <2>5
  <2>7. r = [o EXCEPT !.after = x]
    BY <2>1, <2>6
  <2>8. r = [id |-> o.id, type |-> o.type, after |-> x] /\ r \in RequestSet
    BY <2>2, <2>7 DEF RequestSet
  <2>9. r.type = "generate" => r.after = NoSession
    BY <1>2, <2>5, <2>6, <2>8
  <2>10. m.type = "generate" /\ o.type = "generate" => o.id # m.id
    BY <1>1, <1>2, <2>2, <2>3
  <2> QED
    BY <2>8, <2>9, <2>10
<1> QED
  BY <1>1, <1>2, <1>3, <1>4

\* A request is answered, and the page goes on with it or lets go of it.
LEMMA DeliveredPage ==
  ASSUME IInv, NEW m, Delivered(m),
         view' \in Views, current' \in Sessions \cup {NoSession}, awaiting' \in Sessions \cup {NoSession},
         view' # "picking" => current' \in Sessions,
         view' \in {"cycling", "saving"} => view \in {"cycling", "saving"} /\ current' = current,
         abandoned' \subseteq Sessions, linked' = linked,
         capturing' = capturing, unused' = unused, written' = written, faults' = faults
  PROVE  /\ PageTyped' /\ CreatedOnce' /\ Fresh' \subseteq Fresh /\ Touched' \subseteq Touched
         /\ m \in RequestSet
         /\ m.type = "generate" => m.id \in Fresh /\ m.id \notin Fresh'
         /\ m.type \notin {"checkpoint", "generate"} => m.id \in Touched
<1>1. PageTyped /\ CreatedOnce
  BY DEF IInv
<1>2. /\ m \in requests /\ m \in RequestSet /\ gate' \in Sessions \cup {NoSession}
      /\ \A r \in requests' :
           /\ r \in RequestSet
           /\ r.type = "generate" => r.after = NoSession
           /\ \E o \in requests : /\ r.id = o.id /\ r.type = o.type
                                  /\ m.type = "generate" /\ o.type = "generate" => o.id # m.id
  BY <1>1, DeliveredFacts
<1>3. PageTyped'
  BY <1>1, <1>2 DEF PageTyped
<1>4. CreatedOnce'
  BY <1>1, <1>2 DEF CreatedOnce
<1>5. Fresh' \subseteq Fresh
  BY <1>2 DEF Fresh
<1>6. Touched' \subseteq Touched
  BY <1>2 DEF Touched
<1>7. m.id \in Sessions
  BY <1>2 DEF RequestSet
<1>8. m.type = "generate" => m.id \in Fresh /\ m.id \notin Fresh'
  BY <1>1, <1>2, <1>7 DEF Fresh, CreatedOnce
<1>9. m.type \notin {"checkpoint", "generate"} => m.id \in Touched
  BY <1>2, <1>7 DEF Touched
<1> QED
  BY <1>2, <1>3, <1>4, <1>5, <1>6, <1>8, <1>9

LEMMA RefusedStep ==
  ASSUME IInv, NEW m, Refused(m)
  PROVE  IInv'
<1>1. /\ PageTyped /\ CreatedOnce /\ Delivered(m)
      /\ awaiting' = awaiting /\ linked' = linked /\ capturing' = capturing /\ unused' = unused
      /\ written' = written /\ faults' = faults /\ UNCHANGED <<helper, agent>>
      /\ abandoned' \in {abandoned, abandoned \cup {m.id}}
  BY DEF IInv, Refused
<1>2. \/ view' = "picking" /\ current' = NoSession
      \/ view = "saving" /\ view' = "cycling" /\ current' = current
      \/ view' = view /\ current' = current
  BY DEF Refused, Release, Show
<1>3. m.id \in Sessions
  <2>1. m \in RequestSet
    BY <1>1, DeliveredFacts
  <2> QED
    BY <2>1 DEF RequestSet
<1>4. /\ view' \in Views /\ current' \in Sessions \cup {NoSession}
      /\ awaiting' \in Sessions \cup {NoSession}
      /\ view' # "picking" => current' \in Sessions
      /\ view' \in {"cycling", "saving"} => view \in {"cycling", "saving"} /\ current' = current
      /\ abandoned' \subseteq Sessions
  BY <1>1, <1>2, <1>3 DEF PageTyped, CreatedOnce, Views
<1>5. PageTyped' /\ CreatedOnce' /\ Fresh' \subseteq Fresh /\ Touched' \subseteq Touched
  BY <1>1, <1>4, DeliveredPage
<1> QED
  BY <1>1, <1>5, PageStep

\* The journal of a session known to the helper notes its progress.
LEMMA ProgressKeeps ==
  ASSUME NEW fresh, NEW touched, NEW jr, NEW q, NEW ag, NEW s \in Sessions,
         NEW fresh2, NEW touched2, NEW jr2,
         Consistent(fresh, touched, jr, q, ag), s \notin fresh2,
         fresh2 \subseteq fresh, touched2 \subseteq touched,
         jr2 \in [Sessions -> Snapshots], \A r \in Sessions \ {s} : jr2[r] = jr[r],
         jr2[s].pending = jr[s].pending, jr2[s].canceled = jr[s].canceled
  PROVE  Consistent(fresh2, touched2, jr2, q, ag)
<1>1. /\ q \in Seq(Entries) /\ ag \in [Agents -> Leases] /\ jr \in [Sessions -> Snapshots]
      /\ Leasing(q, ag) /\ Retired(q, jr)
      /\ \A r \in Sessions : Story(r, fresh, touched, jr, q, ag)
  BY DEF Consistent
<1>2. \A r \in Sessions : jr2[r].pending = jr[r].pending /\ jr2[r].canceled = jr[r].canceled
  OBVIOUS
<1>3. Retired(q, jr2)
  <2>1. \A i \in DOMAIN q : q[i].event.id \in Sessions
    BY <1>1, EntriesOf
  <2> QED
    BY <1>1, <1>2, <2>1 DEF Retired
<1>4. ASSUME NEW r \in Sessions PROVE Story(r, fresh2, touched2, jr2, q, ag)
  <2>1. Story(r, fresh, touched, jr, q, ag) /\ jr2[r].pending = jr[r].pending /\ jr2[r].canceled = jr[r].canceled
    BY <1>1, <1>2
  <2>2. r \in fresh2 => Untouched(r, jr2, q, ag)
    BY <2>1 DEF Story, Untouched
  <2>3. Awaited(r, fresh2, jr2, q, ag) => Awaited(r, fresh, jr, q, ag)
    BY <2>1 DEF Awaited
  <2>4. Awaited(r, fresh, jr, q, ag) => Calm(r, touched2, jr2, q, ag)
    BY <2>1 DEF Story, Calm
  <2> QED
    BY <2>1, <2>2, <2>3, <2>4 DEF Story, Pends
<1> QED
  BY <1>1, <1>3, <1>4 DEF Consistent

LEMMA CheckpointStep ==
  ASSUME IInv, NEW m, Checkpoint(m)
  PROVE  IInv'
<1> PICK s : s = m.id
  OBVIOUS
<1>1. /\ PageTyped /\ CreatedOnce /\ Delivered(m) /\ Known(s)
      /\ journal' = [journal EXCEPT ![s] = Posted(@, Event(s, "checkpoint"))]
      /\ view' = view /\ current' = current /\ awaiting' = awaiting
      /\ linked' = linked /\ capturing' = capturing /\ unused' = unused /\ abandoned' = abandoned
      /\ written' = written /\ faults' = faults
      /\ queue' = queue /\ parked' = parked /\ agent' = agent
  BY DEF IInv, Checkpoint
<1>2. /\ PageTyped' /\ CreatedOnce' /\ Fresh' \subseteq Fresh /\ Touched' \subseteq Touched
      /\ m \in RequestSet
  BY <1>1, DeliveredPage DEF PageTyped, CreatedOnce
<1>3. /\ Consistent(Fresh, Touched, journal, queue, agent) /\ agent \in [Agents -> Leases]
      /\ journal \in [Sessions -> Snapshots] /\ s \in Sessions
      /\ Story(s, Fresh, Touched, journal, queue, agent)
  BY <1>2 DEF IInv, Consistent, RequestSet
<1>4. s \notin Fresh
  BY <1>1, <1>3 DEF Known, Story, Untouched
<1>5. /\ journal' \in [Sessions -> Snapshots] /\ \A r \in Sessions \ {s} : journal'[r] = journal[r]
      /\ journal'[s].pending = journal[s].pending /\ journal'[s].canceled = journal[s].canceled
  <2>1. PICK x \in Snapshots : x = journal[s]
    BY <1>3
  <2>2. PICK y : y = Posted(x, Event(s, "checkpoint"))
    OBVIOUS
  <2>3. y \in Snapshots /\ y.pending = x.pending /\ y.canceled = x.canceled
    BY <2>2, CheckpointFacts
  <2>4. journal' = [journal EXCEPT ![s] = y]
    BY <1>1, <2>1, <2>2
  <2> QED
    BY <1>3, <2>1, <2>3, <2>4
<1>6. Consistent(Fresh', Touched', journal', queue, agent)
  BY <1>2, <1>3, <1>4, <1>5, ProgressKeeps
<1>7. Line(parked', agent') /\ NoPollWaitsBesideWork'
  BY <1>1, <1>3, LineSame
<1> QED
  BY <1>1, <1>2, <1>6, <1>7 DEF IInv

LEMMA EventFacts ==
  ASSUME NEW s \in Sessions, NEW type \in Types, NEW e, e = Event(s, type)
  PROVE  e \in EventSet /\ e.id = s /\ e.type = type
<1>1. PICK no \in BOOLEAN : no = FALSE
  OBVIOUS
<1>2. [id |-> s, type |-> type, prepared |-> no] \in EventSet
  BY DEF EventSet
<1> QED
  BY <1>1, <1>2 DEF Event

\* A touched session is not awaited.
LEMMA TouchedFacts ==
  ASSUME NEW fresh, NEW touched, NEW jr, NEW q, NEW ag, NEW s \in Sessions,
         Consistent(fresh, touched, jr, q, ag), s \in touched
  PROVE  ~Awaited(s, fresh, jr, q, ag)
BY DEF Consistent, Story, Calm

\* An answer is journaled, its generation is retired.
LEMMA AnsweredKeeps ==
  ASSUME NEW fresh, NEW touched, NEW jr, NEW q, NEW ag, NEW s \in Sessions,
         NEW fresh2, NEW touched2, NEW jr2,
         Consistent(fresh, touched, jr, q, ag), s \in touched,
         fresh2 \subseteq fresh, touched2 \subseteq touched,
         jr2 \in [Sessions -> Snapshots], \A r \in Sessions \ {s} : jr2[r] = jr[r],
         jr2[s].pending # Nothing => jr2[s].pending.id = s /\ jr2[s].pending.type # "generate",
         \A i \in DOMAIN q : q[i].event.type = "generate" => q[i].event.id # s
  PROVE  Consistent(fresh2, touched2, jr2, q, ag)
<1>1. ~Awaited(s, fresh, jr, q, ag)
  BY TouchedFacts
<1>2. Event(s, "generate") # Nothing /\ Event(s, "generate").type = "generate"
  <2>1. PICK type \in Types : type = "generate"
    BY DEF Types
  <2>2. PICK e : e = Event(s, type)
    OBVIOUS
  <2>3. e \in EventSet /\ e.type = type
    BY <2>2, EventFacts
  <2> QED
    BY <2>1, <2>2, <2>3, LiveAssumption
<1>3. jr2[s].pending # Event(s, "generate")
  BY <1>2
<1>4. Pends(s, jr2)
  BY DEF Pends
<1>5. touched2 \subseteq touched \cup {s}
  OBVIOUS
<1> QED
  BY <1>1, <1>3, <1>4, <1>5, JournalKeeps

\* What posting an event to the helper makes of its journal and its queue,
\* before the polls that wait are served.
LEMMA EnqueuedFacts ==
  ASSUME NEW q \in Seq(Entries), NEW e \in EventSet, NEW t, t = Enqueued(q, e)
  PROVE  /\ \A j \in DOMAIN t : t[j].event = e \/ \E i \in DOMAIN q : t[j] = q[i]
         /\ \A i \in DOMAIN q : \E j \in DOMAIN t : t[j] = q[i]
<1>1. CASE IsQueued(q, e.id, e.type)
  BY <1>1 DEF Enqueued
<1>2. CASE ~IsQueued(q, e.id, e.type)
  <2>1. t = Append(q, Entry(e))
    BY <1>2 DEF Enqueued
  <2>2. PICK n : n = Len(q) + 1
    OBVIOUS
  <2>3. /\ DOMAIN t = DOMAIN q \cup {n}
        /\ t[n] = Entry(e) /\ \A i \in DOMAIN q : t[i] = q[i]
    <3>1. DOMAIN t = DOMAIN q \cup {n}
      BY <2>1, <2>2, AppendedEntry, Zenon
    <3>2. t[n] = Entry(e)
      BY <2>1, <2>2, AppendedEntry
    <3>3. \A i \in DOMAIN q : t[i] = q[i]
      BY <2>1, <2>2, AppendedEntry
    <3> QED
      BY <3>1, <3>2, <3>3
  <2>4. t[n].event = e
    BY <2>3 DEF Entry
  <2> QED
    BY <2>3, <2>4
<1> QED
  BY <1>1, <1>2

LEMMA PostEventStep ==
  ASSUME IInv, NEW m, PostEvent(m)
  PROVE  IInv'
<1> PICK s, e : s = m.id /\ e = Event(m.id, m.type)
  OBVIOUS
<1> PICK kept : kept = IF m.type \in Answers THEN Unretired(queue, s) ELSE queue
  OBVIOUS
<1> PICK q : q = Enqueued(kept, e)
  OBVIOUS
<1>1. /\ PageTyped /\ CreatedOnce /\ Delivered(m) /\ m.type \in Types
      /\ journal' = [journal EXCEPT ![s] = Posted(@, e)]
      /\ Flush(q, agent) /\ Confirmed(m)
      /\ linked' = linked /\ capturing' = capturing /\ unused' = unused /\ abandoned' = abandoned
      /\ written' = written /\ faults' = faults
  BY DEF IInv, PostEvent
<1>2. /\ s \in Sessions /\ e \in EventSet /\ e.id = s /\ e.type = m.type
  <2>1. m \in RequestSet
    BY <1>1, DeliveredFacts
  <2>2. s \in Sessions
    BY <2>1 DEF RequestSet
  <2> QED
    BY <1>1, <2>2, EventFacts
<1>3. /\ view' \in Views /\ current' \in Sessions \cup {NoSession}
      /\ awaiting' \in Sessions \cup {NoSession}
      /\ view' # "picking" => current' \in Sessions
      /\ view' \in {"cycling", "saving"} => view \in {"cycling", "saving"} /\ current' = current
  <2>1. \/ view' = "picking" /\ current' = NoSession /\ awaiting' \in {awaiting, s}
        \/ view' = view /\ current' = current /\ awaiting' = awaiting
    BY <1>1 DEF Confirmed, Release, Show
  <2> QED
    BY <1>1, <1>2, <2>1 DEF PageTyped, CreatedOnce, Views
<1>4. /\ PageTyped' /\ CreatedOnce' /\ Fresh' \subseteq Fresh /\ Touched' \subseteq Touched
      /\ m.type = "generate" => s \in Fresh /\ s \notin Fresh'
      /\ m.type \notin {"checkpoint", "generate"} => s \in Touched
  <2>1. abandoned' \subseteq Sessions
    BY <1>1 DEF PageTyped
  <2> QED
    BY <1>1, <1>3, <2>1, DeliveredPage
<1>5. /\ Consistent(Fresh, Touched, journal, queue, agent) /\ Line(parked, agent)
      /\ queue \in Seq(Entries) /\ journal \in [Sessions -> Snapshots]
      /\ Pends(s, journal)
  BY <1>2 DEF IInv, Consistent, Story
<1>6. PICK x \in Snapshots : x = journal[s]
  BY <1>2, <1>5
<1>7. PICK y : y = Posted(x, e)
  OBVIOUS
<1>8. y \in Snapshots
  BY <1>2, <1>7, PostedFacts
<1>9. journal' \in [Sessions -> Snapshots] /\ journal'[s] = y /\ \A r \in Sessions \ {s} : journal'[r] = journal[r]
  BY <1>1, <1>2, <1>5, <1>6, <1>7, <1>8
<1>10. ASSUME m.type = "generate" PROVE Consistent(Fresh', Touched', journal', q, agent)
  <2>1. kept = queue
    BY <1>10 DEF Answers
  <2>2. e.type = "generate" => y.phase = "open" /\ y.pending = e /\ y.canceled = x.canceled
    BY <1>2, <1>7, PostedFacts
  <2>3. journal'[s].pending = e /\ journal'[s].canceled = journal[s].canceled
    BY <1>2, <1>6, <1>9, <1>10, <2>2
  <2>4. s \in Fresh /\ Fresh' \subseteq Fresh \ {s} /\ e = Event(s, "generate")
    BY <1>4, <1>10
  <2>5. q = Enqueued(queue, e)
    BY <2>1
  <2>6. /\ Consistent(Fresh, Touched, journal, queue, agent) /\ s \in Sessions /\ e \in EventSet
        /\ Touched' \subseteq Touched
        /\ journal' \in [Sessions -> Snapshots] /\ \A r \in Sessions \ {s} : journal'[r] = journal[r]
    BY <1>2, <1>4, <1>5, <1>9
  <2> QED
    BY <2>3, <2>4, <2>5, <2>6, CreationKeeps
<1>11. ASSUME m.type \in Answers PROVE Consistent(Fresh', Touched', journal', q, agent)
  <2>1. kept = Unretired(queue, s) /\ s \in Touched /\ e.type # "generate"
    BY <1>2, <1>4, <1>11 DEF Answers
  <2>2. /\ Consistent(Fresh, Touched, journal, kept, agent)
        /\ \A j \in DOMAIN kept : kept[j].event.type = "generate" => kept[j].event.id # s
    BY <1>2, <1>5, <2>1, UnretiredKeeps
  <2>3. ~Awaited(e.id, Fresh, journal, kept, agent)
    BY <1>2, <2>1, <2>2, TouchedFacts
  <2>4. Consistent(Fresh, Touched, journal, q, agent)
    BY <1>2, <2>1, <2>2, <2>3, AppendKeeps
  <2>5. \A j \in DOMAIN q : q[j].event.type = "generate" => q[j].event.id # s
    <3>1. kept \in Seq(Entries)
      BY <2>2 DEF Consistent
    <3>2. \A j \in DOMAIN q : q[j].event = e \/ \E i \in DOMAIN kept : q[j] = kept[i]
      BY <1>2, <3>1, EnqueuedFacts
    <3> QED
      BY <2>1, <2>2, <3>2
  <2>6. journal'[s].pending = e
    BY <1>2, <1>7, <1>9, <1>11, PostedFacts
  <2>7. journal'[s].pending # Nothing => journal'[s].pending.id = s /\ journal'[s].pending.type # "generate"
    BY <1>2, <2>1, <2>6
  <2>8. /\ s \in Sessions /\ s \in Touched /\ Fresh' \subseteq Fresh /\ Touched' \subseteq Touched
        /\ journal' \in [Sessions -> Snapshots] /\ \A r \in Sessions \ {s} : journal'[r] = journal[r]
    BY <1>2, <1>4, <1>9, <2>1
  <2> QED
    BY <2>4, <2>5, <2>7, <2>8, AnsweredKeeps
<1>12. ASSUME m.type = "variant_mount_failed" PROVE Consistent(Fresh', Touched', journal', q, agent)
  <2>1. kept = queue /\ s \in Touched /\ e.type # "generate" /\ e.type = "variant_mount_failed"
    BY <1>2, <1>4, <1>12 DEF Answers
  <2>2. ~Awaited(s, Fresh, journal, queue, agent)
    BY <1>2, <1>5, <2>1, TouchedFacts
  <2>3. e.type = "variant_mount_failed" => y.pending \in {x.pending, e} /\ y.canceled = x.canceled
    BY <1>2, <1>7, PostedFacts
  <2>4. journal'[s].pending \in {journal[s].pending, e} /\ journal'[s].canceled = journal[s].canceled
    BY <1>6, <1>9, <2>1, <2>3
  <2>5. Pends(s, journal')
    BY <1>2, <1>5, <2>1, <2>4 DEF Pends
  <2>6. Event(s, "generate").type = "generate"
    BY DEF Event
  <2>7. journal'[s].pending # Event(s, "generate")
    BY <2>1, <2>2, <2>4, <2>6 DEF Awaited
  <2>8. q = Enqueued(queue, e) /\ ~Awaited(e.id, Fresh, journal, queue, agent)
    BY <1>2, <2>1, <2>2
  <2>9. Consistent(Fresh, Touched, journal, q, agent)
    BY <1>2, <1>5, <2>1, <2>8, AppendKeeps
  <2>10. ~Awaited(s, Fresh, journal, q, agent)
    BY <1>2, <2>1, <2>9, TouchedFacts
  <2>11. Touched' \subseteq Touched \cup {s} /\ (journal'[s].canceled => journal[s].canceled)
    BY <1>4, <2>4
  <2>12. /\ s \in Sessions /\ Fresh' \subseteq Fresh
         /\ journal' \in [Sessions -> Snapshots] /\ \A r \in Sessions \ {s} : journal'[r] = journal[r]
    BY <1>2, <1>4, <1>9
  <2> QED
    BY <2>5, <2>7, <2>9, <2>10, <2>11, <2>12, JournalKeeps
<1>13. Consistent(Fresh', Touched', journal', q, agent)
  <2>1. m.type \in Answers \/ m.type \in {"generate", "variant_mount_failed"}
    BY <1>1 DEF Types, Answers
  <2> QED
    BY <1>10, <1>11, <1>12, <2>1
<1>14. Consistent(Fresh', Touched', journal', queue', agent') /\ Line(parked', agent') /\ NoPollWaitsBesideWork'
  BY <1>1, <1>5, <1>13, FlushKeeps
<1> QED
  BY <1>4, <1>14 DEF IInv

LEMMA OrphanedDiscardStep ==
  ASSUME IInv, NEW m, OrphanedDiscard(m)
  PROVE  IInv'
<1> PICK s, e : s = m.id /\ e = Event(m.id, "discard")
  OBVIOUS
<1>1. /\ PageTyped /\ CreatedOnce /\ Delivered(m) /\ m.type = "orphaned"
      /\ journal' = [journal EXCEPT ![s] = Replied(Posted(@, e), "discarded", Nothing)]
      /\ queue' = Unretired(queue, s)
      /\ view' = view /\ current' = current /\ awaiting' = awaiting
      /\ linked' = linked /\ capturing' = capturing /\ unused' = unused /\ abandoned' = abandoned
      /\ written' = written /\ faults' = faults /\ parked' = parked /\ agent' = agent
  BY DEF IInv, OrphanedDiscard
<1>2. /\ PageTyped' /\ CreatedOnce' /\ Fresh' \subseteq Fresh /\ Touched' \subseteq Touched
      /\ s \in Touched /\ s \in Sessions
  <2>1. /\ PageTyped' /\ CreatedOnce' /\ Fresh' \subseteq Fresh /\ Touched' \subseteq Touched
        /\ m.type \notin {"checkpoint", "generate"} => s \in Touched
    BY <1>1, DeliveredPage DEF PageTyped, CreatedOnce
  <2> QED
    BY <1>1, <2>1 DEF Touched
<1>3. e \in EventSet /\ e.id = s /\ e.type = "discard"
  <2>1. "discard" \in Types
    BY DEF Types
  <2> QED
    BY <1>2, <2>1, EventFacts
<1>4. /\ Consistent(Fresh, Touched, journal, queue, agent)
      /\ journal \in [Sessions -> Snapshots] /\ agent \in [Agents -> Leases]
  BY DEF IInv, Consistent
<1>5. /\ Consistent(Fresh, Touched, journal, queue', agent)
      /\ \A j \in DOMAIN queue' : /\ \E i \in DOMAIN queue : queue'[j] = queue[i]
                                  /\ queue'[j].event.type = "generate" => queue'[j].event.id # s
  BY <1>1, <1>2, <1>4, UnretiredKeeps
<1>6. /\ journal' \in [Sessions -> Snapshots] /\ \A r \in Sessions \ {s} : journal'[r] = journal[r]
      /\ journal'[s].pending \in {e, Nothing}
  <2>1. PICK x \in Snapshots : x = journal[s]
    BY <1>2, <1>4
  <2>2. PICK y : y = Posted(x, e)
    OBVIOUS
  <2>3. y \in Snapshots /\ y.pending = e
    BY <1>3, <2>2, PostedFacts DEF Answers
  <2>4. PICK reply \in Replies : reply = "discarded"
    BY DEF Replies
  <2>5. PICK z : z = Replied(y, reply, Nothing)
    OBVIOUS
  <2>6. z \in Snapshots /\ z.pending \in {y.pending, Nothing}
    BY <2>3, <2>5, RepliedFacts
  <2>7. journal' = [journal EXCEPT ![s] = z]
    BY <1>1, <2>1, <2>2, <2>4, <2>5
  <2> QED
    BY <1>2, <1>4, <2>3, <2>6, <2>7
<1>7. journal'[s].pending # Nothing => journal'[s].pending.id = s /\ journal'[s].pending.type # "generate"
  BY <1>3, <1>6
<1>8. Consistent(Fresh', Touched', journal', queue', agent)
  BY <1>2, <1>5, <1>6, <1>7, AnsweredKeeps
<1>9. Line(parked', agent') /\ NoPollWaitsBesideWork'
  BY <1>1, <1>4, <1>5, LineSame
<1> QED
  BY <1>1, <1>2, <1>8, <1>9 DEF IInv

-----------------------------------------------------------------------------
(* Every step keeps the invariant, and the invariant implies the others. *)

LEMMA Inductive == IInv /\ [Next]_vars => IInv'
<1> SUFFICES ASSUME IInv, [Next]_vars PROVE IInv'
  OBVIOUS
<1>1. CASE UNCHANGED vars
  <2>1. /\ view' = view /\ current' = current /\ awaiting' = awaiting /\ gate' = gate
        /\ capturing' = capturing /\ linked' = linked /\ abandoned' = abandoned /\ unused' = unused
        /\ requests' = requests /\ written' = written /\ faults' = faults
        /\ journal' = journal /\ queue' = queue /\ parked' = parked /\ agent' = agent
    BY <1>1 DEF vars, page, helper
  <2>2. Fresh' = Fresh /\ Touched' = Touched
    BY <2>1 DEF Fresh, Touched
  <2>3. PageTyped' /\ CreatedOnce'
    BY <2>1 DEF IInv, PageTyped, CreatedOnce
  <2> QED
    BY <2>1, <2>2, <2>3 DEF IInv, NoPollWaitsBesideWork
<1>2. CASE User
  <2>1. CASE \E s \in Sessions : Go(s, TRUE) \/ Go(s, FALSE)
    BY <2>1, GoStep
  <2>2. CASE \E type \in Answers : Answer(type)
    BY <2>2, AnswerStep
  <2> QED
    BY <1>2, <2>1, <2>2, MountFailsStep, ReloadStep DEF User
<1>3. CASE \E m \in requests : Server(m)
  BY <1>3, RefusedStep, CheckpointStep, PostEventStep, OrphanedDiscardStep DEF Server
<1>4. CASE \E a \in Agents : Progress(a) \/ PollTimesOut(a) \/ Bounce(a) \/ Crash(a)
  BY <1>4, PollStep, ScaffoldedStep, WriteVariantsStep, ReplyStep, PollTimesOutStep,
     BounceStep, CrashStep DEF Progress
<1>5. CASE VariantsArrive
  BY <1>5, VariantsArriveStep
<1>6. CASE \E s \in Sessions : Captured(s)
  BY <1>6, CapturedStep
<1>7. CASE \E i \in DOMAIN queue : LeaseExpires(i)
  BY <1>7, LeaseExpiresStep
<1>8. CASE Restart
  BY <1>8, RestartStep
<1> QED
  BY <1>1, <1>2, <1>3, <1>4, <1>5, <1>6, <1>7, <1>8 DEF Next

\* The inductive invariant: events are queued once and their leases agree with
\* what the agents hold (leaseEvent, acknowledgePendingEvent), the journal has
\* pending what the queue may get back (restorePendingEventsFromStore), and a
\* session goes from its one creation on without a second one (handleGo).
THEOREM Invariant == Spec => []IInv
<1> QED
  BY Initially, Inductive, PTL DEF Spec

\* The variables of the page, the helper and the agents hold values of
\* their kinds (the declarations of live-browser.js and live-server.mjs).
THEOREM Typed == Spec => []TypeOK
<1> QED
  BY Invariant, IInvTyped, PTL

\* A lease that runs, and the scaffold before it is handed out, are with one
\* agent: leaseEvent claims the entry before it awaits the preflight, and a
\* reply or the lease timer that frees it ends the lease of whoever had it.
THEOREM LeasedToOne == Spec => []OneWorker
<1>1. IInv => OneWorker
  BY DEF IInv, Consistent, Leasing, Exclusive, Busy, OneWorker
<1> QED
  BY <1>1, Invariant, PTL

\* No poll waits beside an event that it could have: whatever queues or frees
\* an event serves the waiting polls (flushPendingPolls, the lease timer).
THEOREM WorkIsServed == Spec => []NoPollWaitsBesideWork
<1>1. IInv => NoPollWaitsBesideWork
  BY DEF IInv
<1> QED
  BY <1>1, Invariant, PTL

\* A generation that the user has answered is not handed out any more:
\* retirePendingGeneration takes it out of the queue before the answer is
\* queued, and neither a late request nor a restart brings it back.
THEOREM AnsweredRetires == Spec => []AnsweredIsRetired
<1>1. IInv => AnsweredIsRetired
  BY DEF IInv, Consistent, Retired, AnsweredIsRetired
<1> QED
  BY <1>1, Invariant, PTL

-----------------------------------------------------------------------------
(* The fate of an answer that waits. *)

Waiting(i) == queue[i].event.type \in Answers /\ ~queue[i].leased
StaysQueued(i) == IsQueued(queue', queue[i].event.id, queue[i].event.type)

\* Handing out takes nothing out of the queue.
LEMMA ServedQueue ==
  ASSUME NEW q \in Seq(Entries), NEW polls, NEW agents, NEW others, Serve(q, polls, agents, others)
  PROVE  DOMAIN queue' = DOMAIN q /\ \A i \in DOMAIN q : queue'[i].event = q[i].event
<1> PICK taken : taken = {i \in Available(q) : Rank(q, i) <= Len(polls)}
  OBVIOUS
<1>1. queue' = [i \in DOMAIN q |-> IF i \in taken THEN [q[i] EXCEPT !.leased = TRUE] ELSE q[i]]
  BY DEF Serve
<1>2. ASSUME NEW i \in DOMAIN q PROVE queue'[i].event = q[i].event
  <2>1. PICK e \in Entries : e = q[i]
    BY EntriesOf
  <2>2. queue'[i] = e \/ queue'[i] = [e EXCEPT !.leased = TRUE]
    BY <1>1, <2>1
  <2>3. PICK v \in EventSet, l \in BOOLEAN : e = [event |-> v, leased |-> l]
    BY DEF Entries
  <2>4. [e EXCEPT !.leased = TRUE].event = v
    BY <2>3
  <2> QED
    BY <2>1, <2>2, <2>3, <2>4
<1> QED
  BY <1>1, <1>2

\* It gives nothing to an agent that does not wait.
LEMMA FlushedAgents ==
  ASSUME NEW q \in Seq(Entries), parked \in Seq(Agents), Once(parked),
         NEW agents \in [Agents -> Leases], Flush(q, agents), NEW a \in Agents, ~Holds(parked, a)
  PROVE  agent'[a] = agents[a]
<1>1. Serve(q, parked, agents, << >>)
  BY DEF Flush
<1>2. /\ HandedOut(q, queue', agents, agent')
      /\ parked' \in Seq(Agents) /\ Once(parked')
      /\ \A i \in DOMAIN parked' : agent'[parked'[i]] = agents[parked'[i]] /\ Holds(parked, parked'[i])
      /\ parked' # << >> => \A i \in DOMAIN queue' : queue'[i].leased
      /\ \A b \in Agents : ~Holds(parked, b) => agent'[b] = agents[b]
  BY <1>1, ServeFacts
<1> QED
  BY <1>2

\* What an agent that has no answer acknowledges is no answer that waits: it
\* is of its own kind, or was leased before.
LEMMA AcknowledgedByOther ==
  ASSUME queue \in Seq(Entries), KeysOnce(queue),
         NEW a \in Agents, NEW reply \in {"done", "error"}, agent[a].type \notin Answers,
         NEW id, id = agent[a].id, NEW source, source = Source(a, reply),
         NEW i \in DOMAIN queue, Waiting(i)
  PROVE  Key(queue[i]) # <<id, Acknowledged(id, source)>>
<1> SUFFICES ASSUME Key(queue[i]) = <<id, Acknowledged(id, source)>> PROVE FALSE
  OBVIOUS
<1>1. /\ queue[i].event.id = id /\ queue[i].event.type = Acknowledged(id, source)
      /\ queue[i].event.type \in Types /\ Key(queue[i]) = <<id, queue[i].event.type>>
  BY EntriesOf DEF Key
<1>2. source = Inferred(id, reply)
  BY DEF Source
<1>3. CASE source \in {"generate", "variant_mount_failed"}
  <2>1. source \in Types
    BY <1>3 DEF Types
  <2>2. Acknowledged(id, source) \in {source, Nothing}
    BY <2>1, RemainingFacts, LiveAssumption
  <2> QED
    BY <1>1, <1>3, <2>2, LiveAssumption DEF Waiting, Answers
<1>4. CASE source \notin {"generate", "variant_mount_failed"}
  <2>1. /\ \E k \in DOMAIN queue : queue[k].event.id = id /\ queue[k].leased
        /\ source = queue[FirstLeased(id)].event.type
    BY <1>2, <1>4 DEF Inferred
  <2>2. FirstLeased(id) \in DOMAIN queue /\ queue[FirstLeased(id)].event.id = id /\ queue[FirstLeased(id)].leased
    <3>1. PICK leased : leased = {k \in DOMAIN queue : queue[k].event.id = id /\ queue[k].leased}
      OBVIOUS
    <3>2. DOMAIN queue = 1..Len(queue) /\ Len(queue) \in Nat
      BY LenProperties
    <3>3. PICK k \in leased : \A j \in leased : k <= j
      BY <2>1, <3>1, <3>2, LeastOf
    <3>4. \A j \in 1..(k - 1) : ~(queue[j].event.id = id /\ queue[j].leased)
      BY <3>1, <3>2, <3>3
    <3> QED
      BY <3>1, <3>3, <3>4 DEF FirstLeased
  <2>3. PICK k \in DOMAIN queue : queue[k].event.id = id /\ queue[k].leased /\ source = queue[k].event.type
    BY <2>1, <2>2
  <2>4. source \in Types /\ Key(queue[k]) = <<id, source>>
    BY <2>3, EntriesOf
  <2>5. Acknowledged(id, source) \in {source, Nothing}
    BY <2>4, RemainingFacts, LiveAssumption
  <2>6. Key(queue[i]) = Key(queue[k])
    BY <1>1, <2>4, <2>5, LiveAssumption
  <2> QED
    BY <2>3, <2>6 DEF KeysOnce, Waiting
<1> QED
  BY <1>3, <1>4

LEMMA ReplyRetains ==
  ASSUME IInv, NEW a \in Agents, NEW reply \in Replies, Reply(a, reply),
         NEW i \in DOMAIN queue, Waiting(i), ~StaysQueued(i)
  PROVE  agent[a].id = queue[i].event.id /\ agent[a].type \in Answers /\ agent'[a] # agent[a]
<1>0. PICK s, source, ack : /\ s = agent[a].id /\ source = Source(a, reply)
                            /\ ack = Acknowledged(s, source)
  OBVIOUS
<1> PICK rem : rem = Remaining(s, source)
  OBVIOUS
<1> PICK y : y = IF reply = "carbonize" THEN [agent[a] EXCEPT !.at = "finishing", !.valid = FALSE] ELSE Idle
  OBVIOUS
<1> PICK revoked : revoked = Revoked(s, ack)
  OBVIOUS
<1> PICK kept : kept = [revoked EXCEPT ![a] = y]
  OBVIOUS
<1>1. MayReply(a, reply) /\ Flush(rem, kept)
  BY <1>0 DEF Reply
<1>2. /\ agent \in [Agents -> Leases] /\ queue \in Seq(Entries) /\ KeysOnce(queue) /\ Assigned(agent)
      /\ parked \in Seq(Agents) /\ Once(parked) /\ \A j \in DOMAIN parked : agent[parked[j]].at = "parked"
  BY DEF IInv, Consistent, Leasing, Line
<1>3. /\ rem \in Seq(Entries)
      /\ \A k \in DOMAIN queue : Key(queue[k]) # <<s, ack>> => \E j \in DOMAIN rem : rem[j] = queue[k]
  BY <1>0, <1>2, RemainingFacts, LiveAssumption
<1>4. Key(queue[i]) = <<s, ack>>
  <2> SUFFICES ASSUME Key(queue[i]) # <<s, ack>> PROVE FALSE
    OBVIOUS
  <2>1. PICK j \in DOMAIN rem : rem[j] = queue[i]
    BY <1>3
  <2>2. DOMAIN queue' = DOMAIN rem /\ \A k \in DOMAIN rem : queue'[k].event = rem[k].event
    BY <1>1, <1>3, ServedQueue DEF Flush
  <2> QED
    BY <2>1, <2>2 DEF StaysQueued, IsQueued
<1>5. s = queue[i].event.id
  BY <1>2, <1>4, EntriesOf
<1>6. agent[a].type \in Answers
  <2> SUFFICES ASSUME agent[a].type \notin Answers PROVE FALSE
    OBVIOUS
  <2>1. agent[a].at = "working" /\ reply \in {"done", "error"}
    BY <1>1, <1>2 DEF MayReply, Assigned, Answers
  <2> QED
    BY <1>0, <1>2, <1>4, <2>1, AcknowledgedByOther
<1>7. /\ agent[a].at \in {"working", "finishing"}
      /\ reply = "carbonize" => agent[a].at = "working"
  BY <1>1 DEF MayReply
<1>8. y \in Leases /\ y.at \in {"idle", "finishing"} /\ y.at # agent[a].at
  <2>1. CASE reply = "carbonize"
    <3>1. y \in Leases /\ y.at = "finishing"
      BY <1>2, <2>1, FinishingLease
    <3> QED
      BY <1>7, <2>1, <3>1
  <2>2. CASE reply # "carbonize"
    BY <1>7, <2>2 DEF Idle, Leases
  <2> QED
    BY <2>1, <2>2
<1>9. revoked \in [Agents -> Leases]
  BY <1>2, RevokedFacts
<1>10. kept \in [Agents -> Leases] /\ kept[a] = y
  BY <1>8, <1>9
<1>11. ~Holds(parked, a)
  BY <1>2, <1>7 DEF Holds
<1>12. /\ rem \in Seq(Entries) /\ parked \in Seq(Agents) /\ Once(parked)
       /\ kept \in [Agents -> Leases] /\ Flush(rem, kept)
  BY <1>1, <1>2, <1>3, <1>10
<1>13. agent'[a] = kept[a]
  BY <1>11, <1>12, FlushedAgents
<1>14. agent'[a] = y
  BY <1>10, <1>13
<1> QED
  BY <1>0, <1>5, <1>6, <1>8, <1>14

LEMMA OthersRetain ==
  ASSUME IInv, [Next]_vars, ~Restart, ~ \E a \in Agents, reply \in Replies : Reply(a, reply),
         NEW i \in DOMAIN queue, Waiting(i)
  PROVE  StaysQueued(i)
<1>1. queue \in Seq(Entries) /\ KeysOnce(queue) /\ Consistent(Fresh, Touched, journal, queue, agent)
      /\ PageTyped /\ CreatedOnce
  BY DEF IInv, Consistent, Leasing
<1>2. CASE queue' = queue
  BY <1>2 DEF StaysQueued, IsQueued
<1>3. CASE \E m \in requests : PostEvent(m)
  <2>1. PICK m \in requests : PostEvent(m)
    BY <1>3
  <2> PICK s, e : s = m.id /\ e = Event(m.id, m.type)
    OBVIOUS
  <2> PICK kept : kept = IF m.type \in Answers THEN Unretired(queue, s) ELSE queue
    OBVIOUS
  <2> PICK q : q = Enqueued(kept, e)
    OBVIOUS
  <2>2. Flush(q, agent) /\ Delivered(m) /\ m.type \in Types
    BY <2>1 DEF PostEvent
  <2>3. s \in Sessions /\ e \in EventSet
    <3>1. m \in RequestSet
      BY <1>1, <2>2, DeliveredFacts
    <3>2. s \in Sessions
      BY <3>1 DEF RequestSet
    <3> QED
      BY <2>2, <3>2, EventFacts
  <2>4. kept \in Seq(Entries) /\ \E j \in DOMAIN kept : kept[j] = queue[i]
    <3>1. CASE m.type \in Answers
      <4>1. kept = Unretired(queue, s)
        BY <3>1
      <4>2. /\ Consistent(Fresh, Touched, journal, kept, agent)
            /\ \A k \in DOMAIN queue : queue[k].event.type # "generate" => \E j \in DOMAIN kept : kept[j] = queue[k]
        BY <1>1, <2>3, <4>1, UnretiredKeeps
      <4> QED
        BY <4>2 DEF Consistent, Waiting, Answers
    <3>2. CASE m.type \notin Answers
      BY <1>1, <3>2
    <3> QED
      BY <3>1, <3>2
  <2>5. PICK j \in DOMAIN q : q[j] = queue[i]
    BY <2>3, <2>4, EnqueuedFacts
  <2>6. q \in Seq(Entries)
    <3>1. CASE IsQueued(kept, e.id, e.type)
      BY <2>4, <3>1 DEF Enqueued
    <3>2. CASE ~IsQueued(kept, e.id, e.type)
      <4>1. q = Append(kept, Entry(e))
        BY <3>2 DEF Enqueued
      <4> QED
        BY <2>3, <2>4, <4>1, AppendedEntry
    <3> QED
      BY <3>1, <3>2
  <2>7. DOMAIN queue' = DOMAIN q /\ \A k \in DOMAIN q : queue'[k].event = q[k].event
    BY <2>2, <2>6, ServedQueue DEF Flush
  <2> QED
    BY <2>5, <2>7 DEF StaysQueued, IsQueued
<1>4. CASE \E m \in requests : OrphanedDiscard(m)
  <2>1. PICK m \in requests : OrphanedDiscard(m)
    BY <1>4
  <2>2. queue' = Unretired(queue, m.id) /\ Delivered(m)
    BY <2>1 DEF OrphanedDiscard
  <2>3. m \in RequestSet
    BY <1>1, <2>2, DeliveredFacts
  <2>4. m.id \in Sessions
    BY <2>3 DEF RequestSet
  <2>5. /\ Consistent(Fresh, Touched, journal, queue', agent)
        /\ \A k \in DOMAIN queue : queue[k].event.type # "generate" => \E j \in DOMAIN queue' : queue'[j] = queue[k]
    <3>1. PICK s \in Sessions : s = m.id
      BY <2>4
    <3>2. queue' = Unretired(queue, s) /\ Consistent(Fresh, Touched, journal, queue, agent)
      BY <1>1, <2>2, <3>1
    <3> QED
      BY <3>2, UnretiredKeeps
  <2> QED
    BY <2>5 DEF StaysQueued, IsQueued, Waiting, Answers
<1>5. CASE \E a \in Agents : Poll(a)
  <2>1. PICK a \in Agents : Poll(a)
    BY <1>5
  <2>2. queue' = queue \/ Serve(queue, <<a>>, agent, parked)
    BY <2>1 DEF Poll
  <2>3. CASE Serve(queue, <<a>>, agent, parked)
    BY <1>1, <2>3, ServedQueue DEF StaysQueued, IsQueued
  <2> QED
    BY <1>2, <2>2, <2>3
<1>6. CASE \E a \in Agents : Scaffolded(a)
  <2>1. PICK a \in Agents : Scaffolded(a)
    BY <1>6
  <2>2. PICK e : /\ e = [Event(agent[a].id, "generate") EXCEPT !.prepared = TRUE]
                 /\ queue' = [k \in DOMAIN queue |->
                                IF Key(queue[k]) = Key(Entry(e)) THEN [queue[k] EXCEPT !.event = e]
                                ELSE queue[k]]
                 /\ agent[a].at = "scaffolding"
    BY <2>1 DEF Scaffolded
  <2>3. agent[a].id \in Sessions
    BY <1>1, <2>2 DEF Consistent, Leasing, Assigned, Holding
  <2>4. Key(Entry(e)) = <<agent[a].id, "generate">>
    BY <2>2, <2>3, PreparedEvent
  <2>5. Key(queue[i]) # Key(Entry(e))
    BY <1>1, <2>4, EntriesOf DEF Waiting, Answers
  <2> QED
    BY <2>2, <2>5 DEF StaysQueued, IsQueued
<1>7. CASE \E k \in DOMAIN queue : LeaseExpires(k)
  <2>1. PICK k \in DOMAIN queue : LeaseExpires(k)
    BY <1>7
  <2>2. PICK q : q = [queue EXCEPT ![k].leased = FALSE]
    OBVIOUS
  <2>3. PICK e \in Entries : e = queue[k]
    BY <1>1, EntriesOf
  <2>4. PICK f : f = [e EXCEPT !.leased = FALSE]
    OBVIOUS
  <2>5. f \in Entries /\ f.event = e.event
    BY <2>4, UnleasedEntry
  <2>6. q = [queue EXCEPT ![k] = f]
    BY <2>2, <2>3, <2>4
  <2>7. /\ q \in Seq(Entries) /\ DOMAIN q = DOMAIN queue /\ q[k] = f
        /\ \A j \in DOMAIN queue : j # k => q[j] = queue[j]
    BY <1>1, <2>5, <2>6, Written
  <2>8. DOMAIN queue' = DOMAIN q /\ \A j \in DOMAIN q : queue'[j].event = q[j].event
    BY <2>1, <2>2, <2>7, ServedQueue DEF LeaseExpires, Flush
  <2> QED
    BY <2>3, <2>5, <2>7, <2>8 DEF StaysQueued, IsQueued
<1>8. CASE \E a \in Agents : Bounce(a)
  <2>1. PICK a \in Agents : Bounce(a)
    BY <1>8
  <2>2. PICK reply \in {"done", "error"} : reply = "done"
    OBVIOUS
  <2>3. PICK id, source : id = agent[a].id /\ source = Source(a, reply)
    OBVIOUS
  <2>4. queue' = Remaining(id, source) /\ agent[a].type \notin Answers
    BY <2>1, <2>2, <2>3 DEF Bounce
  <2>5. Key(queue[i]) # <<id, Acknowledged(id, source)>>
    BY <1>1, <2>3, <2>4, AcknowledgedByOther
  <2>6. \A k \in DOMAIN queue :
          Key(queue[k]) # <<id, Acknowledged(id, source)>> => \E j \in DOMAIN queue' : queue'[j] = queue[k]
    BY <1>1, <2>4, RemainingFacts, LiveAssumption
  <2> QED
    BY <2>5, <2>6 DEF StaysQueued, IsQueued
<1>9. CASE UNCHANGED vars
  BY <1>2, <1>9 DEF vars, helper
<1>10. CASE User \/ VariantsArrive \/ \E s \in Sessions : Captured(s)
  <2>1. queue' = queue
    BY <1>10 DEF User, Go, Answer, MountFails, Reload, VariantsArrive, Captured, helper
  <2> QED
    BY <1>2, <2>1
<1>11. CASE \E m \in requests : Refused(m) \/ Checkpoint(m)
  <2>1. queue' = queue
    BY <1>11 DEF Refused, Checkpoint, helper
  <2> QED
    BY <1>2, <2>1
<1>12. CASE \E a \in Agents : WriteVariants(a) \/ PollTimesOut(a) \/ Crash(a)
  <2>1. queue' = queue
    BY <1>12 DEF WriteVariants, PollTimesOut, Crash, helper
  <2> QED
    BY <1>2, <2>1
<1> QED
  BY <1>3, <1>4, <1>5, <1>6, <1>7, <1>8, <1>9, <1>10, <1>11, <1>12 DEF Next, Server, Progress

\* An accept or a discard that waits for an agent leaves the queue only with
\* the reply of an agent that carries out an answer: inferSourceEventType never
\* lets the outcome of a generation, however late, consume it.
THEOREM AnswersWait == Spec => AnswerNotSwallowed
<1> DEFINE Swallowing ==
      ~Restart =>
        \A i \in DOMAIN queue :
          LET e == queue[i].event IN
          (e.type \in Answers /\ ~queue[i].leased /\ ~IsQueued(queue', e.id, e.type)) =>
            \E a \in Agents : agent[a].id = e.id /\ agent[a].type \in Answers /\ agent'[a] # agent[a]
<1>1. IInv /\ [Next]_vars => Swallowing
  <2> SUFFICES ASSUME IInv, [Next]_vars, ~Restart, NEW i \in DOMAIN queue, Waiting(i), ~StaysQueued(i)
               PROVE  \E a \in Agents : /\ agent[a].id = queue[i].event.id /\ agent[a].type \in Answers
                                        /\ agent'[a] # agent[a]
    BY DEF Waiting, StaysQueued
  <2>1. PICK a \in Agents, reply \in Replies : Reply(a, reply)
    BY OthersRetain
  <2> QED
    BY <2>1, ReplyRetains
<1>2. IInv /\ [Next]_vars => [Swallowing]_vars
  BY <1>1
<1> QED
  BY <1>2, Invariant, PTL DEF Spec, AnswerNotSwallowed
=============================================================================
