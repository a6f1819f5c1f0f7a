------------------------- MODULE SourceRecordsProofs -------------------------
(***************************************************************************)
(* Proofs about SourceRecords for every set of URLs, any number of agents  *)
(* and any bound: what the records of a finished report say about its      *)
(* sources and its citations.                                              *)
(*                                                                         *)
(* The invariant is that the records, once made, are those of the sources  *)
(* (the agents have ended, so these no longer change), and that an agent's *)
(* citations are among its sources.                                        *)
(***************************************************************************)
EXTENDS SourceRecords, FiniteSetTheorems, SequenceTheorems, WellFoundedInduction, TLAPS

(* Subsequences *)

\* The ranks of the positions I are 1, 2, ... in their order.
LEMMA Ranks ==
  ASSUME NEW N \in Nat, NEW I \in SUBSET (1..N), NEW rank,
         rank = [i \in I |-> Cardinality({k \in I : k <= i})]
  PROVE  /\ Cardinality(I) \in Nat
         /\ \A i \in I : rank[i] \in 1..Cardinality(I)
         /\ \A i, j \in I : i < j => rank[i] < rank[j]
         /\ \A n \in 1..Cardinality(I) : \E i \in I : rank[i] = n
  <1> DEFINE c == Cardinality(I)
             upto(i) == {k \in I : k <= i}
  <1>1. IsFiniteSet(I) /\ c \in Nat
    <2>1. IsFiniteSet(1..N)
      BY FS_Interval
    <2> QED BY <2>1, FS_Subset, FS_CardinalityType
  <1>2. ASSUME NEW i \in I
        PROVE  IsFiniteSet(upto(i)) /\ Cardinality(upto(i)) \in 1..c
    <2>1. IsFiniteSet(upto(i)) /\ Cardinality(upto(i)) <= c
      BY <1>1, FS_Subset
    <2>2. upto(i) # {}
      <3>1. i \in upto(i)
        OBVIOUS
      <3> QED BY <3>1
    <2>3. Cardinality(upto(i)) \in Nat /\ Cardinality(upto(i)) # 0
      BY <2>1, <2>2, FS_CardinalityType, FS_EmptySet
    <2> QED BY <1>1, <2>1, <2>3
  <1>3. ASSUME NEW i \in I, NEW j \in I, i < j
        PROVE  Cardinality(upto(i)) < Cardinality(upto(j))
    <2>1. upto(i) \in SUBSET upto(j)
      <3>1. \A k \in I : k <= i => k <= j
        BY <1>3
      <3> QED BY <3>1
    <2>2. upto(i) # upto(j)
      <3>1. j \in upto(j) /\ j \notin upto(i)
        BY <1>3
      <3> QED BY <3>1
    <2> HIDE DEF upto
    <2>3. /\ Cardinality(upto(i)) <= Cardinality(upto(j))
          /\ Cardinality(upto(j)) # Cardinality(upto(i))
      BY <1>2, <2>1, <2>2, FS_Subset
    <2>4. Cardinality(upto(i)) \in Nat /\ Cardinality(upto(j)) \in Nat
      BY <1>2
    <2> QED BY <2>3, <2>4
  <1>4. \A i \in I : rank[i] = Cardinality(upto(i))
    OBVIOUS
  <1> HIDE DEF upto, c
  <1>5. (\A i \in I : rank[i] \in 1..c) /\ (\A i, j \in I : i < j => rank[i] < rank[j])
    BY <1>2, <1>3, <1>4
  <1>6. rank \in Injection(I, 1..c)
    <2>1. rank \in [I -> 1..c]
      BY <1>5
    <2>2. \A i, j \in I : rank[i] = rank[j] => i = j
      BY <1>1, <1>5
    <2> QED BY <2>1, <2>2 DEF Injection, IsInjective
  <1>7. IsFiniteSet(1..c) /\ Cardinality(1..c) = c
    BY <1>1, FS_Interval
  <1>8. rank \in Surjection(I, 1..c)
    BY <1>6, <1>7, FS_Injection DEF c
  <1>9. \A n \in 1..c : \E i \in I : rank[i] = n
    BY <1>8 DEF Surjection
  <1> QED BY <1>1, <1>5, <1>9 DEF c

\* t is what s has at the positions I, in their order.
Selects(t, s, I) ==
    /\ Range(t) = {s[i] : i \in I}
    /\ \A m, n \in DOMAIN t : m < n => \E i, j \in I : i < j /\ t[m] = s[i] /\ t[n] = s[j]

LEMMA Sifted ==
  ASSUME NEW s, NEW N \in Nat, NEW I \in SUBSET (1..N)
  PROVE  Selects(Sift(s, I), s, I)
  <1> DEFINE c == Cardinality(I)
             rank(i) == Cardinality({k \in I : k <= i})
             ranks == [i \in I |-> rank(i)]
             pick(n) == CHOOSE i \in I : rank(i) = n
  <1>1. /\ c \in Nat
        /\ \A i \in I : ranks[i] \in 1..c
        /\ \A i, j \in I : i < j => ranks[i] < ranks[j]
        /\ \A n \in 1..c : \E i \in I : ranks[i] = n
    BY Ranks
  <1>2. /\ \A i \in I : i \in Int /\ ranks[i] = rank(i) /\ rank(i) \in 1..c
        /\ \A i, j \in I : i < j => rank(i) < rank(j)
        /\ \A i, j \in I : i = j \/ i < j \/ j < i
    BY <1>1
  <1> HIDE DEF ranks, rank, c
  <1>3. \A n \in 1..c : pick(n) \in I /\ rank(pick(n)) = n
    BY <1>1, <1>2
  <1> HIDE DEF pick
  <1>4. \A i \in I : rank(i) \in 1..c /\ pick(rank(i)) = i
    <2> TAKE i \in I
    <2>1. rank(i) \in 1..c
      BY <1>1, <1>2
    <2>2. pick(rank(i)) \in I /\ rank(pick(rank(i))) = rank(i)
      BY <1>3, <2>1
    <2>3. ~(rank(pick(rank(i))) < rank(i)) /\ ~(rank(i) < rank(pick(rank(i))))
      BY <1>1, <2>1, <2>2
    <2> QED BY <1>2, <2>1, <2>2, <2>3
  <1>5. \A m, n \in 1..c : m < n => pick(m) < pick(n)
    <2> SUFFICES ASSUME NEW m \in 1..c, NEW n \in 1..c, m < n
                 PROVE  pick(m) < pick(n)
      OBVIOUS
    <2>1. pick(m) \in I /\ pick(n) \in I /\ rank(pick(m)) = m /\ rank(pick(n)) = n
      BY <1>3
    <2>2. ~(rank(pick(n)) < rank(pick(m))) /\ rank(pick(m)) # rank(pick(n))
      BY <1>1, <2>1
    <2> QED BY <1>2, <2>1, <2>2
  <1>6. Sift(s, I) = [n \in 1..c |-> s[pick(n)]]
    BY DEF Sift, c, pick, rank
  <1>7. Range(Sift(s, I)) = {s[pick(n)] : n \in 1..c}
    BY <1>6 DEF Range
  <1>8. {s[pick(n)] : n \in 1..c} = {s[i] : i \in I}
    BY <1>3, <1>4
  <1>9. ASSUME NEW m \in DOMAIN Sift(s, I), NEW n \in DOMAIN Sift(s, I), m < n
        PROVE  \E i, j \in I : i < j /\ Sift(s, I)[m] = s[i] /\ Sift(s, I)[n] = s[j]
    <2>1. m \in 1..c /\ n \in 1..c
      BY <1>6
    <2>2. pick(m) \in I /\ pick(n) \in I /\ pick(m) < pick(n)
      BY <1>3, <1>5, <1>9, <2>1
    <2>3. Sift(s, I)[m] = s[pick(m)] /\ Sift(s, I)[n] = s[pick(n)]
      BY <1>6, <2>1
    <2> QED BY <2>2, <2>3
  <1> QED BY <1>7, <1>8, <1>9 DEF Selects

-----------------------------------------------------------------------------
(* Records *)

SourcesTyped == sources \in [Agents -> Seq(Urls)]

LEMMA AgentPositions ==
  /\ Len(AgentName) \in Nat /\ DOMAIN AgentName = 1..Len(AgentName)
  /\ \A i \in DOMAIN AgentName : AgentName[i] \in Agents
  /\ \A a \in Agents : \E i \in DOMAIN AgentName : AgentName[i] = a
  <1>1. Len(AgentName) \in Nat /\ DOMAIN AgentName = 1..Len(AgentName)
    BY AgentsAssumption, LenProperties
  <1> QED BY <1>1 DEF Agents, Range

LEMMA EntriesTyped ==
  ASSUME SourcesTyped
  PROVE  /\ entries \in SUBSET (Nat \X Nat)
         /\ \A e : e \in entries <=>
                \E i \in DOMAIN AgentName : \E n \in DOMAIN sources[AgentName[i]] : e = <<i, n>>
  <1>1. \A e : e \in entries <=>
            \E i \in DOMAIN AgentName : \E n \in DOMAIN sources[AgentName[i]] : e = <<i, n>>
    BY DEF entries
  <1>2. \A a \in Agents : DOMAIN sources[a] \subseteq Nat
    <2> TAKE a \in Agents
    <2>1. sources[a] \in Seq(Urls)
      BY DEF SourcesTyped
    <2>2. DOMAIN sources[a] = 1..Len(sources[a])
      BY <2>1, LenProperties
    <2> QED BY <2>2
  <1>3. \A e \in entries : e \in Nat \X Nat
    BY <1>1, <1>2, AgentPositions
  <1> QED BY <1>1, <1>3

\* Every set of naturals has a least element.
LEMMA LeastNatural ==
  ASSUME NEW S, S \subseteq Nat, S # {}
  PROVE  \E m \in S : \A k \in S : m <= k
  <1>1. PICK m \in S : \A k \in S : ~ (<<k, m>> \in OpToRel(<, Nat))
    <2>1. \E m \in S : \A k \in S : ~ (<<k, m>> \in OpToRel(<, Nat))
      BY NatLessThanWellFounded, WFMin
    <2> QED BY <2>1
  <1>2. ASSUME NEW k \in S PROVE m <= k
    <2>1. <<k, m>> \notin OpToRel(<, Nat)
      BY <1>1
    <2>2. ~(k < m)
      BY <2>1 DEF OpToRel
    <2> QED BY <2>2
  <1> QED BY <1>2

\* Of any entries, one is met first.
LEMMA FirstMet ==
  ASSUME NEW group \in SUBSET (Nat \X Nat), group # {}
  PROVE  \E e \in group : \A f \in group : met_first(e, f)
  <1> DEFINE places == {e[1] : e \in group}
  <1>1. places \subseteq Nat /\ places # {}
    OBVIOUS
  <1>2. PICK i \in places : \A k \in places : i <= k
    <2> HIDE DEF places
    <2> QED BY <1>1, LeastNatural
  <1> DEFINE mine == {e \in group : e[1] = i}
             own == {e[2] : e \in mine}
  <1>3. own \subseteq Nat /\ own # {}
    BY <1>2
  <1>4. PICK n \in own : \A k \in own : n <= k
    <2> HIDE DEF own
    <2> QED BY <1>3, LeastNatural
  <1>5. PICK e \in group : e[1] = i /\ e[2] = n
    BY <1>4
  <1>6. ASSUME NEW f \in group PROVE met_first(e, f)
    <2>1. f[1] \in Nat /\ f[2] \in Nat /\ i \in Nat /\ n \in Nat
      BY <1>1, <1>2, <1>3, <1>4
    <2>2. i <= f[1] /\ (f[1] = i => n <= f[2])
      BY <1>2, <1>4
    <2> QED BY <1>5, <2>1, <2>2 DEF met_first
  <1> QED BY <1>6

Of(host) == {f \in entries : url(f).host = host}

\* What a record says of the sources on its host.
Describes(r, host) ==
    /\ r = record(Of(host)) /\ r.domain = host
    /\ Range(r.citing_agents) = {a \in Agents : \E u \in Range(sources[a]) : u.host = host}
    /\ \A m, n \in DOMAIN r.citing_agents : m < n =>
           \E i, j \in DOMAIN AgentName :
               i < j /\ r.citing_agents[m] = AgentName[i] /\ r.citing_agents[n] = AgentName[j]

LEMMA RecordDescribes ==
  ASSUME SourcesTyped, NEW host, Of(host) # {}
  PROVE  Describes(record(Of(host)), host)
  <1> DEFINE g == Of(host)
             e == CHOOSE e \in g : \A f \in g : met_first(e, f)
             places == {f[1] : f \in g}
  <1>1. g \in SUBSET (Nat \X Nat)
    BY EntriesTyped DEF Of
  <1>2. e \in g
    BY <1>1, FirstMet
  <1>3. url(e).host = host
    BY <1>2 DEF Of
  <1>4. record(g).domain = url(e).host /\ record(g).citing_agents = Sift(AgentName, places)
    BY DEF record
  <1>5. places \in SUBSET (1..Len(AgentName))
    BY EntriesTyped, AgentPositions DEF Of
  <1>6. {AgentName[i] : i \in places} = {a \in Agents : \E u \in Range(sources[a]) : u.host = host}
    <2>1. ASSUME NEW i \in places
          PROVE  AgentName[i] \in Agents /\ \E u \in Range(sources[AgentName[i]]) : u.host = host
      <3>1. PICK f \in entries : f[1] = i /\ url(f).host = host
        BY DEF Of
      <3>2. i \in DOMAIN AgentName /\ f[2] \in DOMAIN sources[AgentName[i]]
        BY <3>1, EntriesTyped
      <3>3. url(f) \in Range(sources[AgentName[i]])
        BY <3>1, <3>2 DEF url, Range
      <3> QED BY <3>1, <3>2, <3>3, AgentPositions
    <2>2. ASSUME NEW a \in Agents, NEW u \in Range(sources[a]), u.host = host
          PROVE  \E i \in places : AgentName[i] = a
      <3>1. PICK i \in DOMAIN AgentName : AgentName[i] = a
        BY AgentPositions
      <3>2. PICK n \in DOMAIN sources[a] : sources[a][n] = u
        BY DEF Range
      <3>3. <<i, n>> \in entries /\ url(<<i, n>>).host = host
        BY <2>2, <3>1, <3>2, EntriesTyped DEF url
      <3>4. <<i, n>> \in g
        BY <3>3 DEF Of
      <3> QED BY <3>1, <3>4
    <2> QED BY <2>1, <2>2
  <1> HIDE DEF places
  <1>7. Selects(Sift(AgentName, places), AgentName, places)
    <2>1. Len(AgentName) \in Nat
      BY AgentPositions
    <2> QED BY <1>5, <2>1, Sifted
  <1>8. places \subseteq DOMAIN AgentName
    BY <1>5, AgentPositions
  <1> HIDE DEF e, g
  <1>9. Describes(record(g), host)
    BY <1>3, <1>4, <1>6, <1>7, <1>8 DEF Describes, g, Selects
  <1> QED BY <1>9 DEF g

\* The records of a report describe the hosts of its sources, one each.
LEMMA ReportDescribes ==
  ASSUME SourcesTyped
  PROVE  /\ \A r \in {record(group) : group \in grouped} : \E host : Describes(r, host)
         /\ \A e \in entries : \E r \in {record(group) : group \in grouped} : Describes(r, url(e).host)
  <1>1. \A e \in entries : Describes(record(Of(url(e).host)), url(e).host)
    BY RecordDescribes DEF Of
  <1>2. grouped = {Of(url(e).host) : e \in entries}
    BY DEF grouped, Of
  <1> QED BY <1>1, <1>2

-----------------------------------------------------------------------------
(* The invariant *)

IInv ==
    /\ SourcesTyped
    /\ \A a \in Agents : cited[a] \subseteq Range(sources[a])
    /\ cited \in [Agents -> SUBSET Urls]
    /\ status \in [Agents -> {"running", "succeeded", "failed"}]
    /\ phase \in {"agents", "done", "raised"}
    /\ phase # "agents" => \A a \in Agents : status[a] # "running"
    /\ records = IF phase = "done" THEN {record(group) : group \in grouped} ELSE {}

LEMMA InitInv == Init => IInv
  <1> SUFFICES ASSUME Init PROVE IInv
    OBVIOUS
  <1>1. <<>> \in Seq(Urls)
    BY EmptySeq
  <1> QED BY <1>1 DEF Init, IInv, SourcesTyped

\* The records are those of the sources, as long as these stay.
LEMMA ReportStays ==
  ASSUME UNCHANGED sources
  PROVE  {record(group) : group \in grouped}' = {record(group) : group \in grouped}
  BY DEF record, grouped, entries, url, met_first

LEMMA NextInv == IInv /\ [Next]_vars => IInv'
  <1> SUFFICES ASSUME IInv, [Next]_vars PROVE IInv'
    OBVIOUS
  <1> DEFINE report == {record(group) : group \in grouped}
  <1>1. ASSUME NEW a \in Agents, Fail(a) PROVE IInv'
    <2>1. UNCHANGED <<sources, cited, records, phase>> /\ status' = [status EXCEPT ![a] = "failed"]
      BY <1>1 DEF Fail
    <2>2. report' = report
      BY <2>1, ReportStays
    <2> HIDE DEF report
    <2>3. records' = IF phase' = "done" THEN report' ELSE {}
      BY <2>1, <2>2 DEF IInv, report
    <2> QED BY <2>1, <2>3 DEF IInv, SourcesTyped, report
  <1>2. ASSUME NEW a \in Agents, NEW n \in 0..MaxSources, NEW found \in [1..n -> Urls],
               NEW answer \in SUBSET Urls, Succeed(a, found, answer)
        PROVE  IInv'
    <2>1. phase = "agents" /\ records = {} /\ records' = {} /\ phase' = "agents"
      BY <1>2 DEF Succeed, IInv
    <2>2. found \in Seq(Urls)
      <3>1. n \in Nat
        BY BoundAssumption
      <3> QED BY <3>1, SeqDef
    <2>3. SourcesTyped'
      BY <1>2, <2>2 DEF Succeed, IInv, SourcesTyped
    <2>4. cited' \in [Agents -> SUBSET Urls]
      BY <1>2 DEF Succeed, IInv, allowed
    <2>5. ASSUME NEW b \in Agents PROVE cited'[b] \subseteq Range(sources'[b])
      <3>1. CASE b = a
        <4>1. cited'[b] = allowed(found, answer) /\ sources'[b] = found
          BY <1>2, <3>1 DEF Succeed, IInv, SourcesTyped
        <4> QED BY <4>1 DEF allowed
      <3>2. CASE b # a
        <4>1. cited'[b] = cited[b] /\ sources'[b] = sources[b]
          BY <1>2, <3>2 DEF Succeed, IInv, SourcesTyped
        <4> QED BY <4>1 DEF IInv
      <3> QED BY <3>1, <3>2
    <2>6. status' \in [Agents -> {"running", "succeeded", "failed"}]
      BY <1>2 DEF Succeed, IInv
    <2> QED BY <2>1, <2>3, <2>4, <2>5, <2>6 DEF IInv
  <1>3. CASE deduplicate_sources
    <2>1. UNCHANGED <<status, sources, cited>> /\ \A a \in Agents : status[a] # "running"
      BY <1>3 DEF deduplicate_sources
    <2>2. report' = report
      BY <2>1, ReportStays
    <2>3. \/ phase' = "raised" /\ records' = {}
          \/ phase' = "done" /\ records' = report
      BY <1>3 DEF deduplicate_sources, IInv
    <2> HIDE DEF report
    <2>4. records' = IF phase' = "done" THEN report' ELSE {}
      BY <2>2, <2>3
    <2> QED BY <2>1, <2>3, <2>4 DEF IInv, SourcesTyped, report
  <1>4. CASE UNCHANGED vars
    <2>1. UNCHANGED <<status, sources, cited, records, phase>>
      BY <1>4 DEF vars
    <2>2. report' = report
      BY <2>1, ReportStays
    <2> HIDE DEF report
    <2>3. records' = IF phase' = "done" THEN report' ELSE {}
      BY <2>1, <2>2 DEF IInv, report
    <2> QED BY <2>1, <2>3 DEF IInv, SourcesTyped, report
  <1> QED BY <1>1, <1>2, <1>3, <1>4 DEF Next

\* What an agent cites it found, and the records made are those of the sources
\* (extract and deduplicate_sources).
THEOREM Invariance == Spec => []IInv
  BY InitInv, NextInv, PTL DEF Spec

\* Whatever the agents find and the models cite: every citation of a finished
\* report has a record of its domain, which names the citing agent.
THEOREM CitationsHaveRecords == Spec => []CitationsAreRecorded
  <1>1. IInv => CitationsAreRecorded
    <2> SUFFICES ASSUME IInv, phase = "done", NEW a \in Agents, NEW u \in cited[a]
                 PROVE  \E r \in records : r.domain = u.host /\ a \in Range(r.citing_agents)
      BY DEF CitationsAreRecorded
    <2>1. u \in Range(sources[a]) /\ SourcesTyped
      BY DEF IInv
    <2>2. PICK i \in DOMAIN AgentName : AgentName[i] = a
      BY AgentPositions
    <2>3. PICK n \in DOMAIN sources[a] : sources[a][n] = u
      BY <2>1 DEF Range
    <2>4. <<i, n>> \in entries /\ url(<<i, n>>) = u
      BY <2>1, <2>2, <2>3, EntriesTyped DEF url
    <2>5. PICK r \in {record(group) : group \in grouped} : Describes(r, url(<<i, n>>).host)
      BY <2>1, <2>4, ReportDescribes
    <2>6. r \in records
      BY <2>5 DEF IInv
    <2>7. r.domain = u.host /\ a \in Range(r.citing_agents)
      BY <2>1, <2>4, <2>5 DEF Describes
    <2> QED BY <2>6, <2>7
  <1> QED BY <1>1, Invariance, PTL

\* Whichever agents found whichever pages of a domain: it has one record, with
\* exactly the agents that found it, each once and in their order.
THEOREM DomainsHaveOneRecord == Spec => []OneRecordPerDomain
  <1>1. IInv => OneRecordPerDomain
    <2> SUFFICES ASSUME IInv PROVE OneRecordPerDomain
      OBVIOUS
    <2>1. \A r \in records : Describes(r, r.domain)
      <3> TAKE r \in records
      <3>1. r \in {record(group) : group \in grouped} /\ SourcesTyped
        BY DEF IInv
      <3>2. PICK host : Describes(r, host)
        BY <3>1, ReportDescribes
      <3>3. r.domain = host
        BY <3>2 DEF Describes
      <3> QED BY <3>2, <3>3
    <2>2. \A r, s \in records : r.domain = s.domain => r = s
      BY <2>1 DEF Describes
    <2> QED BY <2>1, <2>2 DEF OneRecordPerDomain, Describes
  <1> QED BY <1>1, Invariance, PTL
=============================================================================
