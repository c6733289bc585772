-------------------------- MODULE AlgorithmProofs --------------------------
(***************************************************************************)
(* The algorithms, for inputs of any size: SubsetOf decides containment    *)
(* for hosts of any length over any labels, ValidSubdomains accepts and    *)
(* reports the right names, the rules compiled from a route select the     *)
(* requests it lets through, SameLimitList tells lists apart that differ   *)
(* in more than their order, and the limit index keeps every limit, in     *)
(* whatever order it writes them, and writes nothing without a change.     *)
(*                                                                         *)
(* Sorting, building the index and listing it are folds: the lemmas        *)
(* SortSteps, IndexSteps and FlattenSteps unfold them element by element,  *)
(* and inductions on the length count how often each limit is listed       *)
(* (Times), which is all that the properties need.                         *)
(***************************************************************************)
EXTENDS Algorithms, WellFoundedInduction, FiniteSetTheorems, SequenceTheorems, TLAPS

-----------------------------------------------------------------------------
(* Induction, on sets of numbers.                                          *)

\* A set of numbers has a least one.
LEMMA LeastNumber ==
    ASSUME NEW T \in SUBSET Nat, T # {}
    PROVE  Min(T) \in T /\ \A y \in T : Min(T) <= y
<1> DEFINE less == OpToRel(<, Nat)
<1>1. PICK x \in T : \A y \in T : ~(<<y, x>> \in less)
  BY NatLessThanWellFounded, WFMin, Zenon
<1>2. \A y \in T : y < x => <<y, x>> \in less
  BY Zenon DEF OpToRel
<1> HIDE DEF less
<1>3. \A y \in T : ~(y < x)
  BY <1>1, <1>2
<1>4. \A y \in T : x <= y
  BY <1>3
<1> QED BY <1>4 DEF Min

\* A bounded set of numbers has a greatest one.
LEMMA GreatestNumber ==
    ASSUME NEW n \in Nat, NEW T \in SUBSET (0..n), T # {}
    PROVE  Max(T) \in T /\ \A y \in T : y <= Max(T)
<1> DEFINE U == {k \in Nat : \A y \in T : y <= k}
<1>1. n \in U /\ U \in SUBSET Nat
  OBVIOUS
<1>2. Min(U) \in U /\ \A k \in U : Min(U) <= k
  BY <1>1, LeastNumber
<1>3. PICK m \in U : \A k \in U : m <= k
  BY <1>2
<1>4. m \in T
  <2> SUFFICES ASSUME m \notin T PROVE FALSE
    OBVIOUS
  <2>1. m \in Nat /\ \A y \in T : y \in Nat /\ y < m
    BY <1>3
  <2>2. m # 0
    <3>1. PICK y \in T : TRUE
      OBVIOUS
    <3> QED BY <2>1, <3>1
  <2>3. m - 1 \in Nat /\ \A y \in T : y <= m - 1
    BY <2>1, <2>2
  <2>4. m - 1 \in U
    BY <2>3
  <2> QED BY <1>3, <2>1, <2>4
<1>5. \E x \in T : \A y \in T : x >= y
  BY <1>3, <1>4
<1>6. Max(T) \in T /\ \A y \in T : Max(T) >= y
  BY <1>5 DEF Max
<1> QED BY <1>6

\* The principle of induction, for a set in place of a predicate.
LEMMA Induction ==
    ASSUME NEW S, 0 \in S, \A n \in Nat : n \in S => n + 1 \in S
    PROVE  \A n \in Nat : n \in S
<1> DEFINE T == Nat \ S
<1> SUFFICES ASSUME T # {} PROVE FALSE
  OBVIOUS
<1>1. T \in SUBSET Nat
  OBVIOUS
<1>2. Min(T) \in T /\ \A y \in T : Min(T) <= y
  BY <1>1, LeastNumber
<1>3. PICK x \in T : \A y \in T : x <= y
  BY <1>2
<1>4. x # 0 /\ x - 1 \in Nat
  BY <1>3
<1>5. x - 1 \in S
  BY <1>3, <1>4
<1> QED BY <1>3, <1>4, <1>5

\* The function over the sets of indices that MapThenFoldSet is defined by.
FoldOf(f, N, A, base, step) ==
    /\ f \in [SUBSET (1..N) -> A]
    /\ \A s \in SUBSET (1..N) :
          f[s] = IF s = {} THEN base ELSE step[<<Max(s), f[s \ {Max(s)}]>>]

\* It exists.
LEMMA FoldExists ==
    ASSUME NEW N \in Nat, NEW A, NEW base \in A, NEW step \in [(1..N) \X A -> A]
    PROVE  \E f : FoldOf(f, N, A, base, step)
<1> DEFINE Good(n, f) == \A s \in SUBSET (1..n) :
                            f[s] = IF s = {} THEN base ELSE step[<<Max(s), f[s \ {Max(s)}]>>]
           Exists(n) == n <= N => \E f \in [SUBSET (1..n) -> A] : Good(n, f)
           S == {n \in Nat : Exists(n)}
<1>1. Exists(0)
  <2> DEFINE f == [s \in SUBSET (1..0) |-> base]
  <2>1. f \in [SUBSET (1..0) -> A] /\ Good(0, f)
    OBVIOUS
  <2> QED BY <2>1
<1>2. ASSUME NEW n \in Nat, Exists(n) PROVE Exists(n + 1)
  <2> SUFFICES ASSUME n + 1 <= N PROVE \E g \in [SUBSET (1..(n + 1)) -> A] : Good(n + 1, g)
    OBVIOUS
  <2>1. PICK f \in [SUBSET (1..n) -> A] : Good(n, f)
    <3>1. n <= N
      OBVIOUS
    <3> HIDE DEF Good
    <3> QED BY <1>2, <3>1
  <2> DEFINE g == [s \in SUBSET (1..(n + 1)) |->
                     IF n + 1 \in s THEN step[<<n + 1, f[s \ {n + 1}]>>] ELSE f[s]]
  <2>2. ASSUME NEW s \in SUBSET (1..(n + 1)) PROVE s \ {n + 1} \in SUBSET (1..n)
    OBVIOUS
  <2>3. ASSUME NEW s \in SUBSET (1..(n + 1)) PROVE g[s] \in A
    <3>1. CASE n + 1 \in s
      <4>1. f[s \ {n + 1}] \in A /\ n + 1 \in 1..N
        BY <2>2
      <4>2. step[<<n + 1, f[s \ {n + 1}]>>] \in A
        BY <4>1
      <4> QED BY <3>1, <4>2
    <3>2. CASE n + 1 \notin s
      <4>1. s \in SUBSET (1..n)
        BY <2>2, <3>2
      <4> QED BY <3>2, <4>1
    <3> QED BY <3>1, <3>2
  <2>4. g \in [SUBSET (1..(n + 1)) -> A]
    BY <2>3
  <2>5. ASSUME NEW s \in SUBSET (1..(n + 1))
        PROVE  g[s] = IF s = {} THEN base ELSE step[<<Max(s), g[s \ {Max(s)}]>>]
    <3>1. CASE n + 1 \in s
      <4>1. s # {} /\ s \in SUBSET (0..(n + 1)) /\ n + 1 \in Nat
        BY <3>1
      <4>2. Max(s) \in s /\ \A y \in s : y <= Max(s)
        BY <4>1, GreatestNumber
      <4>3. Max(s) = n + 1
        <5>1. PICK m \in s : m = Max(s)
          BY <4>2
        <5>2. m = n + 1
          BY <3>1, <4>2, <5>1
        <5> QED BY <5>1, <5>2
      <4>4. g[s \ {n + 1}] = f[s \ {n + 1}]
        BY <2>2
      <4>5. g[s] = step[<<n + 1, f[s \ {n + 1}]>>]
        BY <3>1
      <4> HIDE DEF g
      <4> QED BY <4>1, <4>3, <4>4, <4>5
    <3>2. CASE n + 1 \notin s
      <4>1. s \in SUBSET (1..n) /\ g[s] = f[s]
        BY <2>2, <3>2
      <4>2. s \ {Max(s)} \in SUBSET (1..n)
        BY <4>1
      <4>3. n + 1 \notin s \ {Max(s)}
        BY <3>2
      <4>4. s \ {Max(s)} \in SUBSET (1..(n + 1))
        OBVIOUS
      <4>5. g[s \ {Max(s)}] = f[s \ {Max(s)}]
        BY <4>3, <4>4
      <4>6. f[s] = IF s = {} THEN base ELSE step[<<Max(s), f[s \ {Max(s)}]>>]
        BY <2>1, <4>1
      <4> HIDE DEF g
      <4> QED BY <4>1, <4>5, <4>6
    <3> QED BY <3>1, <3>2
  <2>6. Good(n + 1, g)
    BY <2>5
  <2> QED BY <2>4, <2>6
<1> HIDE DEF Exists
<1>3. 0 \in S /\ \A n \in Nat : n \in S => n + 1 \in S
  BY <1>1, <1>2
<1> HIDE DEF S
<1>4. \A n \in Nat : n \in S
  BY <1>3, Induction
<1>5. Exists(N)
  BY <1>4 DEF S
<1>6. N <= N
  OBVIOUS
<1>7. \E f \in [SUBSET (1..N) -> A] : Good(N, f)
  <2> HIDE DEF Good
  <2> QED BY <1>5, <1>6 DEF Exists
<1> QED BY <1>7 DEF FoldOf

-----------------------------------------------------------------------------
(* Hostnames.                                                              *)

\* A suffix of a suffix is a suffix.
LEMMA SuffixTransitive ==
    ASSUME NEW S, NEW s \in Seq(S), NEW t \in Seq(S), NEW u \in Seq(S),
           HasSuffix(s, t), HasSuffix(t, u)
    PROVE  HasSuffix(s, u)
<1>1. Len(u) <= Len(s)
  BY DEF HasSuffix
<1>2. ASSUME NEW i \in 1..Len(u)
      PROVE  s[Len(s) - Len(u) + i] = u[i]
  <2> DEFINE k == Len(t) - Len(u) + i
  <2>1. k \in 1..Len(t) /\ t[k] = u[i]
    BY <1>2 DEF HasSuffix
  <2>2. s[Len(s) - Len(t) + k] = t[k]
    BY <2>1 DEF HasSuffix
  <2>3. Len(s) - Len(t) + k = Len(s) - Len(u) + i
    OBVIOUS
  <2> QED BY <2>1, <2>2, <2>3
<1> QED BY <1>1, <1>2 DEF HasSuffix

\* Two suffixes of one sequence: the shorter is a suffix of the longer.
LEMMA SuffixesNested ==
    ASSUME NEW S, NEW s \in Seq(S), NEW t \in Seq(S), NEW u \in Seq(S),
           HasSuffix(s, t), HasSuffix(s, u), Len(u) <= Len(t)
    PROVE  HasSuffix(t, u)
<1>1. ASSUME NEW i \in 1..Len(u)
      PROVE  t[Len(t) - Len(u) + i] = u[i]
  <2> DEFINE k == Len(t) - Len(u) + i
  <2>1. k \in 1..Len(t)
    BY <1>1
  <2>2. s[Len(s) - Len(t) + k] = t[k]
    BY <2>1 DEF HasSuffix
  <2>3. s[Len(s) - Len(u) + i] = u[i]
    BY <1>1 DEF HasSuffix
  <2>4. Len(s) - Len(t) + k = Len(s) - Len(u) + i
    OBVIOUS
  <2> QED BY <2>2, <2>3, <2>4
<1> QED BY <1>1 DEF HasSuffix

\* A label in front of a sequence: a host of the wildcard name.
LEMMA Prefixed ==
    ASSUME NEW S, NEW a \in S, NEW t \in Seq(S)
    PROVE  /\ <<a>> \o t \in Seq(S)
           /\ Len(<<a>> \o t) = Len(t) + 1
           /\ HasSuffix(<<a>> \o t, t)
<1> DEFINE s == <<a>> \o t
<1>1. s \in Seq(S) /\ Len(s) = Len(t) + 1
  OBVIOUS
<1>2. \A i \in 1..Len(t) : s[1 + i] = t[i]
  OBVIOUS
<1>3. \A i \in 1..Len(t) : s[Len(s) - Len(t) + i] = t[i]
  BY <1>1, <1>2
<1> QED BY <1>1, <1>3 DEF HasSuffix

\* The fields of a name.
LEMMA NameFields ==
    ASSUME NEW n \in Name
    PROVE  /\ n.wild \in BOOLEAN
           /\ n.labels \in Seq(Labels)
           /\ ~n.wild => n.labels \in Host
BY DEF Name, Host

\* A name that SubsetOf accepts stands for hosts of the other name only,
\* whatever the wildcards and however many labels the hosts have.
LEMMA SubsetOfSound ==
    ASSUME NEW n \in Name, NEW o \in Name, NEW H \in SUBSET Host, SubsetOf(n, o)
    PROVE  HostsOf(n, H) \subseteq HostsOf(o, H)
<1> SUFFICES ASSUME NEW h \in HostsOf(n, H)
             PROVE  h \in HostsOf(o, H)
  OBVIOUS
<1>1. h \in H /\ h \in Seq(Labels)
  BY DEF HostsOf, Host
<1>2. n.labels \in Seq(Labels) /\ o.labels \in Seq(Labels) /\ n.wild \in BOOLEAN /\ o.wild \in BOOLEAN
  BY NameFields
<1>3. CASE ~o.wild
  BY <1>3, <1>1 DEF SubsetOf, HostsOf
<1>4. CASE o.wild /\ ~n.wild
  BY <1>4, <1>1 DEF SubsetOf, HostsOf
<1>5. CASE o.wild /\ n.wild
  <2>1. Len(h) > Len(n.labels) /\ HasSuffix(h, n.labels) /\ HasSuffix(n.labels, o.labels)
    BY <1>5 DEF SubsetOf, HostsOf
  <2>2. HasSuffix(h, o.labels)
    BY <2>1, <1>1, <1>2, SuffixTransitive
  <2>3. Len(h) > Len(o.labels)
    BY <2>1, <1>1, <1>2 DEF HasSuffix
  <2> QED BY <2>2, <2>3, <1>1, <1>5 DEF HostsOf
<1> QED BY <1>2, <1>3, <1>4, <1>5

\* SubsetOf refuses no name whose hosts the other name has: a wildcard is told
\* from a single host by two of its hosts.
LEMMA SubsetOfComplete ==
    ASSUME NEW n \in Name, NEW o \in Name, NEW H \in SUBSET Host, Told(n, H),
           HostsOf(n, H) \subseteq HostsOf(o, H)
    PROVE  SubsetOf(n, o)
<1>1. n.labels \in Seq(Labels) /\ o.labels \in Seq(Labels) /\ n.wild \in BOOLEAN /\ o.wild \in BOOLEAN
  BY NameFields
<1>2. CASE ~n.wild
  <2>1. n.labels \in HostsOf(n, H)
    BY <1>2 DEF HostsOf, Told
  <2>2. n.labels \in HostsOf(o, H)
    BY <2>1
  <2> QED BY <2>2, <1>1, <1>2 DEF HostsOf, SubsetOf
<1>3. CASE n.wild
  <2>1. PICK a \in Labels : <<a>> \o n.labels \in H /\ HostsOf(n, H) # {<<a>> \o n.labels}
    BY <1>3 DEF Told
  <2> DEFINE h == <<a>> \o n.labels
  <2>2. h \in Seq(Labels) /\ Len(h) = Len(n.labels) + 1 /\ HasSuffix(h, n.labels)
    BY <1>1, Prefixed
  <2>3. h \in H /\ HostsOf(n, H) # {h}
    BY <2>1
  <2> HIDE DEF h
  <2>4. h \in HostsOf(n, H)
    BY <1>1, <1>3, <2>2, <2>3 DEF HostsOf
  <2>5. PICK k \in HostsOf(n, H) : k # h
    BY <2>3, <2>4
  <2>6. o.wild
    BY <2>4, <2>5 DEF HostsOf
  <2>7. Len(h) > Len(o.labels) /\ HasSuffix(h, o.labels)
    BY <2>4, <2>6 DEF HostsOf
  <2>8. Len(o.labels) <= Len(n.labels)
    BY <1>1, <2>2, <2>7
  <2>9. HasSuffix(n.labels, o.labels)
    BY <1>1, <2>2, <2>7, <2>8, SuffixesNested
  <2> QED BY <1>3, <2>6, <2>9 DEF SubsetOf
<1> QED BY <1>1, <1>2, <1>3

\* Where there is a label, the hosts of any length tell every name.
LEMMA AllHostsTell ==
    ASSUME NEW n \in Name, NEW a \in Labels
    PROVE  Told(n, Host)
<1>1. n.labels \in Seq(Labels) /\ n.wild \in BOOLEAN /\ (~n.wild => n.labels \in Host)
  BY NameFields
<1>2. CASE n.wild
  <2> DEFINE h == <<a>> \o n.labels
             k == <<a>> \o h
  <2>1. h \in Seq(Labels) /\ Len(h) = Len(n.labels) + 1 /\ HasSuffix(h, n.labels)
    BY <1>1, Prefixed
  <2>2. k \in Seq(Labels) /\ Len(k) = Len(h) + 1 /\ HasSuffix(k, h)
    BY <2>1, Prefixed
  <2> HIDE DEF k
  <2>3. HasSuffix(k, n.labels)
    <3> HIDE DEF h
    <3> QED BY <1>1, <2>1, <2>2, SuffixTransitive
  <2>4. h \in Host /\ k \in HostsOf(n, Host) /\ k # h
    <3> HIDE DEF h
    <3> QED BY <1>1, <1>2, <2>1, <2>2, <2>3 DEF Host, HostsOf
  <2> QED BY <1>2, <2>4 DEF Told
<1> QED BY <1>1, <1>2 DEF Told

\* SubsetOf of pkg/common/hostname.go is containment of the sets of hosts, for
\* hosts of any length over any labels.
THEOREM SubsetOfExact ==
    ASSUME NEW n \in Name, NEW o \in Name, NEW a \in Labels
    PROVE  SubsetOfIsContainment(n, o, Host)
BY SubsetOfSound, SubsetOfComplete, AllHostsTell DEF SubsetOfIsContainment

\* The hosts of an accepted list lie within the domains.
LEMMA ValidStaysInside ==
    ASSUME NEW domains \in Seq(Name), NEW subdomains \in Seq(Name), NEW H \in SUBSET Host,
           ValidSubdomains(domains, subdomains).valid
    PROVE  StaysInside(domains, subdomains, H)
<1>1. Invalid(domains, subdomains) = {}
  BY DEF ValidSubdomains
<1> SUFFICES ASSUME NEW i \in DOMAIN subdomains
             PROVE  HostsOf(subdomains[i], H)
                        \subseteq UNION {HostsOf(domains[j], H) : j \in DOMAIN domains}
  BY DEF StaysInside
<1>2. PICK j \in DOMAIN domains : SubsetOf(subdomains[i], domains[j])
  BY <1>1 DEF Invalid
<1>3. subdomains[i] \in Name /\ domains[j] \in Name
  OBVIOUS
<1>4. HostsOf(subdomains[i], H) \subseteq HostsOf(domains[j], H)
  BY <1>2, <1>3, SubsetOfSound
<1> QED BY <1>4

\* ValidSubdomains accepts a list of hosts only when every host they stand for
\* belongs to one of the target's hostnames.
THEOREM ValidSubdomainsSound ==
    ASSUME NEW domains \in Seq(Name), NEW subdomains \in Seq(Name),
           ValidSubdomains(domains, subdomains).valid
    PROVE  StaysInside(domains, subdomains, Host)
BY ValidStaysInside

\* The name ValidSubdomains reports is one of the list that no domain covers:
\* the first, as the error of validateRuleHosts says.
LEMMA ReportedUncovered ==
    ASSUME NEW domains \in Seq(Name), NEW subdomains \in Seq(Name),
           ~ValidSubdomains(domains, subdomains).valid
    PROVE  \E i \in DOMAIN subdomains :
              /\ ValidSubdomains(domains, subdomains).reported = <<subdomains[i]>>
              /\ \A j \in DOMAIN domains : ~SubsetOf(subdomains[i], domains[j])
              /\ \A k \in DOMAIN subdomains : k < i =>
                    \E j \in DOMAIN domains : SubsetOf(subdomains[k], domains[j])
<1> DEFINE bad == Invalid(domains, subdomains)
           i == CHOOSE k \in bad : \A j \in bad : k <= j
<1>1. bad \subseteq Nat /\ bad # {}
  BY DEF ValidSubdomains, Invalid
<1>2. \E k \in bad : \A j \in bad : k <= j
  <2> HIDE DEF bad
  <2> QED BY <1>1, LeastNumber
<1>3. i \in bad /\ \A j \in bad : i <= j
  BY <1>2
<1>4. ValidSubdomains(domains, subdomains).reported = <<subdomains[i]>>
  BY <1>1 DEF ValidSubdomains
<1> HIDE DEF i
<1>5. i \in DOMAIN subdomains /\ \A j \in DOMAIN domains : ~SubsetOf(subdomains[i], domains[j])
  BY <1>3 DEF Invalid
<1>6. ASSUME NEW k \in DOMAIN subdomains, k < i
      PROVE  k \notin bad
  BY <1>3, <1>5, <1>6
<1> QED BY <1>4, <1>5, <1>6 DEF Invalid

\* The name reported for a refused list is not contained in any domain.
LEMMA ReportsRightly ==
    ASSUME NEW domains \in Seq(Name), NEW subdomains \in Seq(Name), NEW H \in SUBSET Host,
           \A i \in DOMAIN subdomains : Told(subdomains[i], H)
    PROVE  ValidSubdomainsIsRight(domains, subdomains, H)
<1>1. CASE ValidSubdomains(domains, subdomains).valid
  BY <1>1, ValidStaysInside DEF ValidSubdomainsIsRight
<1>2. CASE ~ValidSubdomains(domains, subdomains).valid
  <2>1. PICK i \in DOMAIN subdomains :
          /\ ValidSubdomains(domains, subdomains).reported = <<subdomains[i]>>
          /\ \A j \in DOMAIN domains : ~SubsetOf(subdomains[i], domains[j])
    BY <1>2, ReportedUncovered
  <2>2. ValidSubdomains(domains, subdomains).reported[1] = subdomains[i]
    BY <2>1
  <2>3. ASSUME NEW j \in DOMAIN domains
        PROVE  ~(HostsOf(subdomains[i], H) \subseteq HostsOf(domains[j], H))
    <3>1. subdomains[i] \in Name /\ domains[j] \in Name /\ ~SubsetOf(subdomains[i], domains[j])
      BY <2>1
    <3> QED BY <3>1, SubsetOfComplete
  <2> QED BY <1>2, <2>2, <2>3 DEF ValidSubdomainsIsRight
<1> QED BY <1>1, <1>2

\* ValidSubdomains is exact on each name, for lists and names of any length: it
\* accepts only names whose hosts belong to the target's hostnames, and the one
\* it reports has, for every hostname of the target, a host outside it.
THEOREM ValidSubdomainsExact ==
    ASSUME NEW domains \in Seq(Name), NEW subdomains \in Seq(Name), NEW a \in Labels
    PROVE  ValidSubdomainsIsRight(domains, subdomains, Host)
<1>1. \A i \in DOMAIN subdomains : Told(subdomains[i], Host)
  BY AllHostsTell
<1> QED BY <1>1, ReportsRightly

\* The arguments an algorithm is run on do not change.
LEMMA InputsStay ==
    Spec => [](input \in NameInputs \cup RouteInputs \cup ListInputs \cup {[of |-> "index"]})
<1> DEFINE Inv == input \in NameInputs \cup RouteInputs \cup ListInputs \cup {[of |-> "index"]}
<1>1. Init => Inv
  BY DEF Init
<1>2. Inv /\ [Next]_vars => Inv'
  BY DEF Next, vars
<1> QED BY <1>1, <1>2, PTL DEF Spec

\* SubsetOf and ValidSubdomains are right on every pair of lists they are run on,
\* compared by hosts that tell the names apart.
THEOREM HostnamesAreContained == Spec => []HostnamesContained
<1> DEFINE Inv == input \in NameInputs \cup RouteInputs \cup ListInputs \cup {[of |-> "index"]}
<1>1. Inv => HostnamesContained
  <2> SUFFICES ASSUME input \in NameInputs
               PROVE  HostnamesContained
    BY DEF HostnamesContained, RouteInputs, ListInputs
  <2>1. /\ input.domains \in Seq(Name) /\ input.subdomains \in Seq(Name)
        /\ \A i \in DOMAIN input.subdomains : Told(input.subdomains[i], Hosts)
        /\ Hosts \in SUBSET Host
    BY AlgorithmsAssumption DEF NameInputs
  <2>2. ASSUME NEW i \in DOMAIN input.domains, NEW j \in DOMAIN input.subdomains
        PROVE  SubsetOfIsContainment(input.subdomains[j], input.domains[i], Hosts)
    <3>1. input.domains[i] \in Name /\ input.subdomains[j] \in Name
      BY <2>1
    <3> QED BY <2>1, <3>1, SubsetOfSound, SubsetOfComplete DEF SubsetOfIsContainment
  <2> QED BY <2>1, <2>2, ReportsRightly DEF HostnamesContained
<1> QED BY <1>1, InputsStay, PTL

-----------------------------------------------------------------------------
(* The rules of a route.                                                   *)

\* Dropping the last character of a pattern that ends in a star.
LEMMA StarCovers ==
    ASSUME NEW v \in Seq(Characters), NEW path, IsPrefix(v, path)
    PROVE  Covers(v \o <<"*">>, path)
<1> DEFINE pattern == v \o <<"*">>
<1>1. /\ Len(pattern) = Len(v) + 1 /\ Len(v) \in Nat
      /\ pattern[Len(v) + 1] = "*"
      /\ \A i \in 1..Len(v) : pattern[i] = v[i]
      /\ pattern \in Seq(Characters \cup {"*"})
  OBVIOUS
<1>2. Last(pattern) = "*"
  BY <1>1 DEF Last
<1>3. Front(pattern) = v
  <2>1. Front(pattern) = [i \in 1..Len(v) |-> pattern[i]]
    BY <1>1 DEF Front
  <2>2. v = [i \in 1..Len(v) |-> v[i]]
    OBVIOUS
  <2> QED BY <1>1, <2>1, <2>2
<1> QED BY <1>2, <1>3 DEF Covers

\* A path that a prefix routes begins with the characters of the prefix, unless
\* the prefix has a slash at its end that the path lacks.
LEMMA PrefixBegins ==
    ASSUME NEW v \in Path, NEW path \in Path, UnderPrefix(v, path),
           ~(EndsInSlash(v) /\ path = Front(v))
    PROVE  IsPrefix(v, path)
<1>1. /\ v \in Seq(Characters) /\ path \in Seq(Characters)
      /\ Len(v) \in Nat \ {0} /\ Len(path) \in Nat \ {0}
      /\ v[1] = "/" /\ path[1] = "/"
  BY DEF Path
<1>2. CASE EndsInSlash(v)
  <2>1. IsPrefix(Front(v) \o <<"/">>, path)
    BY <1>2 DEF UnderPrefix
  <2>2. Front(v) \o <<"/">> = v
    <3>1. v[Len(v)] = "/"
      BY <1>2 DEF EndsInSlash, Last
    <3>2. /\ Front(v) \in Seq(Characters) /\ Len(Front(v)) = Len(v) - 1
          /\ \A i \in 1..(Len(v) - 1) : Front(v)[i] = v[i]
      <4> DEFINE n == Len(v) - 1
      <4>1. n \in Nat /\ Len(v) = n + 1
        BY <1>1
      <4>2. \A i \in 1..n : v[i] \in Characters
        BY <1>1, <4>1
      <4> HIDE DEF n
      <4>3. /\ SubSeq(v, 1, n) \in Seq(Characters)
            /\ Len(SubSeq(v, 1, n)) = IF 1 <= n THEN n - 1 + 1 ELSE 0
            /\ \A i \in 1..(n - 1 + 1) : SubSeq(v, 1, n)[i] = v[1 + i - 1]
        BY <4>1, <4>2, SubSeqProperties
      <4>4. /\ Len(SubSeq(v, 1, n)) = n
            /\ \A i \in 1..n : SubSeq(v, 1, n)[i] = v[i]
        BY <4>1, <4>3
      <4> QED BY <4>1, <4>3, <4>4 DEF Front, n
    <3>3. "/" \in Characters
      BY <1>1
    <3> DEFINE w == Front(v) \o <<"/">>
    <3>4. /\ w \in Seq(Characters) /\ Len(w) = Len(v)
          /\ w[Len(v)] = "/" /\ \A i \in 1..(Len(v) - 1) : w[i] = Front(v)[i]
      BY <1>1, <3>2, <3>3
    <3> HIDE DEF w
    <3>5. \A i \in 1..Len(v) : w[i] = v[i]
      BY <1>1, <3>1, <3>2, <3>4
    <3> QED BY <1>1, <3>4, <3>5, SeqEqual DEF w
  <2> QED BY <2>1, <2>2
<1>3. CASE ~EndsInSlash(v)
  <2>1. path = v \/ IsPrefix(v \o <<"/">>, path)
    BY <1>3 DEF UnderPrefix
  <2>2. CASE path = v
    BY <1>1, <2>2 DEF IsPrefix
  <2>3. CASE IsPrefix(v \o <<"/">>, path)
    <3> DEFINE longer == v \o <<"/">>
    <3>1. /\ longer \in Seq(Characters \cup {"/"}) /\ Len(longer) = Len(v) + 1
          /\ \A i \in 1..Len(v) : longer[i] = v[i]
      BY <1>1
    <3>2. /\ Len(longer) <= Len(path)
          /\ SubSeq(longer, 1, Len(longer)) = SubSeq(path, 1, Len(longer))
      BY <2>3 DEF IsPrefix
    <3>3. \A i \in 1..Len(longer) : SubSeq(longer, 1, Len(longer))[i] = longer[i]
      BY <3>1, <1>1
    <3>4. \A i \in 1..Len(longer) : SubSeq(path, 1, Len(longer))[i] = path[i]
      BY <3>1, <3>2, <1>1
    <3>5. \A i \in 1..Len(v) : v[i] = path[i]
      BY <3>1, <3>2, <3>3, <3>4, <1>1
    <3>6. SubSeq(v, 1, Len(v)) = [i \in 1..Len(v) |-> v[i]]
      BY <1>1
    <3>7. SubSeq(path, 1, Len(v)) = [i \in 1..Len(v) |-> path[i]]
      BY <1>1, <3>1, <3>2
    <3> QED BY <1>1, <3>1, <3>2, <3>5, <3>6, <3>7 DEF IsPrefix
  <2> QED BY <2>1, <2>2, <2>3
<1> QED BY <1>2, <1>3

\* The pattern written for a match selects the paths that the match routes.
LEMMA PatternCovers ==
    ASSUME NEW match \in PathMatch, NEW path \in Path, PathRouted(match, path),
           match # None, match.type # "RegularExpression", ~AbovePattern(match, path)
    PROVE  \E pattern \in routePathMatchToRulePath(match) : Covers(pattern, path)
<1> DEFINE v == ValueOr(match.value)
<1>1. v = <<"/">> \/ v \in Path
  BY DEF PathMatch, ValueOr
<1>2. "/" \in Characters
  BY DEF Path
<1>3. v \in Path /\ v \in Seq(Characters)
  <2>1. <<"/">> \in Seq(Characters) /\ Len(<<"/">>) = 1 /\ <<"/">>[1] = "/" /\ <<"/">> # << >>
    BY <1>2
  <2>2. <<"/">> \in Path
    BY <2>1 DEF Path
  <2> HIDE DEF v
  <2>3. v \in Path
    BY <1>1, <2>2
  <2> QED BY <2>3 DEF Path
<1>4. CASE match.type = "Exact"
  <2>1. path = v
    BY <1>4, AlgorithmsAssumption DEF PathRouted
  <2>2. v \o << >> \in routePathMatchToRulePath(match)
    BY <1>4 DEF routePathMatchToRulePath
  <2> HIDE DEF v
  <2>3. v \o << >> = v
    BY <1>3
  <2> QED BY <2>1, <2>2, <2>3 DEF Covers
<1>5. CASE match.type # "Exact"
  <2>1. match.type \in {None, "PathPrefix"}
    BY <1>5 DEF PathMatch
  <2>2. UnderPrefix(v, path)
    BY <1>5, <2>1 DEF PathRouted
  <2>3. ~(EndsInSlash(v) /\ path = Front(v))
    BY <2>1 DEF AbovePattern
  <2>4. v \o <<"*">> \in routePathMatchToRulePath(match)
    BY <1>5 DEF routePathMatchToRulePath
  <2> HIDE DEF v
  <2> QED BY <1>3, <2>2, <2>3, <2>4, PrefixBegins, StarCovers
<1> QED BY <1>4, <1>5

\* A match that compiles has a rule of its own, which selects what it routes.
LEMMA OwnRuleSelects ==
    ASSUME NEW hosts, NEW m \in Match, NEW req \in Request, Routed(hosts, m, req),
           ~AbovePattern(m.path, req.path)
    PROVE  Selected(RuleOf(hosts, m), req)
<1> DEFINE rule == RuleOf(hosts, m)
<1>1. Wildcard \in rule.hosts \/ req.host \in rule.hosts
  BY DEF Routed, RuleOf, RouteHostnames
<1>2. rule.methods = {} \/ req.method \in rule.methods
  BY DEF Routed, RuleOf, RouteHTTPMethodToRuleMethod
<1>3. rule.paths = routePathMatchToRulePath(m.path)
  BY DEF RuleOf
<1>4. CASE m.path = None \/ m.path.type = "RegularExpression"
  BY <1>1, <1>2, <1>3, <1>4 DEF routePathMatchToRulePath, Selected
<1>5. CASE ~(m.path = None \/ m.path.type = "RegularExpression")
  <2>1. m.path \in PathMatch /\ req.path \in Path
    BY <1>5 DEF Match, Request
  <2>2. PathRouted(m.path, req.path)
    BY DEF Routed
  <2>3. \E pattern \in rule.paths : Covers(pattern, req.path)
    BY <1>3, <1>5, <2>1, <2>2, PatternCovers
  <2> QED BY <1>1, <1>2, <2>3 DEF Selected
<1> QED BY <1>4, <1>5

\* A rule is kept exactly for the matches that compile.
LEMMA CompiledRules ==
    ASSUME NEW hosts, NEW m
    PROVE  Compiles(m) <=> RuleOf(hosts, m).methods # {} \/ RuleOf(hosts, m).paths # {}
<1>1. m.method # None <=> RuleOf(hosts, m).methods # {}
  BY DEF RuleOf, RouteHTTPMethodToRuleMethod
<1>2. (m.path # None /\ m.path.type # "RegularExpression") <=> RuleOf(hosts, m).paths # {}
  BY DEF RuleOf, routePathMatchToRulePath
<1> QED BY <1>1, <1>2 DEF Compiles

\* For routes with any hostnames and matches and requests with any path, the
\* patterns of characters that RulesFromHTTPRoute writes select every request
\* that a match of the route lets through by elements of the path, but for the
\* requests of a match that is left out, and for the path above the pattern of a
\* prefix that ends in a slash.
THEOREM RulesSelectRouted ==
    ASSUME NEW hosts, NEW matches \in SUBSET Match, NEW reqs \in SUBSET Request
    PROVE  RulesCoverMatches(hosts, matches, reqs)
<1> DEFINE rules == RulesFromHTTPRoute(hosts, matches)
           kept == {r \in {RuleOf(hosts, m) : m \in matches} : r.methods # {} \/ r.paths # {}}
<1> SUFFICES ASSUME NEW m \in matches, NEW req \in reqs,
                    Routed(hosts, m, req),
                    ~LeftOut(matches, m), ~AbovePattern(m.path, req.path)
             PROVE  \E r \in rules : Selected(r, req)
  BY DEF RulesCoverMatches
<1>0. Compiles(m) \/ \A other \in matches : ~Compiles(other)
  BY DEF LeftOut
<1>1. CASE Compiles(m)
  <2>1. RuleOf(hosts, m) \in kept
    BY <1>1, CompiledRules
  <2>2. rules = kept
    BY <2>1 DEF RulesFromHTTPRoute
  <2> QED BY <2>1, <2>2, OwnRuleSelects
<1>2. CASE \A other \in matches : ~Compiles(other)
  <2>1. kept = {}
    BY <1>2, CompiledRules
  <2> DEFINE all == [hosts |-> RouteHostnames(hosts), methods |-> {}, paths |-> {}]
  <2>2. rules = {all}
    BY <2>1 DEF RulesFromHTTPRoute
  <2>3. Wildcard \in all.hosts \/ req.host \in all.hosts
    BY DEF Routed, RouteHostnames
  <2>4. Selected(all, req)
    BY <2>3 DEF Selected
  <2> QED BY <2>2, <2>4
<1> QED BY <1>0, <1>1, <1>2

\* The rules of every route that RulesFromHTTPRoute is run on are right.
THEOREM RouteRequestsAreSelected == Spec => []RouteRequestsSelected
<1> DEFINE Inv == input \in NameInputs \cup RouteInputs \cup ListInputs \cup {[of |-> "index"]}
<1>1. Inv => RouteRequestsSelected
  <2> SUFFICES ASSUME input \in RouteInputs
               PROVE  RouteRequestsSelected
    BY DEF RouteRequestsSelected, NameInputs, ListInputs
  <2>1. input.matches \in SUBSET Match /\ Requests \in SUBSET Request
    BY AlgorithmsAssumption DEF RouteInputs
  <2> QED BY <2>1, RulesSelectRouted DEF RouteRequestsSelected
<1> QED BY <1>1, InputsStay, PTL

-----------------------------------------------------------------------------
(* How often something is in a list.                                       *)

\* The places of an element are finitely many.
LEMMA TimesFinite ==
    ASSUME NEW S, NEW s \in Seq(S), NEW x
    PROVE  IsFiniteSet({i \in DOMAIN s : s[i] = x}) /\ Times(s, x) \in Nat
<1>1. {i \in DOMAIN s : s[i] = x} \in SUBSET (1..Len(s)) /\ Len(s) \in Nat
  OBVIOUS
<1>2. IsFiniteSet(1..Len(s))
  BY <1>1, FS_Interval
<1> QED BY <1>1, <1>2, FS_Subset, FS_CardinalityType DEF Times

\* What is never in a list is at no place of it.
LEMMA TimesZero ==
    ASSUME NEW S, NEW s \in Seq(S), NEW x
    PROVE  Times(s, x) = 0 <=> \A i \in DOMAIN s : s[i] # x
<1> DEFINE T == {i \in DOMAIN s : s[i] = x}
<1>1. IsFiniteSet(T)
  BY TimesFinite
<1>2. Cardinality(T) = 0 <=> T = {}
  BY <1>1, FS_EmptySet
<1> QED BY <1>2 DEF Times

\* The empty list has nothing.
LEMMA TimesEmpty ==
    ASSUME NEW x
    PROVE  Times(<< >>, x) = 0
<1>1. {i \in DOMAIN << >> : << >>[i] = x} = {}
  OBVIOUS
<1> QED BY <1>1, FS_EmptySet DEF Times

\* A list of one element has it once.
LEMMA TimesOne ==
    ASSUME NEW e, NEW x
    PROVE  Times(<<e>>, x) = IF e = x THEN 1 ELSE 0
<1>1. {i \in DOMAIN <<e>> : <<e>>[i] = x} = IF e = x THEN {1} ELSE {}
  OBVIOUS
<1> QED BY <1>1, FS_EmptySet, FS_Singleton DEF Times

\* Two lists one after the other have each element as often as both together.
LEMMA TimesConcat ==
    ASSUME NEW S, NEW s \in Seq(S), NEW t \in Seq(S), NEW x
    PROVE  Times(s \o t, x) = Times(s, x) + Times(t, x)
<1> DEFINE u == s \o t
           A == {i \in DOMAIN s : s[i] = x}
           T == {i \in DOMAIN t : t[i] = x}
           B == {i \in DOMAIN u : u[i] = x /\ i > Len(s)}
<1>1. /\ u \in Seq(S) /\ Len(u) = Len(s) + Len(t) /\ Len(s) \in Nat /\ Len(t) \in Nat
      /\ \A i \in 1..Len(s) : u[i] = s[i]
      /\ \A j \in 1..Len(t) : u[Len(s) + j] = t[j]
  OBVIOUS
<1>2. DOMAIN s = 1..Len(s) /\ DOMAIN t = 1..Len(t) /\ DOMAIN u = 1..Len(u)
  BY <1>1
<1>3. IsFiniteSet(A) /\ IsFiniteSet(T)
  BY TimesFinite
<1> HIDE DEF u
<1>4. {i \in DOMAIN u : u[i] = x} = A \cup B
  BY <1>1, <1>2
<1>5. A \cap B = {}
  BY <1>2
<1>6. ExistsBijection(T, B)
  <2> DEFINE f == [j \in T |-> Len(s) + j]
  <2>1. \A j \in T : Len(s) + j \in B
    BY <1>1, <1>2
  <2>2. f \in [T -> B]
    BY <2>1
  <2>3. \A j, k \in T : f[j] = f[k] => j = k
    BY <1>1, <1>2
  <2>4. ASSUME NEW i \in B PROVE \E j \in T : f[j] = i
    <3>1. i - Len(s) \in T /\ Len(s) + (i - Len(s)) = i
      BY <1>1, <1>2
    <3> QED BY <3>1
  <2> HIDE DEF f
  <2>5. f \in Bijection(T, B)
    BY <2>2, <2>3, <2>4 DEF Bijection, Injection, Surjection, IsInjective
  <2> QED BY <2>5 DEF ExistsBijection
<1>7. IsFiniteSet(B) /\ Cardinality(B) = Cardinality(T)
  BY <1>3, <1>6, FS_Bijection
<1>8. Cardinality(A \cup B) = Cardinality(A) + Cardinality(B) - Cardinality(A \cap B)
  BY <1>3, <1>7, FS_Union
<1>9. Cardinality(A) \in Nat /\ Cardinality(B) \in Nat
  BY <1>3, <1>7, FS_CardinalityType
<1>10. Cardinality(A \cap B) = 0
  BY <1>5, FS_EmptySet
<1> HIDE DEF A, B, T
<1>11. Cardinality(A \cup B) = Cardinality(A) + Cardinality(T)
  BY <1>7, <1>8, <1>9, <1>10
<1>12. Times(u, x) = Cardinality(A \cup B) /\ Times(s, x) = Cardinality(A) /\ Times(t, x) = Cardinality(T)
  BY <1>4, Zenon DEF Times, A, T
<1> QED BY <1>11, <1>12 DEF u

\* Two lists have the same elements equally often when every element is in both
\* equally often.
LEMMA BagsByTimes ==
    ASSUME NEW S, NEW a \in Seq(S), NEW b \in Seq(S)
    PROVE  ToBag(a) = ToBag(b) <=> \A x : Times(a, x) = Times(b, x)
<1>1. \A s \in Seq(S) : \A x : Times(s, x) = 0 <=> x \notin Range(s)
  BY TimesZero DEF Range
<1>2. \A s : ToBag(s) = [x \in Range(s) |-> Times(s, x)]
  BY DEF ToBag, Times
<1>3. ASSUME ToBag(a) = ToBag(b), NEW x PROVE Times(a, x) = Times(b, x)
  <2>1. Range(a) = Range(b)
    BY <1>2, <1>3
  <2>2. CASE x \in Range(a)
    <3>1. ToBag(a)[x] = Times(a, x) /\ ToBag(b)[x] = Times(b, x)
      BY <1>2, <2>1, <2>2
    <3> QED BY <1>3, <3>1
  <2>3. CASE x \notin Range(a)
    BY <1>1, <2>1, <2>3
  <2> QED BY <2>2, <2>3
<1>4. ASSUME \A x : Times(a, x) = Times(b, x) PROVE ToBag(a) = ToBag(b)
  <2>1. Range(a) = Range(b)
    BY <1>1, <1>4
  <2> QED BY <1>2, <1>4, <2>1
<1> QED BY <1>3, <1>4

-----------------------------------------------------------------------------
(* Less puts limits in order.                                              *)

\* The places of two lists one after the other.
LEMMA Joined ==
    ASSUME NEW S, NEW s \in Seq(S), NEW t \in Seq(S), NEW n \in Nat, NEW m \in Nat,
           Len(s) = n, Len(t) = m
    PROVE  /\ s \o t \in Seq(S) /\ Len(s \o t) = n + m
           /\ \A i \in 1..n : (s \o t)[i] = s[i]
           /\ \A i \in 1..m : (s \o t)[n + i] = t[i]
OBVIOUS

\* The fields of a limit with n conditions and m variables.
FieldsOf(f, l, n, m) ==
    /\ n \in Nat /\ m \in Nat /\ n = Len(l.conditions) /\ m = Len(l.variables)
    /\ f \in Seq(Nat) /\ Len(f) = 4 + n + m /\ DOMAIN f = 1..(4 + n + m)
    /\ f[1] = l.max /\ f[2] = l.seconds /\ f[3] = n
    /\ \A i \in 1..n : f[3 + i] = l.conditions[i]
    /\ f[4 + n] = m
    /\ \A i \in 1..m : f[4 + n + i] = l.variables[i]

\* Where the fields of a limit are.
LEMMA FieldsAre ==
    ASSUME NEW l \in RateLimit
    PROVE  \E n, m \in Nat : FieldsOf(Fields(l), l, n, m)
<1> DEFINE c == l.conditions
           v == l.variables
           h == <<l.max, l.seconds, Len(c)>>
           hc == h \o c
           hcn == hc \o <<Len(v)>>
<1>1. c \in Seq(Nat) /\ v \in Seq(Nat) /\ l.max \in Nat /\ l.seconds \in Nat
  BY DEF RateLimit
<1>2. PICK n \in Nat, m \in Nat : n = Len(c) /\ m = Len(v)
  BY <1>1
<1>3. /\ h \in Seq(Nat) /\ Len(h) = 3 /\ h[1] = l.max /\ h[2] = l.seconds /\ h[3] = n
      /\ <<Len(v)>> \in Seq(Nat) /\ Len(<<Len(v)>>) = 1 /\ <<Len(v)>>[1] = m
  BY <1>1, <1>2
<1>4. Fields(l) = hcn \o v
  BY DEF Fields
<1>n. 1 \in Nat /\ 3 \in Nat /\ 3 + n \in Nat /\ 3 + n + 1 \in Nat
  OBVIOUS
<1>l. Len(c) = n /\ Len(v) = m
  BY <1>2
<1> HIDE DEF h, c, v
<1>5. /\ hc \in Seq(Nat) /\ Len(hc) = 3 + n
      /\ \A i \in 1..3 : hc[i] = h[i]
      /\ \A i \in 1..n : hc[3 + i] = c[i]
  <2>1. h \in Seq(Nat) /\ Len(h) = 3 /\ c \in Seq(Nat) /\ Len(c) = n /\ 3 \in Nat
    BY <1>1, <1>l, <1>3
  <2>2. PICK s \in Seq(Nat), t \in Seq(Nat) : s = h /\ t = c /\ Len(s) = 3 /\ Len(t) = n
    BY <2>1
  <2>3. PICK k \in Nat : k = 3
    OBVIOUS
  <2>4. /\ s \o t \in Seq(Nat) /\ Len(s \o t) = k + n
        /\ \A i \in 1..k : (s \o t)[i] = s[i]
        /\ \A i \in 1..n : (s \o t)[k + i] = t[i]
    <3>1. Len(s) = k
      BY <2>2, <2>3
    <3>2. Len(t) = n
      BY <2>2
    <3>3. Len(s \o t) = Len(s) + Len(t)
      OBVIOUS
    <3>4. Len(s \o t) = k + n
      BY <3>1, <3>2, <3>3, Zenon
    <3>5. \A i \in 1..k : (s \o t)[i] = s[i]
      BY <3>1
    <3>6. \A i \in 1..n : (s \o t)[k + i] = t[i]
      BY <3>1, <3>2
    <3>7. s \o t \in Seq(Nat)
      OBVIOUS
    <3> QED BY <3>4, <3>5, <3>6, <3>7, Zenon
  <2> QED BY <2>2, <2>3, <2>4
<1> HIDE DEF hc
<1>6. /\ hcn \in Seq(Nat) /\ Len(hcn) = 3 + n + 1
      /\ \A i \in 1..(3 + n) : hcn[i] = hc[i]
      /\ \A i \in 1..1 : hcn[3 + n + i] = <<Len(v)>>[i]
  BY <1>n, <1>3, <1>5, Joined
<1> HIDE DEF hcn
<1>7. /\ hcn \o v \in Seq(Nat) /\ Len(hcn \o v) = 3 + n + 1 + m
      /\ \A i \in 1..(3 + n + 1) : (hcn \o v)[i] = hcn[i]
      /\ \A i \in 1..m : (hcn \o v)[3 + n + 1 + i] = v[i]
  <2>1. v \in Seq(Nat) /\ Len(v) = m
    BY <1>1, <1>l
  <2>2. PICK s \in Seq(Nat), t \in Seq(Nat) :
                s = hcn /\ t = v /\ Len(s) = 3 + n + 1 /\ Len(t) = m
    BY <1>6, <2>1
  <2>3. PICK k \in Nat : k = 3 + n + 1
    OBVIOUS
  <2>4. /\ s \o t \in Seq(Nat) /\ Len(s \o t) = k + m
        /\ \A i \in 1..k : (s \o t)[i] = s[i]
        /\ \A i \in 1..m : (s \o t)[k + i] = t[i]
    <3>1. Len(s) = k
      BY <2>2, <2>3
    <3>2. Len(t) = m
      BY <2>2
    <3>3. Len(s \o t) = Len(s) + Len(t)
      OBVIOUS
    <3>4. Len(s \o t) = k + m
      BY <3>1, <3>2, <3>3, Zenon
    <3>5. \A i \in 1..k : (s \o t)[i] = s[i]
      BY <3>1
    <3>6. \A i \in 1..m : (s \o t)[k + i] = t[i]
      BY <3>1, <3>2
    <3>7. s \o t \in Seq(Nat)
      OBVIOUS
    <3> QED BY <3>4, <3>5, <3>6, <3>7, Zenon
  <2> QED BY <2>2, <2>3, <2>4
<1>8. PICK f : f = Fields(l)
  OBVIOUS
<1>9. /\ f \in Seq(Nat) /\ Len(f) = 4 + n + m
      /\ \A i \in 1..(4 + n) : f[i] = hcn[i]
      /\ \A i \in 1..m : f[4 + n + i] = v[i]
  <2>1. 3 + n + 1 = 4 + n
    OBVIOUS
  <2> QED BY <1>4, <1>7, <1>8, <2>1
<1>10. f[1] = l.max /\ f[2] = l.seconds /\ f[3] = n
  <2>1. {1, 2, 3} \subseteq 1..(4 + n) /\ {1, 2, 3} \subseteq 1..(3 + n)
    OBVIOUS
  <2>2. \A i \in {1, 2, 3} : f[i] = h[i]
    BY <1>5, <1>6, <1>9, <2>1
  <2> QED BY <1>3, <2>2
<1>11. \A i \in 1..n : f[3 + i] = c[i]
  <2>1. \A i \in 1..n : 3 + i \in 1..(4 + n) /\ 3 + i \in 1..(3 + n)
    OBVIOUS
  <2> QED BY <1>5, <1>6, <1>9, <2>1
<1>12. f[4 + n] = m
  <2>1. 4 + n \in 1..(4 + n) /\ 3 + n + 1 = 4 + n
    OBVIOUS
  <2>2. hcn[3 + n + 1] = m
    BY <1>3, <1>6
  <2> QED BY <1>9, <2>1, <2>2
<1>13. DOMAIN f = 1..(4 + n + m)
  BY <1>9
<1>14. FieldsOf(f, l, n, m)
  BY <1>2, <1>9, <1>10, <1>11, <1>12, <1>13 DEF FieldsOf, c, v
<1> QED BY <1>8, <1>14

\* Limits whose fields agree as far as both have them are the same: each list
\* follows its length.
LEMMA FieldsTell ==
    ASSUME NEW a \in RateLimit, NEW b \in RateLimit,
           \A i \in DOMAIN Fields(a) \cap DOMAIN Fields(b) : Fields(a)[i] = Fields(b)[i]
    PROVE  a = b
<1>1. PICK f, n, m : f = Fields(a) /\ FieldsOf(f, a, n, m)
  BY FieldsAre
<1>2. PICK g, k, j : g = Fields(b) /\ FieldsOf(g, b, k, j)
  BY FieldsAre
<1>3. n \in Nat /\ m \in Nat /\ k \in Nat /\ j \in Nat
  BY <1>1, <1>2 DEF FieldsOf
<1>4. \A i \in 1..(4 + n + m) : i \in 1..(4 + k + j) => f[i] = g[i]
  BY <1>1, <1>2 DEF FieldsOf
<1>5. a.max = b.max /\ a.seconds = b.seconds /\ n = k
  <2>1. {1, 2, 3} \subseteq 1..(4 + n + m) /\ {1, 2, 3} \subseteq 1..(4 + k + j)
    BY <1>3
  <2>2. f[1] = g[1] /\ f[2] = g[2] /\ f[3] = g[3]
    BY <1>4, <2>1
  <2> QED BY <1>1, <1>2, <2>2 DEF FieldsOf
<1>6. m = j
  <2>1. 4 + n \in 1..(4 + n + m) /\ 4 + n \in 1..(4 + k + j)
    BY <1>3, <1>5
  <2>2. f[4 + n] = g[4 + n]
    BY <1>4, <2>1
  <2> QED BY <1>1, <1>2, <1>5, <2>2 DEF FieldsOf
<1>7. ASSUME NEW i \in 1..n PROVE a.conditions[i] = b.conditions[i]
  <2>1. 3 + i \in 1..(4 + n + m) /\ 3 + i \in 1..(4 + k + j)
    BY <1>3, <1>5
  <2>2. f[3 + i] = g[3 + i]
    BY <1>4, <2>1
  <2> QED BY <1>1, <1>2, <1>5, <2>2 DEF FieldsOf
<1>8. ASSUME NEW i \in 1..m PROVE a.variables[i] = b.variables[i]
  <2>1. 4 + n + i \in 1..(4 + n + m) /\ 4 + n + i \in 1..(4 + k + j)
    BY <1>3, <1>5, <1>6
  <2>2. f[4 + n + i] = g[4 + n + i]
    BY <1>4, <2>1
  <2> QED BY <1>1, <1>2, <1>5, <1>6, <2>2 DEF FieldsOf
<1>9. /\ a.conditions \in Seq(Nat) /\ b.conditions \in Seq(Nat)
      /\ a.variables \in Seq(Nat) /\ b.variables \in Seq(Nat)
      /\ Len(a.conditions) = n /\ Len(b.conditions) = n
      /\ Len(a.variables) = m /\ Len(b.variables) = m
  BY <1>1, <1>2, <1>5, <1>6 DEF FieldsOf, RateLimit
<1>10. a.conditions = b.conditions /\ a.variables = b.variables
  BY <1>7, <1>8, <1>9, SeqEqual
<1> QED BY <1>5, <1>10 DEF RateLimit

\* The fields of a limit are numbers.
LEMMA FieldsType ==
    ASSUME NEW l \in RateLimit
    PROVE  \E n \in Nat : /\ Fields(l) \in Seq(Nat) /\ Len(Fields(l)) = n /\ DOMAIN Fields(l) = 1..n
                          /\ \A i \in 1..n : Fields(l)[i] \in Nat
<1>1. PICK n, m : FieldsOf(Fields(l), l, n, m)
  BY FieldsAre
<1>2. n \in Nat /\ m \in Nat
  BY <1>1 DEF FieldsOf
<1>3. PICK k \in Nat : k = 4 + n + m
  BY <1>2
<1>4. Fields(l) \in Seq(Nat) /\ Len(Fields(l)) = k /\ DOMAIN Fields(l) = 1..k
  BY <1>1, <1>3 DEF FieldsOf
<1>5. \A i \in 1..k : Fields(l)[i] \in Nat
  BY <1>4
<1> QED BY <1>4, <1>5

\* The first field that differs.
Before(a, b) ==
    \E i \in DOMAIN Fields(a) \cap DOMAIN Fields(b) :
        /\ Fields(a)[i] > Fields(b)[i]
        /\ \A j \in 1..(i - 1) : Fields(a)[j] = Fields(b)[j]

\* Less is the reflexive order of the first difference, and total.
LEMMA LessIsOrder ==
    ASSUME NEW a \in RateLimit, NEW b \in RateLimit
    PROVE  /\ Less(a, b) <=> a = b \/ Before(a, b)
           /\ a = b \/ Before(a, b) \/ Before(b, a)
<1> DEFINE f == Fields(a)
           g == Fields(b)
           diff == {i \in DOMAIN f \cap DOMAIN g : f[i] # g[i]}
<1>1. PICK n \in Nat : DOMAIN f = 1..n /\ \A i \in 1..n : f[i] \in Nat
  BY FieldsType
<1>2. PICK m \in Nat : DOMAIN g = 1..m /\ \A i \in 1..m : g[i] \in Nat
  BY FieldsType
<1>3. Less(a, b) <=> diff = {} \/ f[Min(diff)] > g[Min(diff)]
  BY DEF Less
<1>4. diff = {} => a = b
  BY FieldsTell
<1>5. a = b => diff = {}
  OBVIOUS
<1>6. Before(a, b) <=>
        \E i \in 1..n : i \in 1..m /\ f[i] > g[i] /\ \A j \in 1..(i - 1) : f[j] = g[j]
  BY <1>1, <1>2 DEF Before
<1>7. Before(b, a) <=>
        \E i \in 1..n : i \in 1..m /\ g[i] > f[i] /\ \A j \in 1..(i - 1) : g[j] = f[j]
  BY <1>1, <1>2 DEF Before
<1>8. diff = {i \in 1..n : i \in 1..m /\ f[i] # g[i]}
  BY <1>1, <1>2
<1> HIDE DEF f, g, diff
<1>9. diff = {} => ~Before(a, b)
  <2> SUFFICES ASSUME diff = {}, NEW i \in 1..n, i \in 1..m, f[i] > g[i] PROVE FALSE
    BY <1>6
  <2>1. f[i] = g[i] /\ f[i] \in Nat
    BY <1>1, <1>8
  <2> QED BY <2>1
<1>10. ASSUME diff # {}
       PROVE  /\ f[Min(diff)] > g[Min(diff)] <=> Before(a, b)
              /\ Before(a, b) \/ Before(b, a)
  <2>1. diff \in SUBSET Nat
    BY <1>8
  <2>2. PICK k \in diff : k = Min(diff) /\ \A i \in diff : k <= i
    BY <1>10, <2>1, LeastNumber
  <2>3. k \in 1..n /\ k \in 1..m /\ f[k] \in Nat /\ g[k] \in Nat /\ f[k] # g[k]
    BY <1>1, <1>2, <1>8, <2>2
  <2>4. ASSUME NEW j \in 1..(k - 1) PROVE f[j] = g[j]
    <3>1. j \in 1..n /\ j \in 1..m /\ ~(k <= j)
      BY <2>3
    <3>2. j \notin diff
      BY <2>2, <3>1
    <3> QED BY <1>8, <3>1, <3>2
  <2>5. f[k] > g[k] => Before(a, b)
    BY <1>6, <2>3, <2>4
  <2>6. g[k] > f[k] => Before(b, a)
    BY <1>7, <2>3, <2>4
  <2>7. ASSUME Before(a, b) PROVE f[k] > g[k]
    <3>1. PICK i \in 1..n : i \in 1..m /\ f[i] > g[i] /\ \A j \in 1..(i - 1) : f[j] = g[j]
      BY <1>6, <2>7
    <3>2. f[i] \in Nat /\ g[i] \in Nat
      BY <1>1, <1>2, <3>1
    <3>3. f[i] # g[i]
      BY <3>1, <3>2
    <3>4. i \in diff
      BY <1>8, <3>1, <3>3
    <3>5. k <= i
      BY <2>2, <3>4
    <3>6. ~(k < i)
      BY <2>3, <3>1
    <3>7. k = i
      BY <2>3, <3>5, <3>6
    <3> QED BY <3>1, <3>7
  <2>8. f[k] > g[k] \/ g[k] > f[k]
    BY <2>3
  <2> QED BY <2>2, <2>5, <2>6, <2>7, <2>8
<1> QED BY <1>3, <1>4, <1>5, <1>9, <1>10

\* Limits that are less than each other are the same.
LEMMA LessAntisymmetric ==
    ASSUME NEW a \in RateLimit, NEW b \in RateLimit, Less(a, b), Less(b, a)
    PROVE  a = b
<1> SUFFICES ASSUME Before(a, b), Before(b, a) PROVE FALSE
  BY LessIsOrder
<1> DEFINE f == Fields(a)
           g == Fields(b)
<1>1. PICK n \in Nat : DOMAIN f = 1..n /\ \A i \in 1..n : f[i] \in Nat
  BY FieldsType
<1>2. PICK m \in Nat : DOMAIN g = 1..m /\ \A i \in 1..m : g[i] \in Nat
  BY FieldsType
<1>3. PICK i \in 1..n : i \in 1..m /\ f[i] > g[i] /\ \A j \in 1..(i - 1) : f[j] = g[j]
  BY <1>1, <1>2 DEF Before
<1>4. PICK k \in 1..n : k \in 1..m /\ g[k] > f[k] /\ \A j \in 1..(k - 1) : g[j] = f[j]
  BY <1>1, <1>2 DEF Before
<1> HIDE DEF f, g
<1>5. f[i] \in Nat /\ g[i] \in Nat /\ f[k] \in Nat /\ g[k] \in Nat
  BY <1>1, <1>2, <1>3, <1>4
<1>6. ~(i < k) /\ ~(k < i) /\ i # k
  BY <1>3, <1>4, <1>5
<1> QED BY <1>6

\* Less is transitive.
LEMMA LessTransitive ==
    ASSUME NEW a \in RateLimit, NEW b \in RateLimit, NEW c \in RateLimit, Less(a, b), Less(b, c)
    PROVE  Less(a, c)
<1>1. CASE a = b \/ b = c
  BY <1>1
<1>2. CASE Before(a, b) /\ Before(b, c)
  <2> DEFINE f == Fields(a)
             g == Fields(b)
             h == Fields(c)
  <2>1. PICK n \in Nat : DOMAIN f = 1..n /\ \A x \in 1..n : f[x] \in Nat
    BY FieldsType
  <2>2. PICK m \in Nat : DOMAIN g = 1..m /\ \A x \in 1..m : g[x] \in Nat
    BY FieldsType
  <2>3. PICK q \in Nat : DOMAIN h = 1..q /\ \A x \in 1..q : h[x] \in Nat
    BY FieldsType
  <2>4. PICK i \in 1..n : i \in 1..m /\ f[i] > g[i] /\ \A j \in 1..(i - 1) : f[j] = g[j]
    BY <1>2, <2>1, <2>2 DEF Before
  <2>5. PICK k \in 1..m : k \in 1..q /\ g[k] > h[k] /\ \A j \in 1..(k - 1) : g[j] = h[j]
    BY <1>2, <2>2, <2>3 DEF Before
  <2>6. (\E x \in 1..n : x \in 1..q /\ f[x] > h[x] /\ \A j \in 1..(x - 1) : f[j] = h[j])
          => Before(a, c)
    BY <2>1, <2>3 DEF Before
  <2> HIDE DEF f, g, h
  <2>7. CASE i < k
    <3>1. i \in 1..q /\ \A j \in 1..(i - 1) : f[j] = h[j]
      BY <2>4, <2>5, <2>7
    <3>2. g[i] = h[i]
      BY <2>5, <2>7
    <3>3. Before(a, c)
      BY <2>4, <2>6, <3>1, <3>2
    <3> QED BY <3>3, LessIsOrder
  <2>8. CASE k < i
    <3>1. k \in 1..n /\ \A j \in 1..(k - 1) : f[j] = h[j]
      BY <2>4, <2>5, <2>8
    <3>2. f[k] = g[k]
      BY <2>4, <2>8
    <3>3. Before(a, c)
      BY <2>5, <2>6, <3>1, <3>2
    <3> QED BY <3>3, LessIsOrder
  <2>9. CASE k = i
    <3>1. f[i] \in Nat /\ g[i] \in Nat /\ h[i] \in Nat
      BY <2>1, <2>2, <2>3, <2>4, <2>5, <2>9
    <3>2. f[i] > h[i] /\ \A j \in 1..(i - 1) : f[j] = h[j]
      BY <2>4, <2>5, <2>9, <3>1
    <3>3. Before(a, c)
      BY <2>4, <2>5, <2>6, <2>9, <3>2
    <3> QED BY <3>3, LessIsOrder
  <2>10. i < k \/ k < i \/ k = i
    BY <2>4, <2>5
  <2> QED BY <2>7, <2>8, <2>9, <2>10
<1> QED BY <1>1, <1>2, LessIsOrder

-----------------------------------------------------------------------------
(* The insertion sort.                                                     *)

\* What InsertAt makes of a list, place by place and in number.
LEMMA InsertedAt ==
    ASSUME NEW S, NEW s \in Seq(S), NEW n \in Nat, Len(s) = n,
           NEW i \in 1..(n + 1), NEW e \in S, NEW r, r = InsertAt(s, i, e)
    PROVE  /\ r \in Seq(S) /\ Len(r) = n + 1
           /\ \A j \in 1..(n + 1) : r[j] = IF j < i THEN s[j] ELSE IF j = i THEN e ELSE s[j - 1]
           /\ \A x : Times(r, x) = Times(s, x) + Times(<<e>>, x)
<1>1. PICK k \in 0..n : i = k + 1
  <2>1. i - 1 \in 0..n /\ i = (i - 1) + 1
    OBVIOUS
  <2> QED BY <2>1
<1> DEFINE u0 == SubSeq(s, 1, k)
           v0 == SubSeq(s, k + 1, n)
<1>2. /\ u0 \in Seq(S) /\ Len(u0) = k /\ \A j \in 1..k : u0[j] = s[j]
  <2>1. \A j \in 1..k : s[j] \in S
    OBVIOUS
  <2>2. /\ SubSeq(s, 1, k) \in Seq(S)
        /\ Len(SubSeq(s, 1, k)) = IF 1 <= k THEN k - 1 + 1 ELSE 0
        /\ \A j \in 1..(k - 1 + 1) : SubSeq(s, 1, k)[j] = s[1 + j - 1]
    <3>1. 1 \in Int /\ k \in Int
      OBVIOUS
    <3> QED BY <2>1, <3>1, SubSeqProperties
  <2> HIDE DEF u0
  <2>3. k - 1 + 1 = k /\ (IF 1 <= k THEN k - 1 + 1 ELSE 0) = k /\ \A j \in 1..k : 1 + j - 1 = j
    OBVIOUS
  <2> QED BY <2>2, <2>3 DEF u0
<1>3. /\ v0 \in Seq(S) /\ Len(v0) = n - k /\ \A j \in 1..(n - k) : v0[j] = s[k + j]
  <2>1. \A j \in (k + 1)..n : s[j] \in S
    OBVIOUS
  <2>2. /\ SubSeq(s, k + 1, n) \in Seq(S)
        /\ Len(SubSeq(s, k + 1, n)) = IF k + 1 <= n THEN n - (k + 1) + 1 ELSE 0
        /\ \A j \in 1..(n - (k + 1) + 1) : SubSeq(s, k + 1, n)[j] = s[(k + 1) + j - 1]
    <3>1. k + 1 \in Int /\ n \in Int
      OBVIOUS
    <3> QED BY <2>1, <3>1, SubSeqProperties
  <2> HIDE DEF v0
  <2>3. /\ n - (k + 1) + 1 = n - k /\ (IF k + 1 <= n THEN n - (k + 1) + 1 ELSE 0) = n - k
        /\ \A j \in 1..(n - k) : (k + 1) + j - 1 = k + j
    OBVIOUS
  <2> QED BY <2>2, <2>3 DEF v0
<1>4. r = u0 \o <<e>> \o v0
  <2>1. i - 1 = k
    BY <1>1
  <2> QED BY <1>1, <2>1 DEF InsertAt
<1>5. s = u0 \o v0
  <2>1. 1 \in 1..(Len(s) + 1) /\ k \in (1 - 1)..Len(s) /\ n \in k..Len(s)
    OBVIOUS
  <2>2. SubSeq(s, 1, k) \o SubSeq(s, k + 1, n) = SubSeq(s, 1, n)
    BY <2>1, ConcatAdjacentSubSeq
  <2>3. SubSeq(s, 1, n) = s
    BY SubSeqFull
  <2> QED BY <2>2, <2>3
<1> HIDE DEF u0, v0
<1>6. PICK u \in Seq(S), v \in Seq(S), m \in Nat :
        /\ m = n - k /\ n = k + m /\ u = u0 /\ v = v0 /\ Len(u) = k /\ Len(v) = m
        /\ (\A j \in 1..k : u[j] = s[j]) /\ (\A j \in 1..m : v[j] = s[k + j])
  <2>1. n - k \in Nat /\ n = k + (n - k)
    OBVIOUS
  <2> QED BY <1>2, <1>3, <2>1
<1>7. <<e>> \in Seq(S) /\ Len(<<e>>) = 1 /\ <<e>>[1] = e
  OBVIOUS
<1>8. PICK w \in Seq(S) : w = u \o <<e>> /\ Len(w) = k + 1 /\ (\A j \in 1..k : w[j] = u[j]) /\ w[k + 1] = e
  <2>1. u \o <<e>> \in Seq(S) /\ Len(u \o <<e>>) = Len(u) + Len(<<e>>)
    BY <1>7
  <2>2. Len(u \o <<e>>) = k + 1
    BY <1>6, <1>7, <2>1
  <2>3. (\A j \in 1..k : (u \o <<e>>)[j] = u[j]) /\ (u \o <<e>>)[k + 1] = e
    BY <1>6
  <2> QED BY <2>1, <2>2, <2>3
<1>9. r = w \o v
  BY <1>4, <1>6, <1>8
<1>10. r \in Seq(S) /\ Len(r) = n + 1
  <2>1. r \in Seq(S) /\ Len(r) = Len(w) + Len(v)
    BY <1>9
  <2> QED BY <1>6, <1>8, <2>1
<1>11. (\A j \in 1..(k + 1) : r[j] = w[j]) /\ (\A j \in 1..m : r[k + 1 + j] = v[j])
  <2>1. PICK p \in Nat : p = k + 1 /\ Len(w) = p
    BY <1>8
  <2>2. (\A j \in 1..p : r[j] = w[j]) /\ (\A j \in 1..m : r[p + j] = v[j])
    <3>1. Len(w) = p /\ Len(v) = m
      BY <1>6, <2>1
    <3>2. (\A j \in 1..p : (w \o v)[j] = w[j]) /\ (\A j \in 1..m : (w \o v)[p + j] = v[j])
      BY <3>1
    <3> QED BY <1>9, <3>2
  <2> QED BY <2>1, <2>2
<1>12. ASSUME NEW j \in 1..(n + 1)
       PROVE  r[j] = IF j < i THEN s[j] ELSE IF j = i THEN e ELSE s[j - 1]
  <2>1. CASE j < i
    <3>1. j \in 1..k /\ j \in 1..(k + 1)
      BY <1>1, <2>1
    <3> QED BY <1>6, <1>8, <1>11, <2>1, <3>1
  <2>2. CASE j = i
    <3>1. j = k + 1 /\ j \in 1..(k + 1) /\ ~(j < i)
      BY <1>1, <2>2
    <3> QED BY <1>8, <1>11, <2>2, <3>1
  <2>3. CASE j > i
    <3>1. PICK q \in 1..m : j = k + 1 + q /\ k + q = j - 1
      <4>1. j - k - 1 \in 1..m /\ j = k + 1 + (j - k - 1) /\ k + (j - k - 1) = j - 1
        BY <1>1, <1>6, <2>3
      <4> QED BY <4>1
    <3>2. r[j] = s[j - 1]
      BY <1>6, <1>11, <3>1
    <3>3. ~(j < i) /\ j # i
      BY <2>3
    <3> QED BY <3>2, <3>3
  <2>4. j < i \/ j = i \/ j > i
    OBVIOUS
  <2> QED BY <2>1, <2>2, <2>3, <2>4
<1>13. ASSUME NEW x PROVE Times(r, x) = Times(s, x) + Times(<<e>>, x)
  <2>1. Times(r, x) = Times(w, x) + Times(v, x)
    BY <1>9, TimesConcat
  <2>2. Times(w, x) = Times(u, x) + Times(<<e>>, x)
    <3>1. PICK o \in Seq(S) : o = <<e>>
      BY <1>7
    <3>2. Times(u \o o, x) = Times(u, x) + Times(o, x)
      BY TimesConcat
    <3> QED BY <1>8, <3>1, <3>2
  <2>3. Times(s, x) = Times(u, x) + Times(v, x)
    BY <1>5, <1>6, TimesConcat
  <2>4. Times(u, x) \in Nat /\ Times(v, x) \in Nat /\ Times(<<e>>, x) \in Nat
    BY <1>7, TimesFinite
  <2>5. PICK p \in Nat, q \in Nat, z \in Nat : p = Times(u, x) /\ q = Times(v, x) /\ z = Times(<<e>>, x)
    BY <2>4
  <2> QED BY <2>1, <2>2, <2>3, <2>5
<1> QED BY <1>10, <1>12, <1>13

\* Each limit is less than those after it.
Ordered(s) == \A i, j \in DOMAIN s : i < j => Less(s[i], s[j])

\* Inserting a limit adds it once and keeps the order.
LEMMA InsertOrders ==
    ASSUME NEW s \in Seq(RateLimit), NEW l \in RateLimit, NEW r, r = Insert(s, l)
    PROVE  /\ r \in Seq(RateLimit) /\ Len(r) = Len(s) + 1
           /\ \A x : Times(r, x) = Times(s, x) + Times(<<l>>, x)
           /\ Ordered(s) => Ordered(r)
<1> DEFINE stay == {i \in DOMAIN s : ~Less(l, s[i])}
<1>1. PICK n \in Nat : Len(s) = n /\ DOMAIN s = 1..n
  OBVIOUS
<1>2. PICK k \in 0..n : /\ r = InsertAt(s, k + 1, l)
                        /\ k = 0 \/ ~Less(l, s[k])
                        /\ \A j \in 1..n : k < j => Less(l, s[j])
  <2>1. CASE stay = {}
    <3>1. r = InsertAt(s, 1, l)
      BY <2>1 DEF Insert
    <3>2. 0 \in 0..n /\ 0 + 1 = 1
      OBVIOUS
    <3>3. \A j \in 1..n : Less(l, s[j])
      BY <1>1, <2>1
    <3> QED BY <3>1, <3>2, <3>3
  <2>2. CASE stay # {}
    <3>1. r = InsertAt(s, Max(stay) + 1, l)
      BY <2>2 DEF Insert
    <3>2. stay \in SUBSET (0..n)
      BY <1>1
    <3>3. PICK k \in stay : k = Max(stay) /\ \A y \in stay : y <= k
      BY <2>2, <3>2, GreatestNumber
    <3>4. k \in 0..n /\ ~Less(l, s[k])
      BY <3>2, <3>3
    <3>5. ASSUME NEW j \in 1..n, k < j PROVE Less(l, s[j])
      <4>1. ~(j <= k)
        BY <3>4, <3>5
      <4>2. j \notin stay
        BY <3>3, <4>1
      <4> QED BY <1>1, <4>2
    <3> QED BY <3>1, <3>3, <3>4, <3>5
  <2> QED BY <2>1, <2>2
<1>3. k + 1 \in 1..(n + 1)
  OBVIOUS
<1>4. /\ r \in Seq(RateLimit) /\ Len(r) = n + 1
      /\ \A j \in 1..(n + 1) :
            r[j] = IF j < k + 1 THEN s[j] ELSE IF j = k + 1 THEN l ELSE s[j - 1]
      /\ \A x : Times(r, x) = Times(s, x) + Times(<<l>>, x)
  BY <1>1, <1>2, <1>3, InsertedAt
<1>5. DOMAIN r = 1..(n + 1) /\ \A j \in 1..n : s[j] \in RateLimit
  BY <1>1, <1>4
<1>6. ASSUME Ordered(s) PROVE Ordered(r)
  <2>1. ASSUME NEW j \in 1..n, j <= k PROVE Less(s[j], l)
    <3>1. k \in 1..n /\ ~Less(l, s[k])
      BY <1>2, <2>1
    <3>2. Less(s[k], l)
      BY <1>5, <3>1, LessIsOrder
    <3>3. CASE j = k
      BY <3>2, <3>3
    <3>4. CASE j < k
      <4>1. Less(s[j], s[k])
        BY <1>1, <1>6, <3>1, <3>4 DEF Ordered
      <4> QED BY <1>5, <3>1, <3>2, <4>1, LessTransitive
    <3> QED BY <2>1, <3>3, <3>4
  <2>2. ASSUME NEW i \in 1..(n + 1), NEW j \in 1..(n + 1), i < j PROVE Less(r[i], r[j])
    <3>1. CASE j < k + 1
      <4>1. r[i] = s[i] /\ r[j] = s[j] /\ i \in 1..n /\ j \in 1..n
        BY <1>4, <2>2, <3>1
      <4> QED BY <1>1, <1>6, <2>2, <4>1 DEF Ordered
    <3>2. CASE j = k + 1
      <4>1. r[i] = s[i] /\ r[j] = l /\ i \in 1..n /\ i <= k
        BY <1>4, <2>2, <3>2
      <4> QED BY <2>1, <4>1
    <3>3. CASE k + 1 < j
      <4>1. PICK q \in 1..n : q = j - 1 /\ k < q
        BY <3>3
      <4>2. r[j] = s[q]
        BY <1>4, <3>3, <4>1
      <4>3. CASE i < k + 1
        <5>1. r[i] = s[i] /\ i \in 1..n /\ i < q
          BY <1>4, <4>1, <4>3
        <5> QED BY <1>1, <1>6, <4>1, <4>2, <5>1 DEF Ordered
      <4>4. CASE i = k + 1
        <5>1. r[i] = l
          BY <1>4, <4>4
        <5> QED BY <1>2, <4>1, <4>2, <5>1
      <4>5. CASE k + 1 < i
        <5>1. PICK p \in 1..n : p = i - 1 /\ p < q
          BY <2>2, <4>1, <4>5
        <5>2. r[i] = s[p]
          BY <1>4, <4>5, <5>1
        <5> QED BY <1>1, <1>6, <4>1, <4>2, <5>1, <5>2 DEF Ordered
      <4> QED BY <4>3, <4>4, <4>5
    <3> QED BY <3>1, <3>2, <3>3
  <2> QED BY <1>5, <2>2 DEF Ordered
<1> QED BY <1>1, <1>4, <1>6

\* The greatest of the first numbers, and the others.
LEMMA Initials ==
    ASSUME NEW n \in Nat
    PROVE  /\ n + 1 \in 1..(n + 1) /\ Max(1..(n + 1)) = n + 1
           /\ 1..(n + 1) # {} /\ (1..(n + 1)) \ {n + 1} = 1..n
<1>1. n + 1 \in Nat /\ 1..(n + 1) \in SUBSET (0..(n + 1)) /\ n + 1 \in 1..(n + 1)
  OBVIOUS
<1>2. PICK m : m = Max(1..(n + 1)) /\ m \in 1..(n + 1) /\ \A y \in 1..(n + 1) : y <= m
  <2>1. 1..(n + 1) # {}
    BY <1>1
  <2> QED BY <1>1, <2>1, GreatestNumber
<1>3. m = n + 1
  BY <1>1, <1>2
<1>4. (1..(n + 1)) \ {n + 1} = 1..n
  OBVIOUS
<1> QED BY <1>1, <1>2, <1>3, <1>4

\* How often something is in the first n + 1 of a list.
LEMMA PrefixTimes ==
    ASSUME NEW S, NEW list \in Seq(S), NEW N \in Nat, Len(list) = N, NEW n \in Nat, n < N, NEW x
    PROVE  Times(SubSeq(list, 1, n + 1), x) = Times(SubSeq(list, 1, n), x) + Times(<<list[n + 1]>>, x)
<1>1. n + 1 \in 1..N /\ 1 \in 1..N /\ n + 1 \in 1..Len(list) /\ 1 \in 1..Len(list) /\ (n + 1) - 1 = n
  OBVIOUS
<1>2. SubSeq(list, 1, n + 1) = SubSeq(list, 1, (n + 1) - 1) \o <<list[n + 1]>>
  BY <1>1, SubSeqRecursiveSecond
<1>3. \A j \in 1..n : list[j] \in S
  OBVIOUS
<1>4. SubSeq(list, 1, n) \in Seq(S)
  BY <1>3, SubSeqProperties
<1>5. PICK u \in Seq(S), o \in Seq(S) : u = SubSeq(list, 1, n) /\ o = <<list[n + 1]>>
  <2>1. <<list[n + 1]>> \in Seq(S)
    BY <1>1
  <2> QED BY <1>4, <2>1
<1>6. Times(u \o o, x) = Times(u, x) + Times(o, x)
  BY TimesConcat
<1> QED BY <1>1, <1>2, <1>5, <1>6

\* The first no and the first all of a list.
LEMMA PrefixEnds ==
    ASSUME NEW S, NEW list \in Seq(S), NEW N \in Nat, Len(list) = N, NEW x
    PROVE  SubSeq(list, 1, N) = list /\ Times(SubSeq(list, 1, 0), x) = 0
<1>1. SubSeq(list, 1, Len(list)) = list
  BY SubSeqFull
<1>2. 0 < 1 /\ 0 \in Int /\ 1 \in Int
  OBVIOUS
<1>3. SubSeq(list, 1, 0) = << >>
  BY <1>2, SubSeqEmpty
<1> QED BY <1>1, <1>3, TimesEmpty

\* Sort inserts the limits of the list one after the other.
LEMMA SortSteps ==
    ASSUME NEW list \in Seq(RateLimit), NEW N \in Nat, Len(list) = N
    PROVE  \E h : /\ h[0] = << >> /\ h[N] = Sort(list)
                  /\ \A n \in Nat : n < N => h[n + 1] = Insert(h[n], list[n + 1])
<1> DEFINE A == Seq(RateLimit)
           Fold(f) == f = [s \in SUBSET (DOMAIN list) |->
                             IF s = {} THEN << >> ELSE Insert(f[s \ {Max(s)}], list[Max(s)])]
           step == [p \in (1..N) \X A |-> Insert(p[2], list[p[1]])]
<1>1. Sort(list) = (CHOOSE f : Fold(f))[DOMAIN list]
  BY Zenon DEF Sort, FoldLeft, MapThenFoldSet
<1>2. DOMAIN list = 1..N /\ << >> \in A
  OBVIOUS
<1>3. step \in [(1..N) \X A -> A]
  <2>1. ASSUME NEW p \in (1..N) \X A PROVE Insert(p[2], list[p[1]]) \in A
    <3>1. p[2] \in A /\ list[p[1]] \in RateLimit
      OBVIOUS
    <3> QED BY <3>1, InsertOrders
  <2> QED BY <2>1
<1>4. PICK f \in [SUBSET (1..N) -> A] : \A s \in SUBSET (1..N) :
              f[s] = IF s = {} THEN << >> ELSE step[<<Max(s), f[s \ {Max(s)}]>>]
  <2> HIDE DEF step, A
  <2>1. \E f : FoldOf(f, N, A, << >>, step)
    BY <1>2, <1>3, FoldExists, Zenon
  <2> QED BY <2>1, Zenon DEF FoldOf
<1>5. Fold(f)
  <2>1. ASSUME NEW s \in SUBSET (1..N), s # {}
        PROVE  f[s] = Insert(f[s \ {Max(s)}], list[Max(s)])
    <3>1. s \in SUBSET (0..N)
      OBVIOUS
    <3>2. Max(s) \in s
      BY <2>1, <3>1, GreatestNumber
    <3>3. PICK m \in 1..N, t \in SUBSET (1..N) : m = Max(s) /\ t = s \ {Max(s)}
      BY <3>2
    <3>4. f[t] \in A
      OBVIOUS
    <3>5. step[<<m, f[t]>>] = Insert(f[t], list[m])
      <4> HIDE DEF A
      <4> QED BY <3>4
    <3> HIDE DEF step
    <3> QED BY <1>4, <2>1, <3>3, <3>5
  <2>2. f = [s \in SUBSET (1..N) |-> f[s]]
    OBVIOUS
  <2>3. \A s \in SUBSET (1..N) :
            f[s] = IF s = {} THEN << >> ELSE Insert(f[s \ {Max(s)}], list[Max(s)])
    BY <1>4, <2>1
  <2>4. f = [s \in SUBSET (1..N) |-> IF s = {} THEN << >> ELSE Insert(f[s \ {Max(s)}], list[Max(s)])]
    BY <2>2, <2>3
  <2> QED BY <1>2, <2>4
<1> HIDE DEF Fold
<1>6. PICK g : g = CHOOSE k : Fold(k)
  OBVIOUS
<1>7. Fold(g)
  BY <1>5, <1>6
<1>8. g = [s \in SUBSET (1..N) |-> IF s = {} THEN << >> ELSE Insert(g[s \ {Max(s)}], list[Max(s)])]
  BY <1>2, <1>7 DEF Fold
<1> DEFINE h == [n \in 0..N |-> g[1..n]]
<1>9. h[0] = << >>
  <2>1. 1..0 = {} /\ {} \in SUBSET (1..N) /\ 0 \in 0..N
    OBVIOUS
  <2>2. g[{}] = << >>
    BY <1>8, <2>1
  <2> QED BY <2>1, <2>2
<1>10. h[N] = Sort(list)
  BY <1>1, <1>2, <1>6
<1>11. ASSUME NEW n \in Nat, n < N PROVE h[n + 1] = Insert(h[n], list[n + 1])
  <2>1. n + 1 \in 0..N /\ n \in 0..N /\ 1..(n + 1) \in SUBSET (1..N)
    BY <1>11
  <2>2. PICK s \in SUBSET (1..N) : s = 1..(n + 1)
    BY <2>1
  <2>3. s # {} /\ Max(s) = n + 1 /\ s \ {n + 1} = 1..n
    BY <2>2, Initials
  <2>4. g[s] = IF s = {} THEN << >> ELSE Insert(g[s \ {Max(s)}], list[Max(s)])
    BY <1>8
  <2>5. g[s] = Insert(g[1..n], list[n + 1])
    BY <2>3, <2>4
  <2>6. h[n + 1] = g[s] /\ h[n] = g[1..n]
    BY <2>1, <2>2
  <2> QED BY <2>5, <2>6
<1> QED BY <1>9, <1>10, <1>11

\* Sort keeps every limit as often as it was, and puts them in order.
LEMMA SortFacts ==
    ASSUME NEW list \in Seq(RateLimit)
    PROVE  /\ Sort(list) \in Seq(RateLimit) /\ Len(Sort(list)) = Len(list)
           /\ Ordered(Sort(list)) /\ \A x : Times(Sort(list), x) = Times(list, x)
<1>1. PICK N \in Nat : Len(list) = N
  OBVIOUS
<1>2. PICK h : /\ h[0] = << >> /\ h[N] = Sort(list)
               /\ \A n \in Nat : n < N => h[n + 1] = Insert(h[n], list[n + 1])
  BY <1>1, SortSteps
<1> DEFINE Good(n) == n <= N => /\ h[n] \in Seq(RateLimit) /\ Len(h[n]) = n /\ Ordered(h[n])
                                /\ \A x : Times(h[n], x) = Times(SubSeq(list, 1, n), x)
           S == {n \in Nat : Good(n)}
<1>3. Good(0)
  <2>1. << >> \in Seq(RateLimit) /\ Len(<< >>) = 0 /\ Ordered(<< >>)
    BY DEF Ordered
  <2>2. \A x : Times(<< >>, x) = Times(SubSeq(list, 1, 0), x)
    BY <1>1, PrefixEnds, TimesEmpty
  <2> QED BY <1>2, <2>1, <2>2
<1>4. ASSUME NEW n \in Nat, Good(n) PROVE Good(n + 1)
  <2> SUFFICES ASSUME n + 1 <= N
               PROVE  /\ h[n + 1] \in Seq(RateLimit) /\ Len(h[n + 1]) = n + 1 /\ Ordered(h[n + 1])
                      /\ \A x : Times(h[n + 1], x) = Times(SubSeq(list, 1, n + 1), x)
    OBVIOUS
  <2>1. n < N /\ n <= N
    OBVIOUS
  <2>2. PICK s \in Seq(RateLimit) : /\ s = h[n] /\ Len(s) = n /\ Ordered(s)
                                    /\ \A x : Times(s, x) = Times(SubSeq(list, 1, n), x)
    BY <1>4, <2>1
  <2>3. PICK l \in RateLimit : l = list[n + 1]
    BY <1>1, <2>1
  <2>4. PICK r : r = Insert(s, l) /\ r = h[n + 1]
    BY <1>2, <2>1, <2>2, <2>3
  <2>5. /\ r \in Seq(RateLimit) /\ Len(r) = n + 1 /\ Ordered(r)
        /\ \A x : Times(r, x) = Times(s, x) + Times(<<l>>, x)
    <3>1. /\ r \in Seq(RateLimit) /\ Len(r) = Len(s) + 1
          /\ \A x : Times(r, x) = Times(s, x) + Times(<<l>>, x)
          /\ Ordered(s) => Ordered(r)
      BY <2>4, InsertOrders
    <3> QED BY <2>2, <3>1
  <2>6. \A x : Times(SubSeq(list, 1, n + 1), x) = Times(SubSeq(list, 1, n), x) + Times(<<l>>, x)
    BY <1>1, <2>1, <2>3, PrefixTimes
  <2> QED BY <2>2, <2>4, <2>5, <2>6
<1> HIDE DEF Good
<1>5. 0 \in S /\ \A n \in Nat : n \in S => n + 1 \in S
  BY <1>3, <1>4
<1> HIDE DEF S
<1>6. \A n \in Nat : n \in S
  BY <1>5, Induction
<1>7. Good(N) /\ N <= N
  BY <1>6 DEF S
<1>8. SubSeq(list, 1, N) = list
  BY <1>1, PrefixEnds
<1> QED BY <1>1, <1>2, <1>7, <1>8 DEF Good

\* Ordered lists with the same limits equally often are the same list.
LEMMA OrderedSame ==
    ASSUME NEW a \in Seq(RateLimit), NEW b \in Seq(RateLimit), Ordered(a), Ordered(b),
           \A x : Times(a, x) = Times(b, x)
    PROVE  a = b
<1> DEFINE Good(n) == \A s, t \in Seq(RateLimit) :
                         /\ Len(s) = n /\ Ordered(s) /\ Ordered(t)
                         /\ \A x : Times(s, x) = Times(t, x)
                         => s = t
           S == {n \in Nat : Good(n)}
<1>1. \A s, t \in Seq(RateLimit) : (\A x : Times(s, x) = Times(t, x)) => Range(s) = Range(t)
  <2> SUFFICES ASSUME NEW s \in Seq(RateLimit), NEW t \in Seq(RateLimit),
                      \A x : Times(s, x) = Times(t, x)
               PROVE  Range(s) = Range(t)
    OBVIOUS
  <2>1. \A x : Times(s, x) = 0 <=> x \notin Range(s)
    BY TimesZero DEF Range
  <2>2. \A x : Times(t, x) = 0 <=> x \notin Range(t)
    BY TimesZero DEF Range
  <2> QED BY <2>1, <2>2
<1>2. Good(0)
  <2> SUFFICES ASSUME NEW s \in Seq(RateLimit), NEW t \in Seq(RateLimit), Len(s) = 0,
                      \A x : Times(s, x) = Times(t, x)
               PROVE  s = t
    OBVIOUS
  <2>1. s = << >> /\ Range(s) = {}
    BY DEF Range
  <2>2. Range(t) = {}
    BY <1>1, <2>1
  <2>3. t = << >>
    <3>1. 1 \notin DOMAIN t
      BY <2>2 DEF Range
    <3>2. Len(t) = 0
      BY <3>1
    <3> QED BY <3>2
  <2> QED BY <2>1, <2>3
<1>3. ASSUME NEW n \in Nat, Good(n) PROVE Good(n + 1)
  <2> SUFFICES ASSUME NEW s \in Seq(RateLimit), NEW t \in Seq(RateLimit),
                      Len(s) = n + 1, Ordered(s), Ordered(t), \A x : Times(s, x) = Times(t, x)
               PROVE  s = t
    OBVIOUS
  <2>1. Range(s) = Range(t)
    BY <1>1
  <2>2. PICK m \in Nat : Len(t) = m + 1
    <3>1. s[1] \in Range(t) /\ Len(t) \in Nat
      <4>1. 1 \in DOMAIN s
        OBVIOUS
      <4>2. s[1] \in Range(s)
        BY <4>1 DEF Range
      <4> QED BY <2>1, <4>2
    <3>2. Len(t) # 0
      BY <3>1 DEF Range
    <3>3. Len(t) - 1 \in Nat /\ Len(t) = (Len(t) - 1) + 1
      BY <3>1, <3>2
    <3> QED BY <3>3
  <2>3. ASSUME NEW u \in Seq(RateLimit), NEW k \in Nat, Len(u) = k + 1, Ordered(u)
        PROVE  \E e \in RateLimit, v \in Seq(RateLimit) :
                  /\ u = <<e>> \o v /\ Len(v) = k /\ Ordered(v) /\ e = u[1]
                  /\ \A y \in Range(u) : Less(e, y)
                  /\ \A x : Times(u, x) = Times(<<e>>, x) + Times(v, x)
    <3>1. u # << >>
      BY <2>3
    <3>2. PICK e \in RateLimit, v \in Seq(RateLimit) : e = u[1] /\ v = Tail(u)
      <4>1. Head(u) \in RateLimit /\ Tail(u) \in Seq(RateLimit)
        BY <3>1, HeadTailProperties
      <4>2. Head(u) = u[1]
        BY <3>1
      <4> QED BY <4>1, <4>2
    <3>3. Len(v) = k /\ \A i \in 1..k : v[i] = u[i + 1]
      BY <2>3, <3>1, <3>2, HeadTailProperties
    <3>4. u = <<e>> \o v
      BY <3>1, <3>2
    <3>5. DOMAIN v = 1..k /\ DOMAIN u = 1..(k + 1)
      BY <2>3, <3>3
    <3>6. Ordered(v)
      <4> SUFFICES ASSUME NEW i \in 1..k, NEW j \in 1..k, i < j PROVE Less(v[i], v[j])
        BY <3>5 DEF Ordered
      <4>1. i + 1 \in 1..(k + 1) /\ j + 1 \in 1..(k + 1) /\ i + 1 < j + 1
        OBVIOUS
      <4>2. Less(u[i + 1], u[j + 1])
        BY <2>3, <3>5, <4>1 DEF Ordered
      <4> QED BY <3>3, <4>2
    <3>7. ASSUME NEW y \in Range(u) PROVE Less(e, y)
      <4>1. PICK i \in 1..(k + 1) : y = u[i]
        BY <3>5 DEF Range
      <4>2. CASE i = 1
        <5>1. y = e /\ y \in RateLimit
          BY <3>2, <4>1, <4>2
        <5> QED BY <5>1, LessIsOrder
      <4>3. CASE 1 < i
        <5>1. 1 \in 1..(k + 1)
          OBVIOUS
        <5> QED BY <2>3, <3>2, <3>5, <4>1, <4>3, <5>1 DEF Ordered
      <4> QED BY <4>2, <4>3
    <3>8. ASSUME NEW x PROVE Times(u, x) = Times(<<e>>, x) + Times(v, x)
      <4>1. PICK o \in Seq(RateLimit) : o = <<e>>
        <5>1. <<e>> \in Seq(RateLimit)
          OBVIOUS
        <5> QED BY <5>1
      <4>2. Times(o \o v, x) = Times(o, x) + Times(v, x)
        BY TimesConcat
      <4> QED BY <3>4, <4>1, <4>2
    <3> QED BY <3>2, <3>3, <3>4, <3>6, <3>7, <3>8
  <2>4. PICK e \in RateLimit, v \in Seq(RateLimit) :
                  /\ s = <<e>> \o v /\ Len(v) = n /\ Ordered(v) /\ e = s[1]
                  /\ \A y \in Range(s) : Less(e, y)
                  /\ \A x : Times(s, x) = Times(<<e>>, x) + Times(v, x)
    BY <2>3
  <2>5. PICK c \in RateLimit, w \in Seq(RateLimit) :
                  /\ t = <<c>> \o w /\ Len(w) = m /\ Ordered(w) /\ c = t[1]
                  /\ \A y \in Range(t) : Less(c, y)
                  /\ \A x : Times(t, x) = Times(<<c>>, x) + Times(w, x)
    BY <2>2, <2>3
  <2>6. e \in Range(s) /\ c \in Range(t)
    <3>1. 1 \in DOMAIN s /\ 1 \in DOMAIN t
      BY <2>2
    <3> QED BY <2>4, <2>5, <3>1 DEF Range
  <2>7. e = c
    BY <2>1, <2>4, <2>5, <2>6, LessAntisymmetric
  <2>8. ASSUME NEW x PROVE Times(v, x) = Times(w, x)
    <3>1. Times(v, x) \in Nat /\ Times(w, x) \in Nat
      BY TimesFinite
    <3>2. PICK p \in Nat, q \in Nat, o \in Nat : p = Times(v, x) /\ q = Times(w, x) /\ o = Times(<<e>>, x)
      BY <3>1, TimesOne
    <3>3. o + p = o + q
      BY <2>4, <2>5, <2>7, <3>2
    <3> QED BY <3>2, <3>3
  <2>9. v = w
    BY <1>3, <2>4, <2>5, <2>8
  <2> QED BY <2>4, <2>5, <2>7, <2>9
<1> HIDE DEF Good
<1>4. 0 \in S /\ \A n \in Nat : n \in S => n + 1 \in S
  BY <1>2, <1>3
<1> HIDE DEF S
<1>5. \A n \in Nat : n \in S
  BY <1>4, Induction
<1>6. Good(Len(a))
  BY <1>5 DEF S
<1> QED BY <1>6 DEF Good

\* Less leaves one order only: whichever algorithm sort.Sort takes for a list of
\* some length, a list it has put in order is the one Sort computes.
THEOREM SortIsTheOrder ==
    ASSUME NEW list \in Seq(RateLimit), NEW s \in Seq(RateLimit), Ordered(s),
           \A x : Times(s, x) = Times(list, x)
    PROVE  s = Sort(list)
  BY SortFacts, OrderedSame

\* Lists with the same limits equally often are sorted alike.
LEMMA TimesTellLength ==
    ASSUME NEW a \in Seq(RateLimit), NEW b \in Seq(RateLimit), \A x : Times(a, x) = Times(b, x)
    PROVE  Sort(a) = Sort(b) /\ Len(a) = Len(b)
<1>1. Sort(a) = Sort(b)
  BY SortFacts, OrderedSame
<1> QED BY <1>1, SortFacts

\* SameLimitList is equality up to order, duplicates counted.
THEOREM SameLimitListExact ==
    ASSUME NEW a \in Seq(RateLimit), NEW b \in Seq(RateLimit)
    PROVE  SameLimitListIsBagEquality(a, b)
<1>1. ASSUME SameLimitList(a, b), NEW x PROVE Times(a, x) = Times(b, x)
  BY <1>1, SortFacts DEF SameLimitList
<1>2. ASSUME \A x : Times(a, x) = Times(b, x) PROVE SameLimitList(a, b)
  BY <1>2, TimesTellLength DEF SameLimitList
<1> QED BY <1>1, <1>2, BagsByTimes DEF SameLimitListIsBagEquality

-----------------------------------------------------------------------------
(* The index of the limits.                                                *)

Entry(key, d, x) == [namespace |-> MarshallNamespace(key, d), limit |-> x]

\* What the Limitador object lists.
Entries == {Entry(key, d, l) : key \in Keys, d \in Domains, l \in RateLimit} \cup Foreign

Index == [Keys -> [Domains -> Seq(RateLimit)]]

\* An entry tells gateway, domain and limit.
LEMMA EntriesDiffer ==
    ASSUME NEW key, NEW d, NEW x, NEW other, NEW e, NEW y, Entry(key, d, x) = Entry(other, e, y)
    PROVE  key = other /\ d = e /\ x = y
<1>1. Entry(key, d, x).limit = x /\ Entry(other, e, y).limit = y
  BY DEF Entry
<1>2. Entry(key, d, x).namespace = <<key, <<d>>>> /\ Entry(other, e, y).namespace = <<other, <<e>>>>
  BY DEF Entry, MarshallNamespace
<1>3. <<key, <<d>>>> = <<other, <<e>>>>
  BY <1>2
<1>4. key = other /\ <<d>> = <<e>>
  BY <1>3
<1>5. d = e
  <2>1. <<d>>[1] = d /\ <<e>>[1] = e
    OBVIOUS
  <2> QED BY <1>4, <2>1
<1> QED BY <1>1, <1>4, <1>5

\* What MarshallNamespace encodes is what the index reads back.
LEMMA NamespacesParse ==
    ASSUME NEW key \in Keys, NEW d, NEW ns, ns = MarshallNamespace(key, d)
    PROVE  Unmarshalls(ns) /\ UnMarshallObjectKey(ns[1]) = key /\ ns[2][1] = d
<1>1. ns = <<key, <<d>>>>
  BY DEF MarshallNamespace
<1>2. Len(ns) = 2 /\ ns[1] = key /\ ns[2] = <<d>>
  BY <1>1
<1>3. <<d>>[1] = d
  OBVIOUS
<1>4. PICK a, b : key = <<a, b>>
  BY LimitIndexAssumption
<1>5. Len(key) = 2 /\ key \in Seq({a, b})
  BY <1>4
<1>6. SubSeq(key, 1, Len(key)) = key
  BY <1>5, SubSeqFull
<1> QED BY <1>2, <1>3, <1>5, <1>6 DEF Unmarshalls, UnMarshallObjectKey

\* An entry adds its limit to its gateway and domain, a foreign one nothing.
LEMMA AddedFromRateLimit ==
    ASSUME NEW idx \in Index, NEW rl \in Entries, NEW r, r = AddLimitFromRateLimit(idx, rl)
    PROVE  /\ r \in Index
           /\ \A key \in Keys, d \in Domains : \A x :
                 Times(r[key][d], x) = Times(idx[key][d], x) + Times(<<rl>>, Entry(key, d, x))
<1>1. CASE rl \in Foreign
  <2>1. ~Unmarshalls(rl.namespace)
    BY <1>1, LimitIndexAssumption
  <2>2. r = idx
    BY <2>1 DEF AddLimitFromRateLimit
  <2>3. ASSUME NEW key \in Keys, NEW d \in Domains, NEW x
        PROVE  Times(<<rl>>, Entry(key, d, x)) = 0 /\ Times(idx[key][d], x) \in Nat
    <3>1. Entry(key, d, x).namespace = MarshallNamespace(key, d)
      BY DEF Entry
    <3>2. rl # Entry(key, d, x)
      BY <2>1, <3>1, NamespacesParse
    <3>3. idx[key][d] \in Seq(RateLimit)
      BY DEF Index
    <3> QED BY <3>2, <3>3, TimesOne, TimesFinite
  <2> QED BY <2>2, <2>3
<1>2. CASE rl \notin Foreign
  <2>1. PICK k \in Keys, e \in Domains, l \in RateLimit : rl = Entry(k, e, l)
    BY <1>2 DEF Entries
  <2>2. rl.namespace = MarshallNamespace(k, e) /\ rl.limit = l
    BY <2>1 DEF Entry
  <2>3. r = AddLimit(idx, k, e, l)
    BY <2>2, NamespacesParse DEF AddLimitFromRateLimit
  <2>4. PICK s \in Seq(RateLimit) : s = idx[k][e]
    BY DEF Index
  <2>5. PICK t \in Seq(RateLimit) : t = Append(s, l)
    <3>1. Append(s, l) \in Seq(RateLimit)
      BY AppendProperties
    <3> QED BY <3>1
  <2>6. r = [idx EXCEPT ![k] = [idx[k] EXCEPT ![e] = t]]
    BY <2>3, <2>4, <2>5 DEF AddLimit, Index
  <2>7. r \in Index
    BY <2>6 DEF Index
  <2>8. ASSUME NEW key \in Keys, NEW d \in Domains, NEW x
        PROVE  Times(r[key][d], x) = Times(idx[key][d], x) + Times(<<rl>>, Entry(key, d, x))
    <3>1. idx[key][d] \in Seq(RateLimit)
      BY DEF Index
    <3>2. Times(idx[key][d], x) \in Nat
      BY <3>1, TimesFinite
    <3>3. CASE key = k /\ d = e
      <4>1. r[key][d] = t /\ idx[key][d] = s
        BY <2>4, <2>6, <3>3 DEF Index
      <4>2. t = s \o <<l>>
        BY <2>5, AppendIsConcat
      <4>3. PICK o \in Seq(RateLimit) : o = <<l>>
        <5>1. <<l>> \in Seq(RateLimit)
          OBVIOUS
        <5> QED BY <5>1
      <4>4. Times(s \o o, x) = Times(s, x) + Times(o, x)
        BY TimesConcat
      <4>5. rl = Entry(key, d, x) <=> l = x
        BY <2>1, <3>3, EntriesDiffer
      <4>6. Times(o, x) = Times(<<rl>>, Entry(key, d, x))
        BY <4>3, <4>5, TimesOne
      <4> QED BY <4>1, <4>2, <4>3, <4>4, <4>6
    <3>4. CASE ~(key = k /\ d = e)
      <4>1. r[key][d] = idx[key][d]
        BY <2>6, <3>4 DEF Index
      <4>2. rl # Entry(key, d, x)
        BY <2>1, <3>4, EntriesDiffer
      <4>3. Times(<<rl>>, Entry(key, d, x)) = 0
        BY <4>2, TimesOne
      <4> QED BY <3>2, <4>1, <4>3
    <3> QED BY <3>3, <3>4
  <2> QED BY <2>7, <2>8
<1> QED BY <1>1, <1>2

\* The empty index is an index.
LEMMA EmptyIndexType ==
    /\ EmptyIndex \in Index
    /\ \A key \in Keys, d \in Domains : EmptyIndex[key][d] = << >>
<1>1. \A d \in Domains : NoLimitsByDomain[d] = << >>
  BY DEF NoLimitsByDomain
<1>2. NoLimitsByDomain \in [Domains -> Seq(RateLimit)]
  BY DEF NoLimitsByDomain
<1> QED BY <1>1, <1>2 DEF EmptyIndex, Index

\* NewLimitadorIndex adds the listed limits one after the other.
LEMMA IndexSteps ==
    ASSUME NEW list \in Seq(Entries), NEW N \in Nat, Len(list) = N
    PROVE  \E h : /\ h[0] = EmptyIndex /\ h[N] = NewLimitadorIndex(list)
                  /\ \A n \in Nat : n < N => h[n + 1] = AddLimitFromRateLimit(h[n], list[n + 1])
<1> DEFINE Fold(f) == f = [s \in SUBSET (DOMAIN list) |->
                             IF s = {} THEN EmptyIndex
                             ELSE AddLimitFromRateLimit(f[s \ {Max(s)}], list[Max(s)])]
           step == [p \in (1..N) \X Index |-> AddLimitFromRateLimit(p[2], list[p[1]])]
<1>1. NewLimitadorIndex(list) = (CHOOSE f : Fold(f))[DOMAIN list]
  BY Zenon DEF NewLimitadorIndex, FoldLeft, MapThenFoldSet
<1>2. DOMAIN list = 1..N /\ EmptyIndex \in Index
  BY EmptyIndexType
<1>3. step \in [(1..N) \X Index -> Index]
  <2>1. ASSUME NEW p \in (1..N) \X Index PROVE AddLimitFromRateLimit(p[2], list[p[1]]) \in Index
    <3>1. p[2] \in Index /\ list[p[1]] \in Entries
      OBVIOUS
    <3> QED BY <3>1, AddedFromRateLimit
  <2> QED BY <2>1
<1>4. PICK f \in [SUBSET (1..N) -> Index] : \A s \in SUBSET (1..N) :
              f[s] = IF s = {} THEN EmptyIndex ELSE step[<<Max(s), f[s \ {Max(s)}]>>]
  <2> HIDE DEF step
  <2>1. \E f : FoldOf(f, N, Index, EmptyIndex, step)
    BY <1>2, <1>3, FoldExists, Zenon
  <2> QED BY <2>1, Zenon DEF FoldOf
<1>5. Fold(f)
  <2>1. ASSUME NEW s \in SUBSET (1..N), s # {}
        PROVE  f[s] = AddLimitFromRateLimit(f[s \ {Max(s)}], list[Max(s)])
    <3>1. s \in SUBSET (0..N)
      OBVIOUS
    <3>2. Max(s) \in s
      BY <2>1, <3>1, GreatestNumber
    <3>3. PICK m \in 1..N, t \in SUBSET (1..N) : m = Max(s) /\ t = s \ {Max(s)}
      BY <3>2
    <3>4. f[t] \in Index
      OBVIOUS
    <3>5. step[<<m, f[t]>>] = AddLimitFromRateLimit(f[t], list[m])
      BY <3>4
    <3> HIDE DEF step
    <3> QED BY <1>4, <2>1, <3>3, <3>5
  <2>2. f = [s \in SUBSET (1..N) |-> f[s]]
    OBVIOUS
  <2>3. \A s \in SUBSET (1..N) :
            f[s] = IF s = {} THEN EmptyIndex
                   ELSE AddLimitFromRateLimit(f[s \ {Max(s)}], list[Max(s)])
    BY <1>4, <2>1
  <2>4. f = [s \in SUBSET (1..N) |->
               IF s = {} THEN EmptyIndex
               ELSE AddLimitFromRateLimit(f[s \ {Max(s)}], list[Max(s)])]
    BY <2>2, <2>3
  <2> QED BY <1>2, <2>4
<1> HIDE DEF Fold
<1>6. PICK g : g = CHOOSE k : Fold(k)
  OBVIOUS
<1>7. Fold(g)
  BY <1>5, <1>6
<1>8. g = [s \in SUBSET (1..N) |->
             IF s = {} THEN EmptyIndex
             ELSE AddLimitFromRateLimit(g[s \ {Max(s)}], list[Max(s)])]
  BY <1>2, <1>7 DEF Fold
<1> DEFINE h == [n \in 0..N |-> g[1..n]]
<1>9. h[0] = EmptyIndex
  <2>1. 1..0 = {} /\ {} \in SUBSET (1..N) /\ 0 \in 0..N
    OBVIOUS
  <2>2. g[{}] = EmptyIndex
    BY <1>8, <2>1
  <2> QED BY <2>1, <2>2
<1>10. h[N] = NewLimitadorIndex(list)
  BY <1>1, <1>2, <1>6
<1>11. ASSUME NEW n \in Nat, n < N PROVE h[n + 1] = AddLimitFromRateLimit(h[n], list[n + 1])
  <2>1. n + 1 \in 0..N /\ n \in 0..N /\ 1..(n + 1) \in SUBSET (1..N)
    BY <1>11
  <2>2. PICK s \in SUBSET (1..N) : s = 1..(n + 1)
    BY <2>1
  <2>3. s # {} /\ Max(s) = n + 1 /\ s \ {n + 1} = 1..n
    BY <2>2, Initials
  <2>4. g[s] = IF s = {} THEN EmptyIndex
               ELSE AddLimitFromRateLimit(g[s \ {Max(s)}], list[Max(s)])
    BY <1>8
  <2>5. g[s] = AddLimitFromRateLimit(g[1..n], list[n + 1])
    BY <2>3, <2>4
  <2>6. h[n + 1] = g[s] /\ h[n] = g[1..n]
    BY <2>1, <2>2
  <2> QED BY <2>5, <2>6
<1> QED BY <1>9, <1>10, <1>11

\* The index has a limit of a gateway and domain as often as it is listed.
LEMMA IndexCounts ==
    ASSUME NEW list \in Seq(Entries)
    PROVE  /\ NewLimitadorIndex(list) \in Index
           /\ \A key \in Keys, d \in Domains : \A x :
                 Times(NewLimitadorIndex(list)[key][d], x) = Times(list, Entry(key, d, x))
<1>1. PICK N \in Nat : Len(list) = N
  OBVIOUS
<1>2. PICK h : /\ h[0] = EmptyIndex /\ h[N] = NewLimitadorIndex(list)
               /\ \A n \in Nat : n < N => h[n + 1] = AddLimitFromRateLimit(h[n], list[n + 1])
  BY <1>1, IndexSteps
<1> DEFINE Good(n) == n <= N => /\ h[n] \in Index
                                /\ \A key \in Keys, d \in Domains : \A x :
                                      Times(h[n][key][d], x)
                                          = Times(SubSeq(list, 1, n), Entry(key, d, x))
           S == {n \in Nat : Good(n)}
<1>3. Good(0)
  <2>1. \A x : Times(SubSeq(list, 1, 0), x) = 0
    BY <1>1, PrefixEnds
  <2> QED BY <1>2, <2>1, EmptyIndexType, TimesEmpty
<1>4. ASSUME NEW n \in Nat, Good(n) PROVE Good(n + 1)
  <2> SUFFICES ASSUME n + 1 <= N
               PROVE  /\ h[n + 1] \in Index
                      /\ \A key \in Keys, d \in Domains : \A x :
                            Times(h[n + 1][key][d], x)
                                = Times(SubSeq(list, 1, n + 1), Entry(key, d, x))
    OBVIOUS
  <2>1. n < N /\ n <= N
    OBVIOUS
  <2>2. PICK idx \in Index : /\ idx = h[n]
                             /\ \A key \in Keys, d \in Domains : \A x :
                                   Times(idx[key][d], x) = Times(SubSeq(list, 1, n), Entry(key, d, x))
    BY <1>4, <2>1
  <2>3. PICK rl \in Entries : rl = list[n + 1]
    BY <1>1, <2>1
  <2>4. PICK r : r = AddLimitFromRateLimit(idx, rl) /\ r = h[n + 1]
    BY <1>2, <2>1, <2>2, <2>3
  <2>5. /\ r \in Index
        /\ \A key \in Keys, d \in Domains : \A x :
              Times(r[key][d], x) = Times(idx[key][d], x) + Times(<<rl>>, Entry(key, d, x))
    <3>1. r = AddLimitFromRateLimit(idx, rl)
      BY <2>4
    <3>2. r \in Index
      BY <3>1, AddedFromRateLimit
    <3>3. ASSUME NEW key \in Keys, NEW d \in Domains, NEW x
          PROVE  Times(r[key][d], x) = Times(idx[key][d], x) + Times(<<rl>>, Entry(key, d, x))
      BY <3>1, AddedFromRateLimit
    <3> QED BY <3>2, <3>3
  <2>6. \A x : Times(SubSeq(list, 1, n + 1), x) = Times(SubSeq(list, 1, n), x) + Times(<<rl>>, x)
    BY <1>1, <2>1, <2>3, PrefixTimes
  <2> QED BY <2>2, <2>4, <2>5, <2>6
<1> HIDE DEF Good
<1>5. 0 \in S /\ \A n \in Nat : n \in S => n + 1 \in S
  BY <1>3, <1>4
<1> HIDE DEF S
<1>6. \A n \in Nat : n \in S
  BY <1>5, Induction
<1>7. Good(N) /\ N <= N
  BY <1>6 DEF S
<1>8. SubSeq(list, 1, N) = list
  BY <1>1, PrefixEnds
<1> QED BY <1>2, <1>7, <1>8 DEF Good

\* FlattenSeq puts the lists one after the other.
LEMMA FlattenSteps ==
    ASSUME NEW S, NEW ss \in Seq(Seq(S)), NEW N \in Nat, Len(ss) = N
    PROVE  \E h : /\ h[0] = << >> /\ h[N] = FlattenSeq(ss)
                  /\ \A n \in Nat : n < N => h[n + 1] = h[n] \o ss[n + 1]
<1>1. CASE N = 0
  <2>1. ss = << >> /\ FlattenSeq(ss) = << >>
    BY <1>1 DEF FlattenSeq
  <2> DEFINE h == [n \in {0} |-> << >>]
  <2>2. h[0] = << >> /\ h[N] = FlattenSeq(ss) /\ \A n \in Nat : ~(n < N)
    BY <1>1, <2>1
  <2> QED BY <2>2
<1>2. CASE N # 0
  <2> DEFINE A == Seq(S)
             Flat(f) == f = [i \in 1..Len(ss) |-> IF i = 1 THEN ss[i] ELSE f[i - 1] \o ss[i]]
             step == [p \in (1..N) \X A |-> p[2] \o ss[p[1]]]
  <2>1. FlattenSeq(ss) = (CHOOSE f : Flat(f))[N]
    <3>1. Len(ss) # 0
      BY <1>2
    <3>2. FlattenSeq(ss) = (CHOOSE f : Flat(f))[Len(ss)]
      BY <3>1, Zenon DEF FlattenSeq
    <3> QED BY <3>2
  <2>2. step \in [(1..N) \X A -> A] /\ << >> \in A
    <3>1. ASSUME NEW p \in (1..N) \X A PROVE p[2] \o ss[p[1]] \in A
      <4>1. p[2] \in A /\ ss[p[1]] \in A
        OBVIOUS
      <4> QED BY <4>1
    <3> QED BY <3>1
  <2>3. PICK f \in [SUBSET (1..N) -> A] : \A s \in SUBSET (1..N) :
              f[s] = IF s = {} THEN << >> ELSE step[<<Max(s), f[s \ {Max(s)}]>>]
    <3> HIDE DEF step, A
    <3>1. \E f : FoldOf(f, N, A, << >>, step)
      BY <2>2, FoldExists, Zenon
    <3> QED BY <3>1, Zenon DEF FoldOf
  <2>4. f[{}] = << >>
    BY <2>3
  <2>5. ASSUME NEW n \in Nat, n < N PROVE f[1..(n + 1)] = f[1..n] \o ss[n + 1]
    <3>1. PICK s \in SUBSET (1..N), t \in SUBSET (1..N) : s = 1..(n + 1) /\ t = 1..n
      BY <2>5
    <3>2. s # {} /\ Max(s) = n + 1 /\ s \ {n + 1} = t
      BY <3>1, Initials
    <3>3. f[s] = step[<<n + 1, f[t]>>]
      <4> HIDE DEF step, A
      <4> QED BY <2>3, <3>2
    <3>4. n + 1 \in 1..N /\ f[t] \in A
      BY <2>5
    <3>5. step[<<n + 1, f[t]>>] = f[t] \o ss[n + 1]
      <4> HIDE DEF A
      <4> QED BY <3>4
    <3> QED BY <3>1, <3>3, <3>5
  <2> DEFINE e == [i \in 1..N |-> f[1..i]]
  <2>6. Flat(e)
    <3>1. ASSUME NEW i \in 1..N PROVE e[i] = IF i = 1 THEN ss[i] ELSE e[i - 1] \o ss[i]
      <4>1. PICK n \in Nat : i = n + 1 /\ n < N
        <5>1. i - 1 \in Nat /\ i = (i - 1) + 1 /\ i - 1 < N
          OBVIOUS
        <5> QED BY <5>1
      <4>2. e[i] = f[1..n] \o ss[i]
        BY <2>5, <4>1
      <4>3. CASE i = 1
        <5>1. 1..n = {} /\ ss[i] \in Seq(S)
          BY <4>1, <4>3
        <5>2. << >> \o ss[i] = ss[i]
          BY <5>1, ConcatEmptySeq
        <5> QED BY <2>4, <4>2, <4>3, <5>1, <5>2
      <4>4. CASE i # 1
        <5>1. n \in 1..N /\ n = i - 1
          BY <4>1, <4>4
        <5> QED BY <4>2, <4>4, <5>1
      <4> QED BY <4>3, <4>4
    <3>2. e = [i \in 1..N |-> e[i]]
      OBVIOUS
    <3> HIDE DEF e
    <3>3. e = [i \in 1..N |-> IF i = 1 THEN ss[i] ELSE e[i - 1] \o ss[i]]
      BY <3>1, <3>2
    <3> QED BY <3>3
  <2> HIDE DEF Flat
  <2>7. PICK g : g = CHOOSE k : Flat(k)
    OBVIOUS
  <2>8. Flat(g)
    BY <2>6, <2>7
  <2>9. g = [i \in 1..N |-> IF i = 1 THEN ss[i] ELSE g[i - 1] \o ss[i]]
    BY <2>8 DEF Flat
  <2> DEFINE h == [n \in 0..N |-> IF n = 0 THEN << >> ELSE g[n]]
  <2>10. h[0] = << >> /\ h[N] = FlattenSeq(ss)
    BY <1>2, <2>1, <2>7
  <2>11. ASSUME NEW n \in Nat, n < N PROVE h[n + 1] = h[n] \o ss[n + 1]
    <3>1. n + 1 \in 1..N /\ n + 1 \in 0..N /\ n \in 0..N /\ n + 1 # 0 /\ (n + 1) - 1 = n
      BY <2>11
    <3>2. h[n + 1] = g[n + 1]
      BY <3>1
    <3>3. g[n + 1] = IF n + 1 = 1 THEN ss[n + 1] ELSE g[n] \o ss[n + 1]
      BY <2>9, <3>1
    <3>4. CASE n = 0
      <4>1. ss[n + 1] \in Seq(S)
        BY <3>1
      <4>2. << >> \o ss[n + 1] = ss[n + 1]
        BY <4>1, ConcatEmptySeq
      <4>3. h[n] = << >> /\ n + 1 = 1
        BY <3>1, <3>4
      <4> QED BY <3>2, <3>3, <4>2, <4>3
    <3>5. CASE n # 0
      <4>1. h[n] = g[n] /\ n + 1 # 1
        BY <3>1, <3>5
      <4> QED BY <3>2, <3>3, <4>1
    <3> QED BY <3>4, <3>5
  <2> QED BY <2>10, <2>11
<1> QED BY <1>1, <1>2

\* Of the first n lists of ss only number p may have x.
OnlyIn(ss, n, p, x) == \A i \in 1..n : i # p => Times(ss[i], x) = 0

\* What only one of the lists has is in all of them together as often as there.
LEMMA FlattenTimes ==
    ASSUME NEW S, NEW ss \in Seq(Seq(S)), NEW N \in Nat, Len(ss) = N, NEW p \in 0..N, NEW x,
           OnlyIn(ss, N, p, x)
    PROVE  /\ FlattenSeq(ss) \in Seq(S)
           /\ Times(FlattenSeq(ss), x) = IF p = 0 THEN 0 ELSE Times(ss[p], x)
<1>1. PICK h : /\ h[0] = << >> /\ h[N] = FlattenSeq(ss)
               /\ \A n \in Nat : n < N => h[n + 1] = h[n] \o ss[n + 1]
  BY FlattenSteps
<1> DEFINE Good(n) == n <= N => /\ h[n] \in Seq(S)
                                /\ Times(h[n], x) = IF 1 <= p /\ p <= n THEN Times(ss[p], x) ELSE 0
           T == {n \in Nat : Good(n)}
<1>2. Good(0)
  <2>1. << >> \in Seq(S) /\ ~(1 <= p /\ p <= 0)
    OBVIOUS
  <2> QED BY <1>1, <2>1, TimesEmpty
<1>3. ASSUME NEW n \in Nat, Good(n) PROVE Good(n + 1)
  <2> SUFFICES ASSUME n + 1 <= N
               PROVE  /\ h[n + 1] \in Seq(S)
                      /\ Times(h[n + 1], x) = IF 1 <= p /\ p <= n + 1 THEN Times(ss[p], x) ELSE 0
    OBVIOUS
  <2>1. n < N /\ n <= N /\ n + 1 \in 1..N
    OBVIOUS
  <2>2. PICK s \in Seq(S) : s = h[n] /\ Times(s, x) = IF 1 <= p /\ p <= n THEN Times(ss[p], x) ELSE 0
    BY <1>3, <2>1
  <2>3. PICK t \in Seq(S) : t = ss[n + 1]
    BY <2>1
  <2>4. h[n + 1] = s \o t
    BY <1>1, <2>1, <2>2, <2>3
  <2>5. s \o t \in Seq(S) /\ Times(s \o t, x) = Times(s, x) + Times(t, x)
    BY TimesConcat
  <2>6. Times(s, x) \in Nat /\ Times(t, x) \in Nat
    BY TimesFinite
  <2>7. CASE p = n + 1
    <3>1. ~(1 <= p /\ p <= n) /\ 1 <= p /\ p <= n + 1
      BY <2>7
    <3>2. Times(s, x) = 0 /\ Times(t, x) = Times(ss[p], x)
      BY <2>2, <2>3, <2>7, <3>1
    <3>3. Times(s \o t, x) = Times(ss[p], x)
      BY <2>5, <2>6, <3>2
    <3> QED BY <2>4, <2>5, <3>1, <3>3
  <2>8. CASE p # n + 1
    <3>1. (1 <= p /\ p <= n) <=> (1 <= p /\ p <= n + 1)
      BY <2>8
    <3>2. Times(t, x) = 0
      BY <2>1, <2>3, <2>8 DEF OnlyIn
    <3>3. Times(s \o t, x) = Times(s, x)
      BY <2>5, <2>6, <3>2
    <3> QED BY <2>2, <2>4, <2>5, <3>1, <3>3
  <2> QED BY <2>7, <2>8
<1> HIDE DEF Good
<1>4. 0 \in T /\ \A n \in Nat : n \in T => n + 1 \in T
  BY <1>2, <1>3
<1> HIDE DEF T
<1>5. \A n \in Nat : n \in T
  BY <1>4, Induction
<1>6. Good(N) /\ N <= N
  BY <1>5 DEF T
<1>7. (1 <= p /\ p <= N) <=> p # 0
  OBVIOUS
<1> QED BY <1>1, <1>6, <1>7 DEF Good

\* The list f of S has y in place p of n, and nowhere else.
OnceIn(f, S, y, n, p) ==
    /\ n \in Nat /\ p \in 1..n /\ DOMAIN f = 1..n
    /\ \A i \in 1..n : f[i] \in S
    /\ f[p] = y /\ \A i \in 1..n : i # p => f[i] # y

\* A list of a set has every element in one place.
LEMMA SetListed ==
    ASSUME NEW S, IsFiniteSet(S), NEW f \in SetToSeqs(S), NEW y \in S
    PROVE  \E n, p : OnceIn(f, S, y, n, p)
<1>1. PICK N \in Nat : N = Cardinality(S)
  BY FS_CardinalityType
<1>2. f \in [1..N -> S] /\ \A i, j \in 1..N : i # j => f[i] # f[j]
  BY <1>1 DEF SetToSeqs
<1>3. f \in Injection(1..N, S)
  BY <1>2 DEF Injection, IsInjective
<1>4. IsFiniteSet(1..N) /\ Cardinality(1..N) = N
  <2>1. Cardinality(1..N) = IF 1 > N THEN 0 ELSE N - 1 + 1
    BY FS_Interval
  <2>2. (IF 1 > N THEN 0 ELSE N - 1 + 1) = N
    OBVIOUS
  <2> QED BY <2>1, <2>2, FS_Interval
<1>5. f \in Surjection(1..N, S)
  BY <1>1, <1>3, <1>4, FS_Injection
<1>6. PICK p \in 1..N : f[p] = y
  BY <1>5 DEF Surjection
<1>7. OnceIn(f, S, y, N, p)
  BY <1>2, <1>6 DEF OnceIn
<1> QED BY <1>7

\* FlattenSeq of lists is a list.
LEMMA FlattenType ==
    ASSUME NEW S, NEW ss \in Seq(Seq(S))
    PROVE  FlattenSeq(ss) \in Seq(S)
<1>1. PICK N \in Nat : Len(ss) = N
  OBVIOUS
<1>2. PICK h : /\ h[0] = << >> /\ h[N] = FlattenSeq(ss)
               /\ \A n \in Nat : n < N => h[n + 1] = h[n] \o ss[n + 1]
  BY <1>1, FlattenSteps
<1> DEFINE T == {n \in Nat : n <= N => h[n] \in Seq(S)}
<1>3. 0 \in T
  <2>1. << >> \in Seq(S)
    OBVIOUS
  <2> QED BY <1>2, <2>1
<1>4. ASSUME NEW n \in Nat, n \in T PROVE n + 1 \in T
  <2> SUFFICES ASSUME n + 1 <= N PROVE h[n + 1] \in Seq(S)
    OBVIOUS
  <2>1. n < N /\ n <= N /\ n + 1 \in 1..N
    OBVIOUS
  <2>2. PICK s \in Seq(S), t \in Seq(S) : s = h[n] /\ t = ss[n + 1]
    BY <1>1, <1>4, <2>1
  <2>3. s \o t \in Seq(S)
    OBVIOUS
  <2> QED BY <1>2, <2>1, <2>2, <2>3
<1>5. \A n \in Nat : n \in T
  <2> HIDE DEF T
  <2> QED BY <1>3, <1>4, Induction
<1> QED BY <1>2, <1>5

\* A list of a set lists elements of the set.
LEMMA SetList ==
    ASSUME NEW S, IsFiniteSet(S), NEW f \in SetToSeqs(S)
    PROVE  \E N \in Nat : DOMAIN f = 1..N /\ \A i \in 1..N : f[i] \in S
<1>1. PICK N \in Nat : N = Cardinality(S)
  BY FS_CardinalityType
<1>2. f \in [1..N -> S]
  BY <1>1 DEF SetToSeqs
<1> QED BY <1>2

\* The entries of a gateway and domain.
LEMMA RateLimitsTimes ==
    ASSUME NEW idx \in Index, NEW key \in Keys, NEW d \in Domains, NEW r, r = RateLimits(idx, key, d)
    PROVE  /\ r \in Seq(Entries)
           /\ \A k, e, x : Times(r, Entry(k, e, x)) =
                              IF k = key /\ e = d THEN Times(idx[key][d], x) ELSE 0
<1>1. PICK s \in Seq(RateLimit) : s = idx[key][d]
  BY DEF Index
<1>2. PICK n \in Nat : Len(s) = n /\ DOMAIN s = 1..n
  OBVIOUS
<1>3. r = [i \in 1..n |-> Entry(key, d, s[i])]
  BY <1>1, <1>2 DEF RateLimits, Entry
<1>4. \A i \in 1..n : Entry(key, d, s[i]) \in Entries
  <2>1. \A i \in 1..n : s[i] \in RateLimit
    BY <1>2
  <2> QED BY <2>1 DEF Entries
<1>5. r \in Seq(Entries) /\ DOMAIN r = 1..n /\ \A i \in 1..n : r[i] = Entry(key, d, s[i])
  BY <1>3, <1>4, IsASeq
<1>6. ASSUME NEW k, NEW e, NEW x
      PROVE  Times(r, Entry(k, e, x)) = IF k = key /\ e = d THEN Times(s, x) ELSE 0
  <2>1. CASE k = key /\ e = d
    <3>1. \A i \in 1..n : r[i] = Entry(k, e, x) <=> s[i] = x
      BY <1>5, <2>1, EntriesDiffer
    <3>2. {i \in DOMAIN r : r[i] = Entry(k, e, x)} = {i \in DOMAIN s : s[i] = x}
      BY <1>2, <1>5, <3>1
    <3> QED BY <2>1, <3>2 DEF Times
  <2>2. CASE ~(k = key /\ e = d)
    <3>1. \A i \in DOMAIN r : r[i] # Entry(k, e, x)
      BY <1>5, <2>2, EntriesDiffer
    <3> QED BY <1>5, <2>2, <3>1, TimesZero
  <2> QED BY <2>1, <2>2
<1> QED BY <1>1, <1>5, <1>6

\* The entries of a gateway, by domain in the order ds, and of all gateways, in
\* the order ks.
Rows(idx, ds, k) == [j \in DOMAIN ds[k] |-> RateLimits(idx, k, ds[k][j])]

Blocks(idx, ks, ds) == [i \in DOMAIN ks |-> FlattenSeq(Rows(idx, ds, ks[i]))]

\* The list of the index has every limit as often as the index, in whatever
\* order the gateways and domains come.
LEMMA ToLimitsCounts ==
    ASSUME NEW idx \in Index, NEW list \in ToLimits(idx)
    PROVE  /\ list \in Seq(Entries)
           /\ \A key \in Keys, d \in Domains : \A x :
                 Times(list, Entry(key, d, x)) = Times(idx[key][d], x)
<1>1. PICK ks \in SetToSeqs(Keys), ds \in [Keys -> SetToSeqs(Domains)] :
         list = FlattenSeq(Blocks(idx, ks, ds))
  <2>1. \E ks \in SetToSeqs(Keys), ds \in [Keys -> SetToSeqs(Domains)] :
           list = LimitsInOrder(idx, ks, ds)
    BY DEF ToLimits
  <2>2. \A ks, ds : LimitsInOrder(idx, ks, ds) = FlattenSeq(Blocks(idx, ks, ds))
    BY Zenon DEF LimitsInOrder, Blocks, Rows
  <2> QED BY <2>1, <2>2
<1>2. IsFiniteSet(Keys) /\ IsFiniteSet(Domains)
  BY LimitIndexAssumption
<1>3. ASSUME NEW k \in Keys PROVE Rows(idx, ds, k) \in Seq(Seq(Entries))
  <2>1. PICK f \in SetToSeqs(Domains) : f = ds[k]
    OBVIOUS
  <2>2. PICK N \in Nat : DOMAIN f = 1..N /\ \A i \in 1..N : f[i] \in Domains
    BY <1>2, <2>1, SetList
  <2>3. \A j \in 1..N : RateLimits(idx, k, f[j]) \in Seq(Entries)
    BY <2>2, RateLimitsTimes
  <2>4. Rows(idx, ds, k) = [j \in 1..N |-> RateLimits(idx, k, f[j])]
    BY <2>1, <2>2 DEF Rows
  <2> QED BY <2>3, <2>4, IsASeq
<1>4. ASSUME NEW k \in Keys, NEW key \in Keys, NEW d \in Domains, NEW x
      PROVE  Times(FlattenSeq(Rows(idx, ds, k)), Entry(key, d, x)) =
                IF k = key THEN Times(idx[key][d], x) ELSE 0
  <2>1. PICK f \in SetToSeqs(Domains) : f = ds[k]
    OBVIOUS
  <2>2. PICK N \in Nat, p \in Nat : /\ p \in 1..N /\ DOMAIN f = 1..N
                                    /\ \A i \in 1..N : f[i] \in Domains
                                    /\ f[p] = d /\ \A i \in 1..N : i # p => f[i] # d
    <3>1. \E n, p : OnceIn(f, Domains, d, n, p)
      BY <1>2, SetListed
    <3> QED BY <3>1 DEF OnceIn
  <2>3. PICK rows \in Seq(Seq(Entries)) : rows = Rows(idx, ds, k)
    BY <1>3
  <2>4. rows = [j \in 1..N |-> RateLimits(idx, k, f[j])]
    BY <2>1, <2>2, <2>3 DEF Rows
  <2>5. Len(rows) = N /\ \A j \in 1..N : rows[j] = RateLimits(idx, k, f[j])
    BY <2>4
  <2>6. \A j \in 1..N : Times(rows[j], Entry(key, d, x)) =
                           IF key = k /\ d = f[j] THEN Times(idx[k][f[j]], x) ELSE 0
    BY <2>2, <2>5, RateLimitsTimes
  <2>7. \A j \in 1..N : j # p => Times(rows[j], Entry(key, d, x)) = 0
    BY <2>2, <2>6
  <2>8. p \in 0..N /\ p # 0
    BY <2>2
  <2>9. Times(FlattenSeq(rows), Entry(key, d, x)) = Times(rows[p], Entry(key, d, x))
    BY <2>5, <2>7, <2>8, FlattenTimes DEF OnlyIn
  <2>10. Times(rows[p], Entry(key, d, x)) = IF key = k THEN Times(idx[k][d], x) ELSE 0
    BY <2>2, <2>6
  <2> QED BY <2>3, <2>9, <2>10
<1>5. Blocks(idx, ks, ds) \in Seq(Seq(Entries))
  <2>1. PICK N \in Nat : DOMAIN ks = 1..N /\ \A i \in 1..N : ks[i] \in Keys
    BY <1>2, SetList
  <2>2. \A i \in 1..N : FlattenSeq(Rows(idx, ds, ks[i])) \in Seq(Entries)
    BY <1>3, <2>1, FlattenType
  <2>3. Blocks(idx, ks, ds) = [i \in 1..N |-> FlattenSeq(Rows(idx, ds, ks[i]))]
    BY <2>1 DEF Blocks
  <2> QED BY <2>2, <2>3, IsASeq
<1>6. ASSUME NEW key \in Keys, NEW d \in Domains, NEW x
      PROVE  Times(list, Entry(key, d, x)) = Times(idx[key][d], x)
  <2>1. PICK N \in Nat, p \in Nat : /\ p \in 1..N /\ DOMAIN ks = 1..N
                                    /\ \A i \in 1..N : ks[i] \in Keys
                                    /\ ks[p] = key /\ \A i \in 1..N : i # p => ks[i] # key
    <3>1. \E n, p : OnceIn(ks, Keys, key, n, p)
      BY <1>2, SetListed
    <3> QED BY <3>1 DEF OnceIn
  <2>2. PICK blocks \in Seq(Seq(Entries)) : blocks = Blocks(idx, ks, ds)
    BY <1>5
  <2>3. blocks = [i \in 1..N |-> FlattenSeq(Rows(idx, ds, ks[i]))]
    BY <2>1, <2>2 DEF Blocks
  <2>4. Len(blocks) = N /\ \A i \in 1..N : blocks[i] = FlattenSeq(Rows(idx, ds, ks[i]))
    BY <2>3
  <2>5. \A i \in 1..N : Times(blocks[i], Entry(key, d, x)) =
                           IF ks[i] = key THEN Times(idx[key][d], x) ELSE 0
    BY <1>4, <2>1, <2>4
  <2>6. \A i \in 1..N : i # p => Times(blocks[i], Entry(key, d, x)) = 0
    BY <2>1, <2>5
  <2>7. p \in 0..N /\ p # 0
    BY <2>1
  <2>8. Times(FlattenSeq(blocks), Entry(key, d, x)) = Times(blocks[p], Entry(key, d, x))
    <3>1. PICK z : z = Entry(key, d, x)
      OBVIOUS
    <3>2. OnlyIn(blocks, N, p, z) /\ Len(blocks) = N
      BY <2>4, <2>6, <3>1 DEF OnlyIn
    <3>3. p \in 0..N
      BY <2>7
    <3>4. Times(FlattenSeq(blocks), z) = IF p = 0 THEN 0 ELSE Times(blocks[p], z)
      BY <3>2, <3>3, FlattenTimes
    <3> QED BY <2>7, <3>1, <3>4
  <2>9. Times(blocks[p], Entry(key, d, x)) = Times(idx[key][d], x)
    BY <2>1, <2>5
  <2> QED BY <1>1, <2>2, <2>8, <2>9
<1>7. list \in Seq(Entries)
  BY <1>1, <1>5, FlattenType
<1> QED BY <1>6, <1>7

\* Lists of limits are compared right in every state.
THEOREM SameListsAreExact == Spec => []SameListsExactly
<1> DEFINE I == input \in NameInputs \cup RouteInputs \cup ListInputs \cup {[of |-> "index"]}
<1>1. Spec => []I
  BY InputsStay
<1>2. I => SameListsExactly
  <2> SUFFICES ASSUME I, input.of = "lists"
               PROVE  SameLimitListIsBagEquality(input.a, input.b)
    BY DEF SameListsExactly
  <2>1. input \in ListInputs
    BY DEF NameInputs, RouteInputs
  <2>2. input.a \in Seq(RateLimit) /\ input.b \in Seq(RateLimit)
    BY <2>1, AlgorithmsAssumption DEF ListInputs
  <2> QED BY <2>2, SameLimitListExact
<1> QED BY <1>1, <1>2, PTL

-----------------------------------------------------------------------------
(* The steps of the index.                                                 *)

\* Equals compares how often each limit is there.
LEMMA EqualsIsCount ==
    ASSUME NEW idx \in Index, NEW other \in Index
    PROVE  Equals(idx, other) <=>
              \A key \in Keys, d \in Domains : \A x :
                  Times(idx[key][d], x) = Times(other[key][d], x)
<1>1. ASSUME NEW key \in Keys, NEW d \in Domains
      PROVE  SameLimitList(idx[key][d], other[key][d]) <=>
                \A x : Times(idx[key][d], x) = Times(other[key][d], x)
  <2>1. PICK a \in Seq(RateLimit), b \in Seq(RateLimit) : a = idx[key][d] /\ b = other[key][d]
    BY DEF Index
  <2>2. SameLimitList(a, b) <=> ToBag(a) = ToBag(b)
    BY SameLimitListExact DEF SameLimitListIsBagEquality
  <2>3. ToBag(a) = ToBag(b) <=> \A x : Times(a, x) = Times(b, x)
    BY BagsByTimes
  <2> QED BY <2>1, <2>2, <2>3
<1> QED BY <1>1 DEF Equals, LimitsByDomainEquals

\* What IndexAfter leaves for each gateway.
LEMMA IndexAfterIs ==
    ASSUME NEW idx \in Index, NEW left \in SUBSET Keys, NEW touched \in SUBSET (Keys \ left),
           NEW byGateway \in [touched -> Wants]
    PROVE  /\ IndexAfter(idx, left, byGateway) \in Index
           /\ \A key \in Keys : IndexAfter(idx, left, byGateway)[key] =
                 IF key \in DOMAIN byGateway THEN byGateway[key]
                 ELSE IF key \in left THEN NoLimitsByDomain ELSE idx[key]
<1>1. DOMAIN byGateway = touched
  OBVIOUS
<1>2. NoLimitsByDomain \in [Domains -> Seq(RateLimit)]
  BY DEF NoLimitsByDomain
<1>3. ASSUME NEW key \in Keys PROVE DeleteGateway(idx, key)[key] = NoLimitsByDomain
  BY DEF DeleteGateway, Index
<1>4. ASSUME NEW key \in touched
      PROVE  AddGatewayLimits(DeleteGateway(idx, key), key, byGateway[key])[key] = byGateway[key]
  <2>1. PICK b \in [Domains -> Seq(RateLimit)] : b = byGateway[key]
    <3>1. byGateway[key] \in Wants
      OBVIOUS
    <3> QED BY <3>1, LimitIndexAssumption
  <2>2. PICK e \in Index : e = DeleteGateway(idx, key)
    <3>1. DeleteGateway(idx, key) \in Index
      BY <1>2 DEF DeleteGateway, Index
    <3> QED BY <3>1
  <2>3. e[key] = NoLimitsByDomain
    BY <1>3, <2>2
  <2>4. AddGatewayLimits(e, key, b)[key] = [d \in Domains |-> e[key][d] \o b[d]]
    BY DEF AddGatewayLimits, Index
  <2>5. ASSUME NEW d \in Domains PROVE e[key][d] \o b[d] = b[d]
    <3>1. e[key][d] = << >> /\ b[d] \in Seq(RateLimit)
      BY <2>3 DEF NoLimitsByDomain
    <3>2. << >> \o b[d] = b[d]
      BY <3>1, ConcatEmptySeq
    <3> QED BY <3>1, <3>2
  <2>6. [d \in Domains |-> e[key][d] \o b[d]] = b
    BY <2>5
  <2> QED BY <2>1, <2>2, <2>4, <2>6
<1>5. ASSUME NEW key \in Keys
      PROVE  IndexAfter(idx, left, byGateway)[key] =
                 IF key \in DOMAIN byGateway THEN byGateway[key]
                 ELSE IF key \in left THEN NoLimitsByDomain ELSE idx[key]
  BY <1>1, <1>3, <1>4 DEF IndexAfter
<1>6. ASSUME NEW key \in Keys
      PROVE  IndexAfter(idx, left, byGateway)[key] \in [Domains -> Seq(RateLimit)]
  <2>1. key \in DOMAIN byGateway => byGateway[key] \in [Domains -> Seq(RateLimit)]
    BY <1>1, LimitIndexAssumption
  <2>2. idx[key] \in [Domains -> Seq(RateLimit)]
    BY DEF Index
  <2> QED BY <1>2, <1>5, <2>1, <2>2
<1>7. IndexAfter(idx, left, byGateway) = [key \in Keys |-> IndexAfter(idx, left, byGateway)[key]]
  BY DEF IndexAfter
<1>8. IndexAfter(idx, left, byGateway) \in Index
  BY <1>6, <1>7 DEF Index
<1> QED BY <1>5, <1>8

\* The list has what is wanted.
Applies(list, want) ==
    \A key \in Keys, d \in Domains : \A x :
        Times(list, Entry(key, d, x)) = Times(want[key][d], x)

\* LimitsAreApplied, with the types that its step needs.
IndexInv ==
    /\ limits \in Seq(Entries)
    /\ wanted \in Index
    /\ Applies(limits, wanted)

\* The invariant is at least LimitsAreApplied.
LEMMA IndexInvImplies == IndexInv => LimitsAreApplied
  BY DEF IndexInv, Applies, LimitsAreApplied, Entry

\* The Limitador object without limits.
LEMMA IndexInvInit == LimitInit => IndexInv
<1> SUFFICES ASSUME LimitInit PROVE IndexInv
  OBVIOUS
<1>1. limits = << >> /\ wanted = EmptyIndex
  BY DEF LimitInit
<1>2. << >> \in Seq(Entries)
  OBVIOUS
<1>3. Applies(<< >>, EmptyIndex)
  BY EmptyIndexType, TimesEmpty DEF Applies
<1> QED BY <1>1, <1>2, <1>3, EmptyIndexType DEF IndexInv

\* What a reconciliation does to the list and to what is wanted: nothing is
\* written when every gateway and domain is asked the same limits as before.
LEMMA ReconcileStep ==
    ASSUME IndexInv, NEW left \in SUBSET Keys, NEW touched \in SUBSET (Keys \ left),
           NEW byGateway \in [touched -> Wants], reconcileLimits(left, byGateway)
    PROVE  /\ IndexInv'
           /\ SameLimits(wanted, wanted') => UNCHANGED limits
<1> DEFINE original == NewLimitadorIndex(limits)
           idx == IndexAfter(original, left, byGateway)
<1>1. /\ original \in Index
      /\ \A key \in Keys, d \in Domains : \A x :
            Times(original[key][d], x) = Times(limits, Entry(key, d, x))
  BY IndexCounts DEF IndexInv
<1>2. \A key \in Keys, d \in Domains : \A x :
         Times(original[key][d], x) = Times(wanted[key][d], x)
  BY <1>1 DEF IndexInv, Applies
<1>3. /\ idx \in Index
      /\ \A key \in Keys : idx[key] = IF key \in DOMAIN byGateway THEN byGateway[key]
                                      ELSE IF key \in left THEN NoLimitsByDomain ELSE original[key]
  <2> HIDE DEF original
  <2> QED BY <1>1, IndexAfterIs
<1>4. /\ IF Equals(original, idx) THEN UNCHANGED limits ELSE limits' \in ToLimits(idx)
      /\ wanted' = [key \in Keys |->
                        IF key \in DOMAIN byGateway THEN byGateway[key]
                        ELSE IF key \in left THEN NoLimitsByDomain ELSE wanted[key]]
  BY DEF reconcileLimits
<1> HIDE DEF original, idx
<1>5. wanted' \in Index
  <2>1. DOMAIN byGateway = touched /\ \A key \in touched : byGateway[key] \in [Domains -> Seq(RateLimit)]
    BY LimitIndexAssumption
  <2>2. NoLimitsByDomain \in [Domains -> Seq(RateLimit)]
    BY DEF NoLimitsByDomain
  <2>3. \A key \in Keys : wanted[key] \in [Domains -> Seq(RateLimit)]
    BY DEF IndexInv, Index
  <2> QED BY <1>4, <2>1, <2>2, <2>3 DEF Index
<1>6. ASSUME NEW key \in Keys, NEW d \in Domains, NEW x
      PROVE  Times(idx[key][d], x) = Times(wanted'[key][d], x)
  <2>1. CASE key \in DOMAIN byGateway \/ key \in left
    <3>1. wanted'[key] = idx[key]
      BY <1>3, <1>4, <2>1
    <3> QED BY <3>1
  <2>2. CASE ~(key \in DOMAIN byGateway \/ key \in left)
    <3>1. idx[key] = original[key] /\ wanted'[key] = wanted[key]
      BY <1>3, <1>4, <2>2
    <3> QED BY <1>2, <3>1
  <2> QED BY <2>1, <2>2
<1>7. limits' \in Seq(Entries) /\ Applies(limits', wanted')
  <2>1. CASE Equals(original, idx)
    <3>1. limits' = limits
      BY <1>4, <2>1
    <3>2. ASSUME NEW key \in Keys, NEW d \in Domains, NEW x
          PROVE  Times(limits, Entry(key, d, x)) = Times(wanted'[key][d], x)
      <4>1. Times(original[key][d], x) = Times(idx[key][d], x)
        BY <1>1, <1>3, <2>1, EqualsIsCount
      <4> QED BY <1>1, <1>6, <4>1
    <3> QED BY <3>1, <3>2 DEF IndexInv, Applies
  <2>2. CASE ~Equals(original, idx)
    <3>1. limits' \in ToLimits(idx)
      BY <1>4, <2>2
    <3>2. /\ limits' \in Seq(Entries)
          /\ \A key \in Keys, d \in Domains : \A x :
                Times(limits', Entry(key, d, x)) = Times(idx[key][d], x)
      BY <1>3, <3>1, ToLimitsCounts
    <3> QED BY <1>6, <3>2 DEF Applies
  <2> QED BY <2>1, <2>2
<1>8. ASSUME SameLimits(wanted, wanted') PROVE UNCHANGED limits
  <2>1. ASSUME NEW key \in Keys, NEW d \in Domains, NEW x
        PROVE  Times(original[key][d], x) = Times(idx[key][d], x)
    <3>1. PICK a \in Seq(RateLimit), b \in Seq(RateLimit) : a = wanted[key][d] /\ b = wanted'[key][d]
      BY <1>5 DEF IndexInv, Index
    <3>2. ToBag(a) = ToBag(b)
      BY <1>8, <3>1 DEF SameLimits
    <3>3. Times(a, x) = Times(b, x)
      BY <3>2, BagsByTimes
    <3> QED BY <1>2, <1>6, <3>1, <3>3
  <2>2. Equals(original, idx)
    BY <1>1, <1>3, <2>1, EqualsIsCount
  <2> QED BY <1>4, <2>2
<1>9. IndexInv'
  BY <1>5, <1>7 DEF IndexInv, Applies
<1> QED BY <1>8, <1>9

\* A foreign limit is nobody's.
LEMMA AddForeignStep ==
    ASSUME IndexInv, NEW rl \in Foreign, AddForeignLimit(rl)
    PROVE  IndexInv'
<1>1. limits' = Append(limits, rl) /\ wanted' = wanted
  BY DEF AddForeignLimit
<1>2. PICK s \in Seq(Entries) : s = limits
  BY DEF IndexInv
<1>3. rl \in Entries
  BY DEF Entries
<1>4. limits' \in Seq(Entries) /\ limits' = s \o <<rl>>
  BY <1>1, <1>2, <1>3, AppendProperties, AppendIsConcat
<1>5. ASSUME NEW key \in Keys, NEW d \in Domains, NEW x
      PROVE  Times(limits', Entry(key, d, x)) = Times(limits, Entry(key, d, x))
  <2>1. PICK o \in Seq(Entries) : o = <<rl>>
    <3>1. <<rl>> \in Seq(Entries)
      BY <1>3
    <3> QED BY <3>1
  <2>2. PICK z : z = Entry(key, d, x)
    OBVIOUS
  <2>3. rl # z
    <3>1. ~Unmarshalls(rl.namespace)
      BY LimitIndexAssumption
    <3>2. z.namespace = MarshallNamespace(key, d)
      BY <2>2 DEF Entry
    <3> QED BY <3>1, <3>2, NamespacesParse
  <2>4. Times(s \o o, z) = Times(s, z) + Times(o, z)
    BY TimesConcat
  <2>5. Times(o, z) = 0 /\ Times(s, z) \in Nat
    BY <2>1, <2>3, TimesOne, TimesFinite
  <2>6. Times(s \o o, z) = Times(s, z)
    BY <2>4, <2>5
  <2> QED BY <1>2, <1>4, <2>1, <2>2, <2>6
<1> QED BY <1>1, <1>4, <1>5 DEF IndexInv, Applies

\* Every step keeps the invariant.
LEMMA IndexInvStep == IndexInv /\ [Next]_vars => IndexInv'
<1> SUFFICES ASSUME IndexInv, [Next]_vars PROVE IndexInv'
  OBVIOUS
<1>1. CASE Reconcile
  BY <1>1, ReconcileStep DEF Reconcile
<1>2. CASE \E rl \in Foreign : AddForeignLimit(rl)
  BY <1>2, AddForeignStep
<1>3. CASE UNCHANGED vars
  BY <1>3 DEF IndexInv, Applies, vars
<1> QED BY <1>1, <1>2, <1>3 DEF Next, LimitNext

\* The invariant holds.
LEMMA IndexInvHolds == Spec => []IndexInv
<1>1. Init => IndexInv
  BY IndexInvInit DEF Init
<1> QED BY <1>1, IndexInvStep, PTL DEF Spec

\* LimitsAreApplied holds for any gateways, domains and limits: whatever is
\* reconciled for some gateways, the others keep theirs.
THEOREM LimitsStayApplied == Spec => []LimitsAreApplied
  BY IndexInvHolds, IndexInvImplies, PTL

\* WritesNoReordering
THEOREM ReorderingsAreNotWritten == Spec => WritesNoReordering
<1>1. IndexInv /\ [Next]_vars => [WritesOnlyChanges]_<<limits, wanted>>
  <2> SUFFICES ASSUME IndexInv, [Next]_vars, SameLimits(wanted, wanted')
               PROVE  \/ UNCHANGED limits
                      \/ \E rl \in Foreign : AddForeignLimit(rl)
    BY DEF WritesOnlyChanges
  <2>1. CASE Reconcile
    BY <2>1, ReconcileStep DEF Reconcile
  <2>2. CASE UNCHANGED vars
    BY <2>2 DEF vars
  <2> QED BY <2>1, <2>2 DEF Next, LimitNext
<1> QED BY <1>1, IndexInvHolds, PTL DEF Spec, WritesNoReordering
=============================================================================
