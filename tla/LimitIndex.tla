----------------------------- MODULE LimitIndex -----------------------------
(***************************************************************************)
(* The limits inside the Limitador object (pkg/rlptools/limit_index.go):   *)
(* one flat list for all gateways, which reconcileLimits turns into an     *)
(* index by gateway and domain, changes, compares with what was there and, *)
(* when they differ, writes back in the order Go's maps happen to have.    *)
(*                                                                         *)
(* RateLimitPolicyReconciler keeps the index as a set: here are the lists, *)
(* their duplicates, their order and the encoding of their namespaces.     *)
(***************************************************************************)
EXTENDS Naturals, Sequences, SequencesExt

CONSTANTS
    Keys,      \* <<namespace, name>> of the gateways
    Domains,   \* hostnames
    Wants,     \* the limits by domain that policies ask for
    Foreign    \* limits that somebody else writes, whose namespace does not parse

-----------------------------------------------------------------------------
(* A limit is [max, seconds, conditions, variables], strings being numbers *)
(* in their order. A Limitador limit is [namespace, limit], the namespace  *)
(* as it splits on "#" and then on "/".                                    *)

RateLimit == [max : Nat, seconds : Nat, conditions : Seq(Nat), variables : Seq(Nat)]

MarshallNamespace(key, domain) == <<key, <<domain>>>>

\* Exactly one "#", and a "/" in front of it.
Unmarshalls(ns) == Len(ns) = 2 /\ Len(ns[1]) >= 2

UnMarshallObjectKey(parts) == SubSeq(parts, 1, 2)

ASSUME LimitIndexAssumption ==
    /\ IsFiniteSet(Keys) /\ IsFiniteSet(Domains)
    /\ \A key \in Keys : key = <<key[1], key[2]>>
    /\ Wants \subseteq [Domains -> Seq(RateLimit)]
    /\ \A rl \in Foreign : ~Unmarshalls(rl.namespace)

\* The fields of Less one after the other, each list after its length.
Fields(l) ==
    <<l.max, l.seconds, Len(l.conditions)>> \o l.conditions
        \o <<Len(l.variables)>> \o l.variables

\* Mutant: the variables are not compared.
LessWithoutVariables(a, b) ==
    LET f    == <<a.max, a.seconds, Len(a.conditions)>> \o a.conditions
        g    == <<b.max, b.seconds, Len(b.conditions)>> \o b.conditions
        diff == {i \in DOMAIN f \cap DOMAIN g : f[i] # g[i]}
    IN  diff = {} \/ f[Min(diff)] > g[Min(diff)]

\* The first difference decides, the greater first; equal limits are "less".
Less(a, b) ==
    LET f    == Fields(a)
        g    == Fields(b)
        diff == {i \in DOMAIN f \cap DOMAIN g : f[i] # g[i]}
    IN  diff = {} \/ f[Min(diff)] > g[Min(diff)]

\* sort.Sort on a short list: insertion sort, each limit moving to the front
\* as long as it is less than the one before it.
Insert(sorted, l) ==
    LET stay == {i \in DOMAIN sorted : ~Less(l, sorted[i])}
    IN  InsertAt(sorted, IF stay = {} THEN 1 ELSE Max(stay) + 1, l)

Sort(list) == FoldLeft(Insert, << >>, list)

\* Mutant: the lists are compared as they come.
SameLimitListUnsorted(a, b) == a = b

SameLimitList(a, b) == Len(a) = Len(b) /\ Sort(a) = Sort(b)

-----------------------------------------------------------------------------
(* The index. A gateway or domain that is not in the maps has no limits,   *)
(* and one that is has some: AddLimit is all that puts them there.         *)

NoLimitsByDomain == [d \in Domains |-> << >>]

EmptyIndex == [key \in Keys |-> NoLimitsByDomain]

\* Mutant: the limits of a gateway are not deleted before they are added.
DeleteGatewayForgotten(idx, key) == idx

DeleteGateway(idx, key) == [idx EXCEPT ![key] = NoLimitsByDomain]

AddLimit(idx, key, domain, l) == [idx EXCEPT ![key][domain] = Append(@, l)]

AddGatewayLimits(idx, key, byDomain) ==
    [idx EXCEPT ![key] = [d \in Domains |-> idx[key][d] \o byDomain[d]]]

\* Limits whose namespace cannot be parsed are left out.
AddLimitFromRateLimit(idx, rl) ==
    IF Unmarshalls(rl.namespace)
    THEN AddLimit(idx, UnMarshallObjectKey(rl.namespace[1]), rl.namespace[2][1], rl.limit)
    ELSE idx

NewLimitadorIndex(list) == FoldLeft(AddLimitFromRateLimit, EmptyIndex, list)

LimitsByDomainEquals(byDomain, other) ==
    \A d \in Domains : SameLimitList(byDomain[d], other[d])

Equals(idx, other) == \A key \in Keys : LimitsByDomainEquals(idx[key], other[key])

RateLimits(idx, key, domain) ==
    [i \in DOMAIN idx[key][domain] |->
        [namespace |-> MarshallNamespace(key, domain), limit |-> idx[key][domain][i]]]

\* The limits with the gateways in the order ks and the domains of each in ds.
LimitsInOrder(idx, ks, ds) ==
    FlattenSeq([i \in DOMAIN ks |->
        FlattenSeq([j \in DOMAIN ds[ks[i]] |-> RateLimits(idx, ks[i], ds[ks[i]][j])])])

\* Gateways and, within one, domains come in any order.
ToLimits(idx) ==
    {LimitsInOrder(idx, ks, ds) : ks \in SetToSeqs(Keys), ds \in [Keys -> SetToSeqs(Domains)]}

-----------------------------------------------------------------------------
VARIABLES
    limits,   \* spec.limits of the Limitador object
    wanted    \* what the policies asked for each gateway when last reconciled

\* The limits of left gateways go, those of new and same gateways are replaced.
IndexAfter(idx, left, byGateway) ==
    [key \in Keys |->
        IF key \in DOMAIN byGateway
        THEN AddGatewayLimits(DeleteGateway(idx, key), key, byGateway[key])[key]
        ELSE IF key \in left THEN DeleteGateway(idx, key)[key] ELSE idx[key]]

reconcileLimits(left, byGateway) ==
    LET original == NewLimitadorIndex(limits)
        idx      == IndexAfter(original, left, byGateway)
    IN  /\ IF Equals(original, idx) THEN UNCHANGED limits ELSE limits' \in ToLimits(idx)
        /\ wanted' = [key \in Keys |->
                        IF key \in DOMAIN byGateway THEN byGateway[key]
                        ELSE IF key \in left THEN NoLimitsByDomain ELSE wanted[key]]

\* Somebody else adds a limit of their own.
AddForeignLimit(rl) ==
    /\ rl \notin Range(limits)
    /\ limits' = Append(limits, rl)
    /\ UNCHANGED wanted

Reconcile ==
    \E left \in SUBSET Keys :
        \E touched \in SUBSET (Keys \ left) :
            \E byGateway \in [touched -> Wants] : reconcileLimits(left, byGateway)

LimitInit == limits = << >> /\ wanted = EmptyIndex

LimitNext == Reconcile \/ \E rl \in Foreign : AddForeignLimit(rl)

-----------------------------------------------------------------------------
(* What the index is for.                                                  *)

\* SameLimitList tells lists apart that differ in more than their order.
SameLimitListIsBagEquality(a, b) == SameLimitList(a, b) <=> ToBag(a) = ToBag(b)

\* How often x is in the list.
Times(list, x) == Cardinality({i \in DOMAIN list : list[i] = x})

\* Every gateway has, on every domain, the limits last asked for it, as often
\* as they were asked for, whatever was reconciled for other gateways since.
LimitsAreApplied ==
    \A key \in Keys, d \in Domains :
        \A l \in {rl.limit : rl \in Range(limits)} \cup Range(wanted[key][d]) :
            Times(limits, [namespace |-> MarshallNamespace(key, d), limit |-> l])
                = Times(wanted[key][d], l)

SameLimits(old, new) ==
    \A key \in Keys, d \in Domains : ToBag(old[key][d]) = ToBag(new[key][d])

WritesOnlyChanges ==
    SameLimits(wanted, wanted') =>
        UNCHANGED limits \/ \E rl \in Foreign : AddForeignLimit(rl)

\* Policies that ask for the same limits in another order do not make the
\* controller write the Limitador object.
WritesNoReordering == [][WritesOnlyChanges]_<<limits, wanted>>
=============================================================================
