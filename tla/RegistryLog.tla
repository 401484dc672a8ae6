----------------------------- MODULE RegistryLog ----------------------------
(***************************************************************************)
(* A Probirka with a history variable: the add_probes() calls so far, also *)
(* those that the decorator add() makes.  What a run would collect at any  *)
(* time is compared with what the documentation of add_probes says of the  *)
(* calls (probirka/_probirka.py).                                          *)
(***************************************************************************)
EXTENDS Probirka

CONSTANT MaxAdds        \* bound: add_probes() calls

VARIABLE log

LogInit == ProbirkaInit /\ log = <<>>

LogCall(ps, names, flag) ==
    /\ Len(log) < MaxAdds
    /\ log' = Append(log, [probes |-> ps, names |-> names, flag |-> flag])

LogNext ==
    \/ \E ps \in ProbeLists, names \in GroupLists, flag \in Flags :
          Register(ps, names, flag) /\ LogCall(ps, names, flag)
    \/ \E p \in Probes, conf \in Configs, names \in GroupLists :
          Add(p, conf, names) /\ LogCall(<<p>>, names, None)
    \/ UseNext /\ UNCHANGED log

LogSpec == LogInit /\ [][LogNext]_<<allVars, log>>

-----------------------------------------------------------------------------
(* What the log says.                                                      *)

Count(seq, x) == Cardinality({i \in DOMAIN seq : seq[i] = x})

Total(numbers) ==
    LET upto[n \in 0..Len(numbers)] == IF n = 0 THEN 0 ELSE upto[n - 1] + numbers[n]
    IN  upto[Len(numbers)]

(* How often probe p was put into the group g, and into the required list. *)
LoggedIn(g, p) ==
    Total([n \in DOMAIN log |-> Count(log[n].names, g) * Count(log[n].probes, p)])

LoggedRequired(p) ==
    Total([n \in DOMAIN log |-> IF log[n].names = <<>> THEN Count(log[n].probes, p) ELSE 0])

(* A flag applies to all probes of its groups, also to those added before, *)
(* and replaces a flag of an earlier call.                                 *)
LoggedFlag(g) ==
    LET setting == {n \in DOMAIN log : Count(log[n].names, g) > 0 /\ log[n].flag # None}
    IN  IF setting = {} THEN None
        ELSE log[CHOOSE n \in setting : \A m \in setting : m <= n].flag

(* Strict sources: those through which the failure of a probe counts that  *)
(* may fail by itself, or may not.                                         *)
Strict(own, flag) == flag = FALSE \/ (flag = None /\ ~own)

(* A run of required probes and groups collects each probe once for every  *)
(* time it was registered in a source of the run, and lets it fail only if *)
(* no source it was registered in is strict (add_probes, docs).            *)
CollectMatchesLog ==
    \A with_groups \in RunGroups, skip \in BOOLEAN :
        LET entries == Collect(with_groups, skip)
            groups == DOMAIN with_groups
        IN  \A p \in Probes :
              LET asRequired == IF skip THEN 0 ELSE LoggedRequired(p)
                  through == [i \in groups |-> LoggedIn(with_groups[i], p)]
                  times == asRequired + Total(through)
              IN  /\ Cardinality({i \in DOMAIN entries : entries[i].probe = p}) = times
                  /\ times > 0 =>
                       \A own \in BOOLEAN :
                         EffectiveAllowFailure(own, Sources(entries, p))
                           <=> /\ asRequired > 0 => ~Strict(own, None)
                               /\ \A i \in groups : through[i] > 0
                                    => ~Strict(own, LoggedFlag(with_groups[i]))

(* What the n-th call put into the required list, and into the group g;    *)
(* and what all calls put there, in the order they were made.              *)
PutRequired(n) == IF log[n].names = <<>> THEN log[n].probes ELSE <<>>
PutInGroup(n, g) == FlattenSeq([i \in 1..Count(log[n].names, g) |-> log[n].probes])

AllRequired == FlattenSeq([n \in DOMAIN log |-> PutRequired(n)])
AllInGroup(g) == FlattenSeq([n \in DOMAIN log |-> PutInGroup(n, g)])

(* A run collects its probes in the order they were registered: first the  *)
(* required ones, unless they are skipped, then those of each group asked  *)
(* for, group after group in the order of the request.                     *)
OrderMatchesLog ==
    \A with_groups \in RunGroups, skip \in BOOLEAN :
        LET entries == Collect(with_groups, skip)
        IN  [i \in DOMAIN entries |-> entries[i].probe]
              = (IF skip THEN <<>> ELSE AllRequired)
                  \o FlattenSeq([i \in DOMAIN with_groups |-> AllInGroup(with_groups[i])])
=============================================================================
