------------------------------ MODULE Registry ------------------------------
(***************************************************************************)
(* The probes a Probirka knows (probirka/_probirka.py): the required list, *)
(* the groups, each group's allow_failure, and what a run collects from    *)
(* them.                                                                   *)
(***************************************************************************)
EXTENDS SequencesExt, Integers

CONSTANTS
    Probes, None,
    Groups          \* group names

VARIABLES
    required,               \* self._required_probes
    optional,               \* self._optional_probes; <<>> for a missing key
    group_allow_failure     \* self._group_allow_failure; None for a missing key

registryVars == <<required, optional, group_allow_failure>>

Flags == BOOLEAN \cup {None}

RegistryInit ==
    /\ required = <<>>
    /\ optional = [g \in Groups |-> <<>>]
    /\ group_allow_failure = [g \in Groups |-> None]

(* add_probes(ps..., groups=names, allow_failure=flag).  A name may occur  *)
(* several times in `names', and then extends its group as often.  A flag  *)
(* without groups raises ValueError before anything is changed.            *)
AddProbes(ps, names, flag) ==
    LET times(g) == Cardinality({i \in DOMAIN names : names[i] = g}) IN
    /\ names # <<>> \/ flag = None
    /\ required' = IF names = <<>> THEN required \o ps ELSE required
    /\ optional' = [g \in Groups |->
                      optional[g] \o FlattenSeq([i \in 1..times(g) |-> ps])]
    /\ group_allow_failure' = [g \in Groups |->
                                 IF times(g) > 0 /\ flag # None
                                 THEN flag ELSE group_allow_failure[g]]

-----------------------------------------------------------------------------
(* Faulty variant: the probes of the groups come before the required ones. *)
CollectGroupsFirst(with_groups, skip_required) ==
    LET from(probes, flag) ==
            [i \in DOMAIN probes |-> [probe |-> probes[i], flag |-> flag]]
        group(g) == from(optional[g], group_allow_failure[g])
    IN  FlattenSeq([i \in DOMAIN with_groups |-> group(with_groups[i])])
            \o (IF skip_required THEN <<>> ELSE from(required, None))

(* _collect: the probes to run in order, duplicates included, each with    *)
(* the flag of the source it comes from.  A name without a key is a group  *)
(* nothing was added to.                                                   *)
Collect(with_groups, skip_required) ==
    LET from(probes, flag) ==
            [i \in DOMAIN probes |-> [probe |-> probes[i], flag |-> flag]]
        group(g) == from(optional[g], group_allow_failure[g])
    IN  (IF skip_required THEN <<>> ELSE from(required, None))
            \o FlattenSeq([i \in DOMAIN with_groups |-> group(with_groups[i])])

(* sources[id(probe)].                                                     *)
Sources(entries, p) == {entries[i].flag : i \in {j \in DOMAIN entries : entries[j].probe = p}}

(* Faulty variant: any() for all().                                        *)
EffectiveIfAny(own, sources) ==
    \E flag \in sources : IF flag = None THEN own ELSE flag

(* _effective_allow_failure: all(own if flag is None else flag ...).       *)
EffectiveAllowFailure(own, sources) ==
    \A flag \in sources : IF flag = None THEN own ELSE flag

-----------------------------------------------------------------------------
RegistryTypeOK ==
    /\ required \in Seq(Probes)
    /\ optional \in [Groups -> Seq(Probes)]
    /\ group_allow_failure \in [Groups -> Flags]
=============================================================================
