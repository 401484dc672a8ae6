--------------------------- MODULE ProbeRefinement ---------------------------
(* run_check implements ProbeContract: the entry in _last_result is what a *)
(* probe remembers for as long as it is fresh, and nothing afterwards.     *)
EXTENDS Probe

ContractStatus(st) ==
    CASE st = "idle"      -> "idle"
      [] st = "ready"     -> "asked"
      [] st = "checking"  -> "busy"
      [] st = "returned"  -> "answered"
      [] st = "cancelled" -> "dropped"

memo == [p \in Probes |-> IF Fresh(p) THEN last_result[p] ELSE None]

req == [c \in Calls |-> [st     |-> ContractStatus(call[c].st),
                         probe  |-> call[c].probe,
                         since  |-> call[c].start,
                         result |-> call[c].result]]

Contract == INSTANCE ProbeContract WITH memo <- memo, req <- req

(* Every behaviour of run_check is one the contract allows: a call gets    *)
(* the answer of a check made for it or one that is remembered, however    *)
(* calls overlap and whenever entries expire or calls are cancelled.       *)
ImplementsContract == Contract!ContractSpec
=============================================================================
