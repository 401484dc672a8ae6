--------------------------- MODULE MCClientProbe ----------------------------
(* One call of a ready-made probe of any kind; and two overlapping calls   *)
(* of probes that need the only thread of the executor: of a Motor client  *)
(* and a plain function, of one function, and of one Motor client.  The    *)
(* calls of other kinds share nothing that is modelled here.               *)
EXTENDS ClientProbe, TLC

CONSTANTS p1, p2, c1, c2

MCProbes == {p1, p2}
MCCalls == {c1, c2}
MCOffered == {p1 :> k @@ p2 :> None : k \in Kinds}
             \cup {p1 :> "thread" @@ p2 :> "sync", p1 :> None @@ p2 :> "thread"}
MCUsedFor == c1 :> {p1, p2} @@ c2 :> {p2}
MCConfigs == [timeout : {0, 1, None}, success_ttl : {1}, failed_ttl : {None},
              allow_failure : {FALSE}]
=============================================================================
