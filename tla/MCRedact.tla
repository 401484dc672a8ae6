------------------------------ MODULE MCRedact ------------------------------
(* All short messages and secrets over two letters, so that secrets        *)
(* contain, overlap and repeat each other and themselves; URLs with every  *)
(* short user name and password, tidy or not.  And info of depth three,    *)
(* with a password in a URL, a secret in a query and a plain text in every *)
(* place, under sensitive keys and others.                                 *)
EXTENDS Redact, RedactInfo

CONSTANTS a, b, password, name

(* RedactNext, its actions written out, and InfoNext.  Neither reads what   *)
(* the other writes, so that only one of them runs in a behaviour.         *)
MCInit == RedactInit /\ InfoInit

MCNext ==
    \/ \E value \in Values : RegisterSecret(value) /\ shown = <<>> /\ UNCHANGED shown
    \/ \E url \in Urls, headers \in Headers :
           MakeReadyProbe(url, headers) /\ shown = <<>> /\ UNCHANGED shown
    \/ \E message \in IF given.url = <<>> THEN Messages ELSE Echoes :
           FormatError(message) /\ shown = <<>> /\ UNCHANGED shown
    \/ RedactInit /\ InfoNext /\ UNCHANGED redactVars

MCSpec == MCInit /\ [][MCNext]_<<redactVars, shown>>

MCChars == {a, b}
MCTexts(min, max) == UNION {[1..n -> Chars] : n \in min..max}
MCValues == MCTexts(1, 3)
MCMessages == MCTexts(1, 6)

MCUsers == {<<>>, <<a>>, <<a, ":">>, <<a, "@">>}
MCPasswords == UNION {[1..n -> {"p", "%40", ":", "@"}] : n \in 0..3} \cup [1..2 -> {"p", " "}]
MCHosts == {<<b>>, <<"[">>, <<b, "/", a, "@">>, <<b, "?key=", "q">>}
MCUrls == {<<"://">> \o user \o <<":">> \o word \o <<"@">> \o host :
              <<user, word, host>> \in MCUsers \X MCPasswords \X MCHosts}
          \cup {<<"://", b>>, <<"://", a, "@", b>>}
MCHeaders == {<<>>, <<<<a, " ", "h", "h">>>>}

MCLeaves == {Text(<<"://", a, ":", "p", "@", b>>), [object |-> <<"?key=", "q">>], Text(<<a>>)}
MCBranches(values) ==
    {[map |-> f] : f \in [{password, name} -> values]} \cup {[list |-> s] : s \in [1..2 -> values]}
MCInfos == MCLeaves \cup MCBranches(MCLeaves) \cup MCBranches(MCBranches(MCLeaves))
=============================================================================
