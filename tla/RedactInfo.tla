------------------------------ MODULE RedactInfo -----------------------------
(***************************************************************************)
(* What of info is shown: redact_value (probirka/_redact.py), to_dict      *)
(* (probirka/_results.py) and its rendering (probirka/_ext/_common.py).    *)
(***************************************************************************)
EXTENDS RedactText

CONSTANTS
    SensitiveKeys,  \* keys of info that look sensitive
    Infos           \* info of results

VARIABLE shown      \* the last info that was rendered, and what came of it

(* A value of info: a text, another object (with its str()), a list or a   *)
(* mapping.                                                                *)
Text(text) == [text |-> text]

(* Faulty variant: lists are left alone.                                   *)
RECURSIVE RedactMappings(_)
RedactMappings(value) ==
    IF "text" \in DOMAIN value THEN Text(RedactString(value.text))
    ELSE IF "map" \in DOMAIN value
    THEN [map |-> [key \in DOMAIN value.map |->
            IF key \in SensitiveKeys THEN Text(<<Mask>>) ELSE RedactMappings(value.map[key])]]
    ELSE value

RECURSIVE RedactValue(_)
RedactValue(value) ==
    IF "text" \in DOMAIN value THEN Text(RedactString(value.text))
    ELSE IF "map" \in DOMAIN value
    THEN [map |-> [key \in DOMAIN value.map |->
            IF key \in SensitiveKeys THEN Text(<<Mask>>) ELSE RedactValue(value.map[key])]]
    ELSE IF "list" \in DOMAIN value
    THEN [list |-> [i \in DOMAIN value.list |-> RedactValue(value.list[i])]]
    ELSE value

(* json.dumps of a redacted value: an object becomes a text (json_default).*)
RECURSIVE Rendered(_)
Rendered(value) ==
    IF "object" \in DOMAIN value THEN Text(RedactString(value.object))
    ELSE IF "map" \in DOMAIN value
    THEN [map |-> [key \in DOMAIN value.map |-> Rendered(value.map[key])]]
    ELSE IF "list" \in DOMAIN value
    THEN [list |-> [i \in DOMAIN value.list |-> Rendered(value.list[i])]]
    ELSE value

-----------------------------------------------------------------------------
InfoInit == shown = <<>>

(* `info' in the response to a health check request.                       *)
ShowInfo(info) ==
    /\ shown = <<>>
    /\ shown' = <<info, Rendered(RedactValue(info))>>

InfoNext == \E info \in Infos : ShowInfo(info)

InfoSpec == InfoInit /\ [][InfoNext]_shown

-----------------------------------------------------------------------------
(* Properties.                                                             *)

(* The texts in a value of info, with the keys and indices that lead there.*)
RECURSIVE Leaves(_)
Leaves(value) ==
    LET below(f) == {<<<<k>> \o leaf[1], leaf[2]>> : <<k, leaf>> \in
                       UNION {{k} \X Leaves(f[k]) : k \in DOMAIN f}}
    IN  CASE "map" \in DOMAIN value  -> below(value.map)
          [] "list" \in DOMAIN value -> below(value.list)
          [] "text" \in DOMAIN value -> {<<<<>>, value.text>>}
          [] OTHER                   -> {<<<<>>, value.object>>}

(* Whatever lies under a sensitive key, at any depth, is one mask, and     *)
(* every other text or object is there with its passwords masked.          *)
SensitiveInfoMasked ==
    shown # <<>> =>
        LET sensitive(path) == {n \in DOMAIN path : path[n] \in SensitiveKeys}
        IN  Leaves(shown[2]) =
              {IF sensitive(leaf[1]) # {}
               THEN <<SubSeq(leaf[1], 1, Min(sensitive(leaf[1]))), <<Mask>>>>
               ELSE <<leaf[1], RedactString(leaf[2])>> : leaf \in Leaves(shown[1])}
=============================================================================
