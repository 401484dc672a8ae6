----------------------------- MODULE RedactText ------------------------------
(***************************************************************************)
(* How secrets are found and masked in texts (probirka/_redact.py), as     *)
(* operators.                                                              *)
(*                                                                         *)
(* A text is a sequence of tokens: a letter; "://" (with the scheme before *)
(* it); ":"; "@"; "/"; " "; "?key=" (a sensitive query parameter up to its *)
(* equals sign); "%40" (an encoded "@"); "[" (which urlsplit refuses); and *)
(* the mask, which is no letter.  A password lies between two positions of *)
(* a text, the pair <<before, after>>.                                     *)
(***************************************************************************)
EXTENDS Integers, SequencesExt

CONSTANTS
    Mask,
    MinSecretLength     \* MIN_SECRET_LENGTH

Positions(text, i, j, tokens) == {k \in i..j : text[k] \in tokens}

(* The last position of the stretch from i on that avoids these tokens.    *)
Stretch(text, i, tokens) ==
    CHOOSE j \in (i - 1)..Len(text) :
        /\ Positions(text, i, j, tokens) = {}
        /\ j = Len(text) \/ text[j + 1] \in tokens

MaskBetween(text, places) ==
    FlattenSeq([i \in DOMAIN text |->
        IF \E place \in places : place[1] < i /\ i < place[2] THEN <<>>
        ELSE IF \E place \in places : place[1] = i             THEN <<text[i], Mask>>
        ELSE                                                         <<text[i]>>])

-----------------------------------------------------------------------------
(* urlsplit: where the network location ends that starts at 2, if the URL  *)
(* starts with a scheme.                                                   *)
Netloc(url) == IF url[1] = "://" THEN Stretch(url, 2, {"/", "?key=", "://"}) ELSE 1

UrlSplits(url) == Positions(url, 2, Netloc(url), {"["}) = {}

(* urlsplit(url).password: after the first ":" of what stands before the   *)
(* last "@" of the network location.                                       *)
ParsedPassword(url) ==
    LET ats == Positions(url, 2, Netloc(url), {"@"})
        colons == Positions(url, 2, Max(ats), {":"})
    IN  IF ats = {} \/ colons = {} THEN {} ELSE {<<Min(colons), Max(ats)>>}

(* _URL_PASSWORD at a "://", with the password ending at this "@": from    *)
(* the last ":" without an "@" before it.                                  *)
Ats(text, i) ==
    Positions(text, i + 1, Stretch(text, i + 1, {"/", "?key=", "://", " "}), {"@"})

Colons(text, i, at) ==
    {k \in Positions(text, i + 1, at - 2, {":"}) : Positions(text, i + 1, k, {"@"}) = {}}

Match(text, i, at) == <<Max(Colons(text, i, at)), at>>

Matching(text) ==
    {i \in Positions(text, 1, Len(text), {"://"}) : \E at \in Ats(text, i) : Colons(text, i, at) # {}}

(* Faulty variant: the quantifier is lazy, the "@" is the first.           *)
UrlPasswordsLazy(text) ==
    {Match(text, i, Min({at \in Ats(text, i) : Colons(text, i, at) # {}})) : i \in Matching(text)}

(* The matches of _URL_PASSWORD, which is greedy: the "@" is the last.     *)
UrlPasswords(text) ==
    {Match(text, i, Max(Ats(text, i))) : i \in Matching(text)}

(* The matches of _SENSITIVE_QUERY_PARAM: each value goes on to the next   *)
(* white space.                                                            *)
QueryParams(text) ==
    {<<i, Stretch(text, i + 1, {" "}) + 1>> :
        i \in {i \in Positions(text, 1, Len(text) - 1, {"?key="}) :
                 /\ text[i + 1] # " "
                 /\ ~\E j \in Positions(text, 1, i - 1, {"?key="}) : Stretch(text, j, {" "}) >= i}}

Password(url) == IF UrlSplits(url) THEN ParsedPassword(url) ELSE UrlPasswords(url)

MaskUrl(url) == MaskBetween(url, Password(url))

RedactString(text) ==
    LET masked == MaskBetween(text, UrlPasswords(text))
    IN  MaskBetween(masked, QueryParams(masked))

-----------------------------------------------------------------------------
(* Faulty variant: the length is compared with `greater than'.             *)
UniqueLonger(values) ==
    LET seen[i \in 0..Len(values)] ==
            IF i = 0 THEN <<>>
            ELSE IF Len(values[i]) <= MinSecretLength \/ Contains(seen[i - 1], values[i])
                 THEN seen[i - 1] ELSE Append(seen[i - 1], values[i])
    IN  seen[Len(values)]

(* _unique: the first of equal values, without those that are too short.   *)
Unique(values) ==
    LET seen[i \in 0..Len(values)] ==
            IF i = 0 THEN <<>>
            ELSE IF Len(values[i]) < MinSecretLength \/ Contains(seen[i - 1], values[i])
                 THEN seen[i - 1] ELSE Append(seen[i - 1], values[i])
    IN  seen[Len(values)]

Unquote(text) == [i \in DOMAIN text |-> IF text[i] = "%40" THEN "@" ELSE text[i]]

(* The base64 of user:password, for the only URL of a probe: none of its   *)
(* characters tell anything, and there are never too few.                  *)
Basic == [i \in 1..MinSecretLength |-> "base64"]

Between(url, place) == SubSeq(url, place[1] + 1, place[2] - 1)

(* Faulty variant: the password as it is written only.                     *)
SecretsFromUrlAsWritten(url) ==
    Unique(SetToSeq({Between(url, place) : place \in Password(url)}))

(* The password as written, decoded, and in the header made of it; the     *)
(* pattern is searched for its first match.                                *)
SecretsFromUrl(url) ==
    IF \A place \in Password(url) : Between(url, place) = <<>>
    THEN <<>>
    ELSE LET first == CHOOSE place \in Password(url) :
                        \A other \in Password(url) : place[1] <= other[1]
             written == Between(url, first)
         IN  Unique(<<written, Unquote(written), Basic>>)

(* Each value, followed by what stands after its last space.               *)
AfterSpace(v) == SubSeq(v, Max({0} \cup Positions(v, 1, Len(v), {" "})) + 1, Len(v))

SecretsFromHeaders(values) ==
    Unique([n \in 1..2 * Len(values) |->
              IF n % 2 = 1 THEN values[(n + 1) \div 2] ELSE AfterSpace(values[n \div 2])])

-----------------------------------------------------------------------------
(* text.replace(secret, MASK): from the left, not overlapping.             *)
OccursAt(secret, text, i) ==
    /\ i + Len(secret) - 1 <= Len(text)
    /\ SubSeq(text, i, i + Len(secret) - 1) = secret

Replace(text, secret) ==
    LET from[i \in 1..Len(text) + Len(secret)] ==
            IF i > Len(text) THEN <<>>
            ELSE IF OccursAt(secret, text, i)
                 THEN <<Mask>> \o from[i + Len(secret)]
                 ELSE <<text[i]>> \o from[i + 1]
    IN  from[1]

(* Faulty variant: in the order of registration.                           *)
AsRegistered(values) == values

(* sorted(..., key=len, reverse=True), which is stable: before a value     *)
(* stand the longer ones, and those of its length that were before it.     *)
LongestFirst(values) ==
    LET before(i) == {j \in DOMAIN values : \/ Len(values[j]) > Len(values[i])
                                            \/ Len(values[j]) = Len(values[i]) /\ j < i}
    IN  [k \in DOMAIN values |->
            values[CHOOSE i \in DOMAIN values : Cardinality(before(i)) = k - 1]]

RedactSecrets(text, values) ==
    LET ordered == LongestFirst(Unique(values))
        after[k \in 0..Len(ordered)] ==
            IF k = 0 THEN text ELSE Replace(after[k - 1], ordered[k])
    IN  after[Len(ordered)]
=============================================================================
