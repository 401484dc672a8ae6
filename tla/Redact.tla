------------------------------- MODULE Redact -------------------------------
(***************************************************************************)
(* What a probe knows to be secret, and what of its messages is shown:     *)
(* ProbeBase._register_secrets and run_check (probirka/_probe.py), the     *)
(* constructors of the ready-made probes, and to_dict                      *)
(* (probirka/_results.py).                                                 *)
(***************************************************************************)
EXTENDS RedactText

CONSTANTS
    Chars,          \* the letters of registered values and of messages
    Values,         \* values that are registered
    Messages,       \* messages of exceptions
    Urls,           \* URLs given to ready-made probes
    Headers,        \* header values given to HTTP probes
    MaxSecrets      \* bound: values registered one by one with a probe

(* The letters that only passwords, secret headers and the values of query *)
(* parameters are made of.                                                 *)
Private == {"p", "h", "q"}

Token == Chars \cup Private
         \cup {"://", ":", "@", "/", " ", "?key=", "%40", "[", "base64"}

ASSUME RedactAssumption ==
    /\ Mask \notin Token
    /\ MinSecretLength \in Nat \ {0}
    /\ Values \subseteq Seq(Chars) /\ Messages \subseteq Seq(Chars)
    /\ Urls \subseteq Seq(Token) \ {<<>>}
    /\ Headers \subseteq Seq(Seq(Token))
    /\ MaxSecrets \in Nat

VARIABLES
    given,      \* the URL and the headers given to a ready-made probe
    secrets,    \* self._secrets
    error       \* the last message that was redacted, and what came of it

redactVars == <<given, secrets, error>>

-----------------------------------------------------------------------------
NoError == [message |-> <<>>, text |-> <<>>]

RedactInit ==
    /\ given = [url |-> <<>>, headers |-> <<>>]
    /\ secrets = <<>>
    /\ error = NoError

(* A custom probe registers a value, at any time.                          *)
RegisterSecret(value) ==
    /\ given.url = <<>>
    /\ Len(secrets) < MaxSecrets
    /\ secrets' = Append(secrets, value)
    /\ error' = NoError
    /\ UNCHANGED given

(* The constructor of a ready-made probe.                                  *)
MakeReadyProbe(url, headers) ==
    /\ given.url = <<>> /\ secrets = <<>> /\ error = NoError
    /\ given' = [url |-> url, headers |-> headers]
    /\ secrets' = SecretsFromUrl(url) \o SecretsFromHeaders(headers)
    /\ UNCHANGED error

(* What a client library may say of what it was given.                     *)
Echoes ==
    IF given.url = <<>> THEN {}
    ELSE {given.url, Unquote(given.url), <<" ">> \o given.url \o <<" ">>, Basic}
         \cup {Between(given.url, place) : place \in Password(given.url)}
         \cup {Unquote(Between(given.url, place)) : place \in Password(given.url)}
         \cup {given.headers[i] : i \in DOMAIN given.headers}

(* The except clause of run_check.  (Bound: one message between two        *)
(* registrations; redaction has no memory.)                                *)
FormatError(message) ==
    /\ error.message = <<>>
    /\ error' = [message |-> message, text |-> RedactSecrets(message, secrets)]
    /\ UNCHANGED <<given, secrets>>

(* `error' in the response to a health check request.                      *)
ShownError == RedactString(error.text)

RedactNext ==
    \/ \E value \in Values : RegisterSecret(value)
    \/ \E url \in Urls, headers \in Headers : MakeReadyProbe(url, headers)
    \/ \E message \in IF given.url = <<>> THEN Messages ELSE Echoes : FormatError(message)

RedactSpec == RedactInit /\ [][RedactNext]_redactVars

-----------------------------------------------------------------------------
(* Properties.                                                             *)

Long == {i \in DOMAIN secrets : Len(secrets[i]) >= MinSecretLength}

(* No registered value of the minimal length is left in an error, and      *)
(* putting masks in never forms one (_register_secrets: values that must   *)
(* never appear).                                                          *)
NoSecretInError ==
    \A s \in Long, i \in DOMAIN error.text : ~OccursAt(secrets[s], error.text, i)

(* The letters that stand at these positions, in their order.              *)
Picked(text, positions) ==
    [n \in 1..Cardinality(positions) |->
        text[CHOOSE i \in positions : Cardinality({j \in positions : j < i}) = n - 1]]

(* Where values of the minimal length occur in a text.                     *)
Occurrences(text, values) ==
    LET long == {s \in DOMAIN values : Len(values[s]) >= MinSecretLength}
        found(s) == {i \in DOMAIN text : OccursAt(values[s], text, i)}
    IN  UNION {{i..(i + Len(values[s]) - 1) : i \in found(s)} : s \in long}

(* If the occurrences in a message are nested or apart, exactly what they  *)
(* cover is masked: a secret that contains another one leaves no fragment  *)
(* (redact_secrets), and the rest of the message survives in order.        *)
ExactlySecretsMasked ==
    LET places == Occurrences(error.message, secrets)
        tidy == \A P, Q \in places : P \subseteq Q \/ Q \subseteq P \/ P \cap Q = {}
        kept == {i \in DOMAIN error.message : \A P \in places : i \notin P}
        left == {i \in DOMAIN error.text : error.text[i] # Mask}
    IN  tidy => Picked(error.text, left) = Picked(error.message, kept)

Hides(text, letters) == Positions(text, 1, Len(text), letters) = {}

(* A password that redact_string can tell by its shape: it is not empty    *)
(* and has no ":" or " ", nor has the user name, which has no "@" either.  *)
Tidy(url) ==
    /\ url[1] = "://"
    /\ \A place \in Password(url) :
          /\ place[1] + 1 < place[2]
          /\ Positions(url, place[1] + 1, place[2] - 1, {":", " "}) = {}
          /\ Positions(url, 1, place[1] - 1, {":", "@", " "}) = {}

(* A ready-made probe that found a password in its URL shows nothing of it *)
(* in an error, nor of its headers, in whichever form the client library   *)
(* echoes them: because they are known, or, if they are too short for      *)
(* that, by the shape of a tidy URL.                                       *)
EchoHidesPassword ==
    given.url # <<>> /\ error.message # <<>> /\ Password(given.url) # {} =>
        LET long(s) == Len(s) >= MinSecretLength
            known == /\ UrlSplits(given.url) \/ Tidy(given.url)
                     /\ \A place \in Password(given.url) : long(Between(given.url, place))
                     /\ \A i \in DOMAIN given.headers : long(given.headers[i])
            byShape == Tidy(given.url) /\ Contains(error.message, "://")
        IN  known \/ byShape => Hides(ShownError, Private)

(* mask_url hides the password of whatever URL urlsplit accepts, and       *)
(* redact_string, which does not parse, agrees with it on tidy ones.       *)
MaskingsAgree ==
    given.url # <<>> =>
        /\ UrlSplits(given.url) => Hides(MaskUrl(given.url), {"p"})
        /\ Tidy(given.url) =>
              RedactString(given.url) = RedactString(MaskUrl(given.url))
=============================================================================
