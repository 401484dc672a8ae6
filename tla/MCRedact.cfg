SPECIFICATION MCSpec
CONSTANTS
    a = a
    b = b
    Chars <- MCChars
    Mask = Mask
    MinSecretLength = 2
    Values <- MCValues
    Messages <- MCMessages
    Urls <- MCUrls
    Headers <- MCHeaders
    MaxSecrets = 3
    password = password
    name = name
    SensitiveKeys = {password}
    Infos <- MCInfos
INVARIANTS NoSecretInError ExactlySecretsMasked EchoHidesPassword MaskingsAgree SensitiveInfoMasked
CHECK_DEADLOCK FALSE
