--------------------------- MODULE Administration ---------------------------
(***************************************************************************)
(* What the owner of a server changes in server/src/server.js: settings,   *)
(* name and branding of the server, its channels; and what a member        *)
(* changes of his own profile.  Each handler runs from its first read to   *)
(* its last write without an await, so each is a function here: whether it *)
(* accepts the request, and the value it leaves.                           *)
(*                                                                         *)
(* A request is a function over the fields that its body has.  A number    *)
(* that JavaScript cannot convert is None.  A text is a record of its      *)
(* length after trim() and what else the handlers tell apart.              *)
(***************************************************************************)
EXTENDS Integers, FiniteSets

CONSTANTS
    MinFile, MaxFile,      \* 1024 and 2^30 bytes
    MinTotal, MaxTotal,    \* 2^20 and 2^40 bytes
    MaxTypes,              \* normalizeAllowedTypes keeps so many types
    MaxAvatar,             \* 1500000 characters
    MaxSafe,               \* Number.MAX_SAFE_INTEGER
    None

Limits ==
    /\ MinFile \in Nat \ {0} /\ MaxFile \in Nat /\ MinFile <= MaxFile
    /\ MinTotal \in Nat \ {0} /\ MaxTotal \in Nat /\ MinTotal <= MaxTotal
    /\ MaxTypes \in Nat \ {0} /\ MaxAvatar \in Nat /\ MaxSafe \in Nat
    /\ None \notin Int

Has(request, field) == field \in DOMAIN request
Field(request, field, current) == IF Has(request, field) THEN request[field] ELSE current

------------------------------------------------------------------------------
(***************************************************************************)
(* Settings.  A pattern of allowed types is <<>> for "*", <<family>> for   *)
(* "family/", or a type <<family, subtype>>; Blank is an empty pattern.    *)
(***************************************************************************)
Blank == <<"", "">>

\* normalizeAllowedTypes.  Not an array: None.
Kept(input) ==
    {input[i] : i \in {j \in DOMAIN input :
        /\ input[j] # Blank
        /\ Cardinality({k \in 1 .. j : input[k] # Blank}) <= MaxTypes}}

AllowedTypes(input, fallback) ==
    IF input = None \/ Kept(input) = {} THEN fallback ELSE Kept(input)

\* isAllowedMimeType
Allowed(type, patterns) ==
    <<>> \in patterns \/ <<type[1]>> \in patterns \/ type \in patterns

Within(value, low, high) == value \in Int /\ low <= value /\ value <= high

AcceptsSettings(request) ==
    /\ Has(request, "retention") => request["retention"] = 0
    /\ Has(request, "maxBytes") => Within(request["maxBytes"], MinFile, MaxFile)
    /\ Has(request, "maxTotal") => Within(request["maxTotal"], MinTotal, MaxTotal)
    /\ Has(request, "maxFile") => Within(request["maxFile"], MinFile, MaxFile)

SettingsAfter(s, request) ==
    [retention |-> Field(request, "retention", s.retention),
     maxBytes |-> Field(request, "maxBytes", s.maxBytes),
     types |-> IF Has(request, "types")
               THEN AllowedTypes(request["types"], s.types) ELSE s.types,
     enabled |-> Field(request, "enabled", s.enabled),
     maxTotal |-> Field(request, "maxTotal", s.maxTotal),
     maxFile |-> Field(request, "maxFile", s.maxFile),
     fileTypes |-> IF Has(request, "fileTypes")
                   THEN AllowedTypes(request["fileTypes"], s.fileTypes) ELSE s.fileTypes,
     previews |-> Field(request, "previews", s.previews)]

\* computeExpiresAt, of an upload at a time
ExpiresAt(s, now) == IF s.retention = 0 THEN None ELSE now + s.retention

(***************************************************************************)
(* The upload of a plaintext attachment: total is what the ordinary        *)
(* attachments hold already.                                               *)
(***************************************************************************)
AdmitsUpload(s, total, size, type) ==
    /\ size <= s.maxBytes
    /\ Allowed(type, s.types)
    /\ total + size <= s.maxTotal

------------------------------------------------------------------------------
(***************************************************************************)
(* readStorageCapacity: how much a filesystem has left after a request, by *)
(* its Content-Length (None: not given, or no number) or by the size of a  *)
(* file that the request has stored already.                               *)
(***************************************************************************)
Clamped(n) == IF n <= 0 THEN 0 ELSE IF n > MaxSafe THEN MaxSafe ELSE n

Expected(header, stored) ==
    LET announced == IF header = None THEN 0 ELSE Clamped(header) IN
    IF stored > announced THEN stored ELSE announced

LeftAfter(free, incoming) ==
    LET left == Clamped(free) - Clamped(incoming) IN IF left < 0 THEN 0 ELSE left

Status(free, incoming, warning, critical) ==
    IF LeftAfter(free, incoming) < critical THEN "critical"
    ELSE IF LeftAfter(free, incoming) < warning THEN "warning" ELSE "healthy"

AcceptsWrites(free, incoming, warning, critical) ==
    Status(free, incoming, warning, critical) # "critical"

------------------------------------------------------------------------------
(***************************************************************************)
(* Name, description and branding of the server.  Branding is a function   *)
(* of whatever the owner sends; an upload sets one slot and then removes   *)
(* the file that the slot named before, when it is one of this server's,   *)
(* and looks at no other slot.                                             *)
(***************************************************************************)
AcceptsServer(config, request) ==
    /\ Within(Field(request, "name", config.name).length, 2, 60)
    /\ Within(Field(request, "description", config.description).length, 2, 180)

Overlaid(branding, patch) ==
    [slot \in DOMAIN branding \cup DOMAIN patch |-> Field(patch, slot, branding[slot])]

ServerAfter(config, request) ==
    [name |-> Field(request, "name", config.name),
     description |-> Field(request, "description", config.description),
     branding |-> IF Has(request, "branding")
                  THEN Overlaid(config.branding, request["branding"])
                  ELSE config.branding]

\* persistBrandingAsset: the branding, and the files it leaves on disk
BrandingAfter(branding, slot, file) == Overlaid(branding, [s \in {slot} |-> file])

FilesAfter(files, branding, slot, file) ==
    (files \cup {file}) \ {Field(branding, slot, None)}

------------------------------------------------------------------------------
(***************************************************************************)
(* Channels: a function from the ids of the channels there are.  The key   *)
(* of a name is lower(name).                                               *)
(***************************************************************************)
ValidName(name) == Within(name.length, 2, 40)

Taken(channels, name, except) ==
    \E c \in DOMAIN channels \ except : channels[c].name.key = name.key

\* normalizeChannelGlyph; None takes the glyph away.
ValidGlyph(glyph) ==
    \/ glyph = None
    \/ glyph.length <= 64 /\ glyph.kind \in {"icon", "emoji"} /\ glyph.named

AcceptsChannel(channels, name, type) ==
    ValidName(name) /\ type \in {"text", "voice"} /\ ~Taken(channels, name, {})

\* 1 + COALESCE(MAX(position), 0)
IsNextPosition(channels, n) ==
    /\ \A c \in DOMAIN channels : channels[c].position < n
    /\ n = 1 \/ \E c \in DOMAIN channels : channels[c].position = n - 1

ChannelsWith(channels, id, name, type, position) ==
    [c \in DOMAIN channels \cup {id} |->
        IF c = id
        THEN [name |-> name, type |-> type, position |-> position, glyph |-> None]
        ELSE channels[c]]

AcceptsChannelPatch(channels, id, request) ==
    /\ id \in DOMAIN channels
    /\ ~Has(request, "mode") /\ ~Has(request, "version")
    /\ Has(request, "name") \/ Has(request, "glyph")
    /\ Has(request, "name") =>
         ValidName(request["name"]) /\ ~Taken(channels, request["name"], {id})
    /\ Has(request, "glyph") => ValidGlyph(request["glyph"])

ChannelsAfter(channels, id, request) ==
    [channels EXCEPT ![id] =
        [name |-> Field(request, "name", channels[id].name),
         type |-> channels[id].type, position |-> channels[id].position,
         glyph |-> Field(request, "glyph", channels[id].glyph)]]

ChannelsWithout(channels, id) == [c \in DOMAIN channels \ {id} |-> channels[c]]

------------------------------------------------------------------------------
(***************************************************************************)
(* PATCH /api/users/me.  A blank avatar takes the avatar away.             *)
(***************************************************************************)
AcceptsProfile(request) ==
    /\ Has(request, "displayName") \/ Has(request, "avatar")
    /\ Has(request, "displayName") =>
         request["displayName"] = None \/ Within(request["displayName"].length, 2, 32)
    /\ Has(request, "avatar") =>
         LET avatar == request["avatar"] IN
         avatar = None \/ avatar.length = 0 \/ (avatar.length <= MaxAvatar /\ avatar.image)

ProfileAfter(profile, request) ==
    [displayName |-> Field(request, "displayName", profile.displayName),
     avatar |-> IF Has(request, "avatar") /\ request["avatar"] # None
                   /\ request["avatar"].length = 0
                THEN None ELSE Field(request, "avatar", profile.avatar)]

------------------------------------------------------------------------------
(***************************************************************************)
(* What the owner can bring about, request by request: limits that stay    *)
(* within those of the handlers, attachments that never expire, and a type *)
(* to upload.                                                              *)
(***************************************************************************)
SettingsInRange(s) ==
    /\ s.retention = 0
    /\ Within(s.maxBytes, MinFile, MaxFile) /\ Within(s.maxFile, MinFile, MaxFile)
    /\ Within(s.maxTotal, MinTotal, MaxTotal)
    /\ s.types # {} /\ s.fileTypes # {}

\* What clients are sent of a member can be shown: no empty names or images.
ProfileInRange(profile) ==
    /\ profile.displayName = None \/ Within(profile.displayName.length, 2, 32)
    /\ \/ profile.avatar = None
       \/ Within(profile.avatar.length, 1, MaxAvatar) /\ profile.avatar.image

ServerInRange(config) ==
    Within(config.name.length, 2, 60) /\ Within(config.description.length, 2, 180)

\* Neither two names that differ in case only, nor two channels in one place.
ChannelsDistinct(channels) ==
    /\ \A c \in DOMAIN channels : channels[c].position \in Nat \ {0}
    /\ \A c, d \in DOMAIN channels : c # d =>
         /\ channels[c].name.key # channels[d].name.key
         /\ channels[c].position # channels[d].position
=============================================================================
