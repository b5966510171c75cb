------------------------ MODULE AdministrationChecks ------------------------
(***************************************************************************)
(* The functions of Administration on all small arguments: what they keep, *)
(* and what they compute, next to a second definition.                     *)
(***************************************************************************)
LOCAL INSTANCE Integers
LOCAL INSTANCE Sequences
LOCAL INSTANCE FiniteSets
LOCAL INSTANCE TLC
LOCAL INSTANCE SequencesExt

CONSTANT NaN    \* a value that is no number, and no value at all

LOCAL A == INSTANCE Administration WITH None <- NaN,
    MinFile <- 2, MaxFile <- 4, MinTotal <- 3, MaxTotal <- 6, MaxTypes <- 2,
    MaxAvatar <- 3, MaxSafe <- 6

(* The limits are such as Administration takes them to be.                 *)
ASSUME LimitsHold == A!Limits

LOCAL Image == <<"image">>
LOCAL Png == <<"image", "png">>
LOCAL Patterns == {<<>>, Image, Png, A!Blank}

(* SelectSeq and SubSeq compute the same types as normalizeAllowedTypes.   *)
ASSUME TypesAreTheFirstFew ==
    \A input \in UNION {[1 .. n -> Patterns] : n \in 0 .. 4} :
        LET named == SelectSeq(input, LAMBDA t : t # A!Blank)
            first == SubSeq(named, 1, IF Len(named) < 2 THEN Len(named) ELSE 2) IN
        A!Kept(input) = ToSet(first)

LOCAL Numbers == {NaN, 0, 1, 2, 3, 6, 7}
LOCAL Lists == {NaN, <<>>, <<A!Blank>>, <<Image, Png>>}
LOCAL Fields == {"retention", "maxBytes", "maxTotal", "maxFile", "types", "fileTypes"}
LOCAL Values(field) == IF field \in {"types", "fileTypes"} THEN Lists ELSE Numbers
LOCAL Requests ==
    {[f \in {} |-> NaN]} \cup
    UNION {UNION {{(f :> v) @@ (g :> w) : v \in Values(f), w \in Values(g)} :
                   g \in Fields} : f \in Fields}
LOCAL Settings ==
    {[retention |-> 0, maxBytes |-> b, types |-> t, enabled |-> TRUE, maxTotal |-> m,
      maxFile |-> 2, fileTypes |-> {<<>>}, previews |-> TRUE] :
        b \in 2 .. 4, m \in 3 .. 6, t \in {{Image}, {<<>>}, {Png, Image}}}

(* Every request leaves settings in range, and uploads that do not expire. *)
ASSUME SettingsStayInRange ==
    \A s \in Settings, request \in Requests :
        A!AcceptsSettings(request) =>
            /\ A!SettingsInRange(A!SettingsAfter(s, request))
            /\ A!ExpiresAt(A!SettingsAfter(s, request), 1) = NaN

(* A larger write is never accepted where a smaller one is refused, and an *)
(* accepted one leaves the critical bytes.                                 *)
ASSUME ReserveIsKept ==
    \A free, header, stored \in 0 .. 6, critical \in 1 .. 3 :
        LET incoming == A!Expected(header, stored) IN
        /\ A!AcceptsWrites(free, incoming, critical + 1, critical)
             <=> free - stored >= critical /\ free - header >= critical
        /\ A!Status(free, incoming, critical + 1, critical) = "healthy"
             <=> free - incoming > critical

LOCAL RowIds == 1 .. 3
LOCAL Names == [key : {"a", "b", "c"}, length : {1, 2}]
LOCAL Distinct ==
    {ch \in UNION {[D -> [name : {n \in Names : n.length = 2}, type : {"text"},
                          position : 1 .. 3, glyph : {NaN}]] : D \in SUBSET RowIds} :
        A!ChannelsDistinct(ch)}

(* Creating and renaming channels keeps names and places apart.            *)
ASSUME ChannelsStayDistinct ==
    \A ch \in Distinct, id \in RowIds, name \in Names :
        /\ id \notin DOMAIN ch /\ A!AcceptsChannel(ch, name, "text") =>
             \E n \in 1 .. 4 :
                /\ A!IsNextPosition(ch, n)
                /\ A!ChannelsDistinct(A!ChannelsWith(ch, id, name, "text", n))
        /\ A!AcceptsChannelPatch(ch, id, "name" :> name) =>
             A!ChannelsDistinct(A!ChannelsAfter(ch, id, "name" :> name))

LOCAL Slots == {"icon", "banner"}

(* The upload of an image, after a PATCH of the branding to anything: it   *)
(* is what its slot names and is there, and another slot loses its file    *)
(* only when it names the one that is replaced.                            *)
ASSUME BrandingStaysOnDisk ==
    \A files \in SUBSET {"old", "older"}, slot \in Slots :
        \A given, patch \in [Slots -> {"old", "older", NaN}] :
            LET branding == A!Overlaid(given, patch)
                after == A!BrandingAfter(branding, slot, "new")
                left == A!FilesAfter(files, branding, slot, "new") IN
            /\ after[slot] = "new" /\ "new" \in left
            /\ \A t \in Slots \ {slot} :
                 /\ after[t] = branding[t]
                 /\ branding[t] \in files \ left => branding[t] = branding[slot]

LOCAL Texts == [length : {0, 1, 2, 3, 4, 32, 33, 60, 61, 180, 181}, image : BOOLEAN]
LOCAL Profiles == [displayName : {NaN, [length |-> 2, image |-> FALSE]},
                   avatar : {NaN, [length |-> 3, image |-> TRUE]}]

ASSUME ProfilesStayInRange ==
    \A profile \in Profiles, name, avatar \in Texts \cup {NaN} :
        \A request \in {"displayName" :> name, "avatar" :> avatar,
                        ("displayName" :> name) @@ ("avatar" :> avatar)} :
            A!AcceptsProfile(request) =>
                A!ProfileInRange(A!ProfileAfter(profile, request))

ASSUME ServersStayInRange ==
    \A name, description \in Texts :
        LET config == [name |-> [length |-> 2], description |-> [length |-> 2],
                       branding |-> "icon" :> NaN]
            request == ("name" :> name) @@ ("description" :> description) IN
        A!AcceptsServer(config, request) =>
            A!ServerInRange(A!ServerAfter(config, request))
=============================================================================
