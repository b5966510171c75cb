--------------------------- MODULE PresenceChecks ---------------------------
(***************************************************************************)
(* The functions of Presence on up to three sockets of two users in two    *)
(* decks.                                                                  *)
(***************************************************************************)
LOCAL INSTANCE Integers
LOCAL INSTANCE FiniteSets
LOCAL INSTANCE TLC

CONSTANT Nowhere    \* no deck, no time, no socket, no YUID

LOCAL V == INSTANCE Presence WITH Flags <- {"mic", "camera"}, None <- Nowhere

LOCAL Decks == {"r", "s"}
LOCAL Entries ==
    [user : {1, 2}, room : Decks, joined : {1, 2}, media : {{}, {"mic"}}] \cup
    [user : {1, 2}, room : {Nowhere}, joined : {Nowhere}, media : {{}, {"mic"}}]
LOCAL Presences == UNION {[D -> Entries] : D \in SUBSET (1 .. 3)}

LOCAL OneInVoice(presence) ==
    \A u \in {1, 2} : Cardinality(V!InVoice(presence, u)) <= 1

(* A member is shown in a deck that has someone since he joined it at the  *)
(* latest.  Where nobody is in voice twice, the decks have as many as are  *)
(* shown in them, and each with the flags of that connection.              *)
ASSUME ListsAgree ==
    \A presence \in Presences :
        LET list == V!MemberList(presence, <<Nowhere, Nowhere>>, {})
            Deck(r) == V!DeckActivity(presence, r) IN
        /\ \A u \in {1, 2} :
             /\ list[u].room # Nowhere =>
                  /\ list[u].online
                  /\ Deck(list[u].room).occupancy > 0
                  /\ Deck(list[u].room).since <= list[u].joined
                  /\ \A s \in V!InVoice(presence, u) : list[u].joined <= presence[s].joined
             /\ OneInVoice(presence) =>
                  \A s \in V!InVoice(presence, u) :
                     /\ list[u].room = presence[s].room
                     /\ list[u].media = presence[s].media
        /\ Deck("r").occupancy + Deck("s").occupancy =
             Cardinality(V!InVoice(presence, 1)) + Cardinality(V!InVoice(presence, 2))
        /\ OneInVoice(presence) =>
             \A r \in Decks :
                Deck(r).occupancy = Cardinality({u \in {1, 2} : list[u].room = r})

(* Joining the same deck again leaves everything as it is; a later time in *)
(* a deck never makes it look older; leaving undoes a join.                *)
ASSUME JoinsAreOrderly ==
    \A presence \in {p \in Presences : DOMAIN p # {} /\ OneInVoice(p)} :
        \A s \in DOMAIN presence, r \in Decks :
            LET once == V!Joined(presence, s, r, 3) IN
            /\ V!Joined(once, s, r, 4) = once
            /\ \A t \in DOMAIN once : once[t].room = Nowhere <=> once[t].joined = Nowhere
            /\ V!Left(once, s) = V!Left(presence, s)
            /\ presence[s].room # r /\ V!DeckActivity(presence, r).occupancy > 0 =>
                 V!DeckActivity(once, r).since = V!DeckActivity(presence, r).since
            /\ V!InVoice(V!ChannelDeleted(once, r), once[s].user) =
                 V!InVoice(once, once[s].user) \ {t \in DOMAIN once : once[t].room = r}

(* The others are told exactly if the flags they are shown may differ.     *)
ASSUME FlagsAreTold ==
    \A presence \in {p \in Presences : Cardinality(DOMAIN p) = 2} :
        \A s \in DOMAIN presence :
            \A patch \in UNION {[D -> BOOLEAN] : D \in SUBSET {"mic", "camera"}} :
                LET after == V!Switched(presence, s, patch) IN
                /\ V!IsTold(presence, s, patch) <=> after # presence
                /\ \A f \in {"mic", "camera"} :
                     f \in after[s].media <=>
                        IF f \in DOMAIN patch THEN patch[f] ELSE f \in presence[s].media
                /\ V!Switched(after, s, patch) = after

(* Nobody who is banned, by account or by identity, is listed; a user      *)
(* whose sockets are dropped is shown offline, and nobody else is.         *)
ASSUME GoneAreOffline ==
    LET users == <<"y", Nowhere>> IN
    /\ V!Listed(users, {[user |-> 1, yuid |-> Nowhere]}) = {2}
    /\ V!Listed(users, {[user |-> Nowhere, yuid |-> "y"]}) = {2}
    /\ V!Listed(users, {[user |-> 2, yuid |-> Nowhere]}) = {1}
    /\ \A presence \in Presences :
         LET after == V!UserDisconnected(presence, 1) IN
         /\ ~V!Member(after, 1).online /\ V!Member(after, 1).room = Nowhere
         /\ V!Member(after, 2) = V!Member(presence, 2)
=============================================================================
