------------------------------ MODULE Settings ------------------------------
(***************************************************************************)
(* The settings an account reads and writes: privacy and notifications     *)
(* (ops/account.rs, dto/account.rs, dto/notifications.rs), dialog folders  *)
(* (ops/folders.rs, dto/folders.rs) and the links folders are shared by    *)
(* (dto/chatlists.rs).  What is read comes as a projection and what is     *)
(* written as a specification, and the two do not say the same things.     *)
(* peerOf, chatOf and dtoOf give the projections of the peers met, reached   *)
(* is the set of those the account has access to.                           *)
(***************************************************************************)
EXTENDS Content

-----------------------------------------------------------------------------
(* Privacy.                                                                *)

PrivacyKeys == {"statusTimestamp", "chatInvite", "phoneNumber"}
PrivacyKeyAccepted(key) == key \in PrivacyKeys

ValuelessRules ==
    {"allowAll", "disallowAll", "allowContacts", "disallowContacts",
     "allowCloseFriends", "allowPremium", "allowBots", "disallowBots"}
ChatRules == {"allowChatParticipants", "disallowChatParticipants"}
\* A user of a rule goes with an access hash, which a specification has not.
UserRules == {"allowUsers", "disallowUsers"}

PrivacyRule ==
         [kind : ValuelessRules]
    \cup [kind : ChatRules, chats : Seq(Int)]
    \cup [kind : UserRules, users : Seq(Int)]

PrivacyRuleDto(rule) ==
    [kind |-> rule.kind,
     users |-> IF rule.kind \in UserRules THEN rule.users ELSE <<>>,
     chats |-> IF rule.kind \in ChatRules THEN rule.chats ELSE <<>>]

PrivacyRulesDto(key, rules) ==
    [key |-> key,
     rules |-> [i \in DOMAIN rules.rules |-> PrivacyRuleDto(rules.rules[i])],
     chats |-> [i \in DOMAIN rules.chats |-> rules.chats[i].id],
     users |-> [i \in DOMAIN rules.users |-> rules.users[i].id]]

PrivacyRuleAccepted(spec) == spec.kind \in ValuelessRules \cup ChatRules
PrivacyRuleInput(spec) ==
    IF spec.kind \in ChatRules THEN [kind |-> spec.kind, chats |-> spec.chats]
    ELSE [kind |-> spec.kind]

-----------------------------------------------------------------------------
(* Sessions and the password.                                              *)

AuthorizationDto(authorization) ==
    With(Keep(authorization,
              {"current", "officialApp", "passwordPending",
               "encryptedRequestsDisabled", "callRequestsDisabled",
               "unconfirmed", "hash", "deviceModel", "platform",
               "systemVersion", "apiId", "appName", "appVersion", "ip",
               "country", "region"}),
         [dateCreated |-> Millis(authorization.dateCreated),
          dateActive |-> Millis(authorization.dateActive)])

AuthorizationsDto(ttl, authorizations) ==
    [authorizationTtlDays |-> ttl,
     authorizations |-> [i \in DOMAIN authorizations |->
                            AuthorizationDto(authorizations[i])]]

PasswordSettingsDto(password) ==
    With(Keep(password, {"hasPassword", "hasRecovery", "hasSecureValues",
                         "hint", "emailUnconfirmedPattern",
                         "loginEmailPattern"}),
         Mapped(password, "pendingResetDate", "pendingResetDate", Millis))

-----------------------------------------------------------------------------
(* Notifications.                                                          *)

\* What a sound of a kind carries.
SoundFields ==
    [default |-> {}, none |-> {}, local |-> {"title", "data"},
     ringtone |-> {"id"}]

NotificationSoundDto(sound) == Keep(sound, {"kind"} \cup SoundFields[sound.kind])

\* A sound is asked for with what its kind carries; what else is set with it
\* is not looked at.
SoundAccepted(spec) ==
    /\ spec.kind \in DOMAIN SoundFields
    /\ SoundFields[spec.kind] \subseteq DOMAIN spec
NotifySoundInput(spec) == Keep(spec, {"kind"} \cup SoundFields[spec.kind])

\* The settings of a peer carry six sounds.
ReadSounds == {"iosSound", "androidSound", "otherSound", "storiesIosSound",
               "storiesAndroidSound", "storiesOtherSound"}
NotifyFlags == {"showPreviews", "silent", "storiesMuted", "storiesHideSender"}

PeerNotifySettingsDto(settings) ==
    Joined(<<Keep(settings, NotifyFlags),
             Mapped(settings, "muteUntil", "muteUntil", Millis),
             [f \in ReadSounds \cap DOMAIN settings |->
                 NotificationSoundDto(settings[f])]>>)

NotifySettingsDto(scope, settings) ==
    [scope |-> scope, settings |-> PeerNotifySettingsDto(settings)]

\* The two that are written go for every platform.  A date that the layer's
\* field cannot hold is refused.
WrittenSounds == {"sound", "storiesSound"}

Seconds(millis) == TowardsZero(millis, 1000)

NotifySettingsAccepted(spec) ==
    /\ "muteUntil" \in DOMAIN spec => Seconds(spec.muteUntil) \in Int32
    /\ \A f \in WrittenSounds \cap DOMAIN spec : SoundAccepted(spec[f])

NotifySettingsInput(spec) ==
    Joined(<<Keep(spec, NotifyFlags),
             Mapped(spec, "muteUntil", "muteUntil", Seconds),
             [f \in WrittenSounds \cap DOMAIN spec |->
                 NotifySoundInput(spec[f])]>>)

\* The scope of settings, and who they are of.  Half of the scopes name a
\* peer, which has been resolved by the time they are looked at.
PeerScopes == {"peer", "forumTopic", "community"}
NotifyScopes == PeerScopes \cup {"account", "users", "chats", "broadcasts"}

NotifyPeerAccepted(r, peer) ==
    /\ r.scope = "forumTopic" => "topMsgId" \in DOMAIN r
    /\ r.scope = "community" => peer.kind = "channel"

NotifyPeerInput(r, peer) ==
    CASE r.scope = "account" -> [kind |-> "peer", peer |-> [kind |-> "self"]]
      [] r.scope = "peer" -> [kind |-> "peer", peer |-> peer]
      [] r.scope = "forumTopic" ->
            [kind |-> "forumTopic", peer |-> peer, topMsgId |-> r.topMsgId]
      [] r.scope = "community" -> [kind |-> "community", peer |-> peer]
      [] OTHER -> [kind |-> r.scope]

-----------------------------------------------------------------------------
(* Folders.                                                                *)

FolderFlags ==
    {"contacts", "nonContacts", "groups", "broadcasts", "bots",
     "excludeMuted", "excludeRead", "excludeArchived"}
FolderPeers == {"pinnedPeers", "includePeers", "excludePeers"}

\* A folder's peers are asked for one by one: those the account has lost
\* access to are left out of the projection, and nothing says so.
Reachable(peers, reached) == {i \in DOMAIN peers : peers[i] \in reached}

PeersDto(peers, reached, dtoOf) ==
    LET there == At(peers, Reachable(peers, reached))
    IN  [i \in DOMAIN there |-> dtoOf[there[i]]]

\* A shared folder has no rules and excludes nobody; the folder of all chats
\* has nothing at all.
DialogFolderDto(folder, reached, dtoOf) ==
    Joined(<<[f \in FolderFlags |-> folder.kind = "filter" /\ folder[f]],
             [f \in FolderPeers |->
                 PeersDto(OrElse(folder, f, <<>>), reached, dtoOf)],
             [kind |-> folder.kind,
              id |-> OrElse(folder, "id", 0),
              title |-> OrElse(folder, "title", [text |-> ""]).text,
              hasMyInvites |-> OrElse(folder, "hasMyInvites", FALSE)]>>)

DialogFoldersDto(folders, tags, reached, dtoOf) ==
    [tagsEnabled |-> tags,
     filters |-> [i \in DOMAIN folders |->
                     DialogFolderDto(folders[i], reached, dtoOf)]]

\* What a folder is written as, whatever it was: without an emoticon, a
\* colour or formatting in its title.
DialogFilterInput(id, spec, peerOf) ==
    Joined(<<[f \in FolderFlags |-> OrElse(spec, f, FALSE)],
             [f \in FolderPeers |->
                 LET peers == OrElse(spec, f, <<>>)
                 IN  [i \in DOMAIN peers |-> peerOf[peers[i]]]],
             [kind |-> "filter", id |-> id, titleNoanimate |-> FALSE,
              title |-> [text |-> spec.title, entities |-> <<>>]]>>)

-----------------------------------------------------------------------------
(* Shared folders.                                                         *)

\* The slug of an invite's URL is the segment after "/+" or, without one,
\* after "joinchat/".  A URL is the form its path has and that segment.
SlugAccepted(url) == url.form \in {"plus", "joinchat"} /\ url.slug # ""

BarePeersDto(peers) ==
    [i \in DOMAIN peers |->
        [kind |-> peers[i].kind, id |-> DialogId(peers[i])]]

ExportedInviteDto(invite) ==
    [title |-> invite.title, slug |-> invite.url.slug, url |-> invite.url,
     peers |-> BarePeersDto(invite.peers)]

\* One invite without a slug makes an error of the whole list.
ExportedInvitesAccepted(invites) ==
    \A i \in DOMAIN invites : SlugAccepted(invites[i].url)

Listed(result, chatOf) ==
    [chats |-> [i \in DOMAIN result.chats |-> chatOf[result.chats[i]]],
     users |-> [i \in DOMAIN result.users |-> UserDto(result.users[i])]]

ExportedInvitesDto(result, chatOf) ==
    With(Listed(result, chatOf),
         [invites |-> [i \in DOMAIN result.invites |->
                          ExportedInviteDto(result.invites[i])]])

\* The peers of an answer that its own lists describe, in its order.
NamedPeers(result, f, peerOf) ==
    LET there == SelectSeq(result[f], LAMBDA peer : Described(result, peer))
    IN  [i \in DOMAIN there |-> peerOf[FirstMatch(result, there[i])]]

ChatlistInviteDto(result, peerOf, chatOf) ==
    Joined(<<Listed(result, chatOf),
             IF result.kind = "new"
             THEN Joined(<<Keep(result, {"kind", "titleNoanimate", "emoticon"}),
                           [title |-> result.title.text,
                            titleEntities |-> Entities(result.title.entities),
                            peers |-> NamedPeers(result, "peers", peerOf)]>>)
             ELSE [kind |-> "already", filterId |-> result.filterId,
                   missingPeers |-> NamedPeers(result, "missingPeers", peerOf),
                   alreadyPeers |-> NamedPeers(result, "alreadyPeers", peerOf)]>>)

ChatlistUpdatesDto(result, peerOf, chatOf) ==
    With(Listed(result, chatOf),
         [missingPeers |-> NamedPeers(result, "missingPeers", peerOf)])

\* What joining changed, as far as the updates say.
UpdatesAckDto(updates, chatOf) ==
    [ok |-> TRUE,
     peers |-> IF updates.kind \in {"combined", "updates"}
               THEN [i \in DOMAIN updates.chats |-> chatOf[updates.chats[i]]]
               ELSE <<>>]

-----------------------------------------------------------------------------
(* Properties.                                                             *)

\* A privacy rule that was read is accepted when it is written again, and is
\* then the rule it was, unless it lists users: such a rule can be read
\* (dto/account.rs:171) but never written (ops/account.rs:589).
PrivacyRuleIsWrittenAgain(rule) ==
    LET dto == PrivacyRuleDto(rule) IN
    /\ PrivacyRuleAccepted(dto) <=> rule.kind \notin UserRules
    /\ PrivacyRuleAccepted(dto) => PrivacyRuleInput(dto) = rule

\* A sound that was read can be written, and is then the sound it was.
SoundIsWrittenAgain(sound) ==
    /\ SoundAccepted(NotificationSoundDto(sound))
    /\ NotifySoundInput(NotificationSoundDto(sound)) = sound

NotificationSound ==
         [kind : {"default", "none"}]
    \cup [kind : {"local"}, title : STRING, data : STRING]
    \cup [kind : {"ringtone"}, id : Int]

\* So does the date a mute ends, to the second.
MuteIsWrittenAgain(date) ==
    Seconds(Millis(date)) = date /\ Seconds(Millis(date)) \in Int32

\* A folder: one with rules, a shared one or that of all chats.
RuledFolderFields ==
    FolderFlags \cup FolderPeers \cup {"kind", "id", "title", "titleNoanimate"}

IsFolder(folder, Peer, Entity) ==
    /\ folder = [f \in DOMAIN folder |-> folder[f]]
    /\ "kind" \in DOMAIN folder
    /\ folder.kind \in {"filter", "chatlist", "default"}
    /\ folder.kind = "filter" =>
          /\ RuledFolderFields \subseteq DOMAIN folder
          /\ DOMAIN folder \subseteq RuledFolderFields \cup {"emoticon", "color"}
          /\ folder.id \in Int
          /\ folder.title \in [text : STRING, entities : Seq(Entity)]
          /\ folder.titleNoanimate \in BOOLEAN
          /\ \A f \in FolderFlags : folder[f] \in BOOLEAN
          /\ \A f \in FolderPeers : folder[f] \in Seq(Peer)

\* A folder that is read and written back unchanged (dto/folders.rs:67,
\* ops/folders.rs:139) is the same folder exactly when it was a plain one:
\* no shared folder, no emoticon or colour, no formatting in its title, and
\* every peer one the account can still reach.
Plain(folder, reached) ==
    /\ folder.kind = "filter"
    /\ folder.title.entities = <<>>
    /\ {"emoticon", "color"} \cap DOMAIN folder = {}
    /\ ~folder.titleNoanimate
    /\ \A f \in FolderPeers : \A i \in DOMAIN folder[f] : folder[f][i] \in reached

WrittenBack(folder, reached) ==
    LET same == [peer \in reached |-> peer]
        dto == DialogFolderDto(folder, reached, same)
    IN  DialogFilterInput(dto.id, dto, same)

FolderIsWrittenBack(folder, reached) ==
    WrittenBack(folder, reached) = folder <=> Plain(folder, reached)
=============================================================================
