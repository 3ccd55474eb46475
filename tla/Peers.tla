------------------------------- MODULE Peers --------------------------------
(***************************************************************************)
(* Users, chats and channels as the bridge names and describes them: the   *)
(* numbers they go by (ops/chats.rs:598), their projections (dto/peer.rs,  *)
(* dto/user.rs, dto/participant.rs), and the rights and restrictions of a  *)
(* member, which cross both ways (dto/permissions.rs, ops/chats.rs:422).   *)
(*                                                                         *)
(* A value of Telegram's is a record tagged by its kind; a field without a *)
(* value is absent.  TL names are written as the projections write them.   *)
(***************************************************************************)
EXTENDS Integers, Sequences, Records

Million == 1000000

-----------------------------------------------------------------------------
(* Numbers.                                                                *)

\* Seconds become milliseconds on the way out.  On the way in they are cut
\* towards zero and to the width of the TL field.
Millis(seconds) == seconds * 1000
TowardsZero(n, d) == IF n >= 0 THEN n \div d ELSE -((-n) \div d)

Half32 == 2147 * Million + 483648
Int32 == (-Half32)..(Half32 - 1)
Wrap32(n) == ((n + Half32) % (2 * Half32)) - Half32
UntilDate(millis) == Wrap32(TowardsZero(millis, 1000))

-----------------------------------------------------------------------------
(* Peer ids.  Users, chats and channels share one line of numbers.         *)

Trillion == Million * Million
MaxUser == 1099511 * Million + 627775
MaxChannel == 997852 * Million + 516352

UserIds == 1..MaxUser
ChatIds == 1..(Trillion - 1)
ChannelIds == 1..MaxChannel
\* Channels that are another channel's direct messages.
MinMonoforum == 1002147 * Million + 483649
MonoforumIds == MinMonoforum..(3 * Trillion)

\* The number grammers gives a peer.
DialogId(peer) ==
    CASE peer.kind = "user" -> peer.id
      [] peer.kind = "chat" -> -peer.id
      [] peer.kind = "channel" -> -Trillion - peer.id

\* The numbers resolvePeer takes for a channel.  The second range, written
\* from its smaller absolute value down, holds no number.
ChannelNumbers == (-Trillion - MaxChannel)..(-Trillion - 1)
MonoforumNumbers == (-Trillion - MinMonoforum)..(-4 * Trillion)

PeerIdAccepted(number) ==
    \/ number \in UserIds
    \/ -number \in ChatIds
    \/ number \in ChannelNumbers \cup MonoforumNumbers

PeerIdFromBotApiId(number) ==
    CASE number \in UserIds -> [kind |-> "user", id |-> number]
      [] -number \in ChatIds -> [kind |-> "chat", id |-> -number]
      [] OTHER -> [kind |-> "channel", id |-> -number - Trillion]

\* A TL peer that is there has a number.
PeerDialogId(r, f, name) == Mapped(r, f, name, DialogId)

-----------------------------------------------------------------------------
(* Rights and restrictions.                                                *)

AdminFlags ==
    {"changeInfo", "postMessages", "editMessages", "deleteMessages",
     "banUsers", "inviteUsers", "pinMessages", "addAdmins", "anonymous",
     "manageCall", "other", "manageTopics", "postStories", "editStories",
     "deleteStories", "manageDirectMessages", "manageRanks",
     "manageLinkedPeers", "manageWelcomeMessages"}

BannedFlags ==
    {"viewMessages", "sendMessages", "sendMedia", "sendStickers", "sendGifs",
     "sendGames", "sendInline", "embedLinks", "sendPolls", "changeInfo",
     "inviteUsers", "pinMessages", "manageTopics", "sendPhotos", "sendVideos",
     "sendRoundvideos", "sendAudios", "sendVoices", "sendDocs", "sendPlain",
     "editRank", "sendReactions", "manageLinkedPeers"}

ChatPermissionsDto(rights) == [f \in AdminFlags |-> rights[f]]
ChatAdminRights(dto) == [f \in AdminFlags |-> dto[f]]

\* Restrictions end at a time, 0 being never.
ChatRestrictionsDto(rights) ==
    [f \in BannedFlags \cup {"untilDate"} |->
        IF f = "untilDate" THEN Millis(rights.untilDate) ELSE rights[f]]
ChatBannedRights(dto) ==
    [f \in BannedFlags \cup {"untilDate"} |->
        IF f = "untilDate" THEN UntilDate(dto.untilDate) ELSE dto[f]]

\* The rights sent when the caller asks for the current ones to be loaded:
\* each field of the current ones is overwritten.
MergeAdmin(current, requested) ==
    [f \in DOMAIN current |->
        IF f \in AdminFlags THEN requested[f] ELSE current[f]]
MergeBanned(current, requested) ==
    [f \in DOMAIN current |->
        IF f \in BannedFlags \cup {"untilDate"} THEN requested[f]
        ELSE current[f]]

\* What is loaded for a participant of another role is nothing.
LoadChannelAdmin(participant) ==
    IF participant.kind \in {"creator", "admin"}
    THEN {participant.rights} ELSE {}
LoadChannelBanned(participant) ==
    IF participant.kind = "banned" THEN {participant.rights} ELSE {}

\* A basic group knows admins and others; any of these rights makes an admin.
PromotingFlags ==
    {"anonymous", "changeInfo", "postMessages", "editMessages",
     "deleteMessages", "banUsers", "inviteUsers", "pinMessages", "addAdmins",
     "manageCall"}
BasicGroupPromote(rights) == \E f \in PromotingFlags : rights[f]

-----------------------------------------------------------------------------
(* Users.                                                                  *)

\* A presence: its name, when it ends or was last seen, and whether it is
\* vague because this user's own is.
StatusDto(status) ==
    LET is(name, r) == With([status |-> name, statusByMe |-> FALSE], r) IN
    CASE status.kind = "empty" -> is("unknown", None)
      [] status.kind = "online" ->
            is("online", [statusExpires |-> Millis(status.expires)])
      [] status.kind = "offline" ->
            is("offline", [lastSeen |-> Millis(status.wasOnline)])
      [] status.kind \in {"recently", "lastWeek", "lastMonth"} ->
            is(status.kind, [statusByMe |-> status.byMe])

PlatformName(platform) ==
    IF platform.kind \in {"all", "android", "ios", "windowsPhone"}
    THEN platform.kind
    ELSE IF platform.kind = "other" THEN platform.name ELSE "unknown"

RestrictionReasonDto(reason) ==
    [platforms |-> [i \in DOMAIN reason.platforms |->
                        PlatformName(reason.platforms[i])],
     reason |-> reason.reason, text |-> reason.text]

UserFields ==
    {"id", "username", "firstName", "lastName", "fullName", "usernames",
     "phone", "photoId", "langCode", "isSelf", "contact", "mutualContact",
     "deleted", "isBot", "botPrivacy", "botSupportsChats", "botInlineGeo",
     "botInlinePlaceholder", "verified", "restricted", "support", "scam"}

UserDto(user) ==
    With(With(Keep(user, UserFields), StatusDto(user.status)),
         [id |-> OrElse(user, "id", 0),
          restrictionReasons |-> [i \in DOMAIN user.restrictionReasons |->
              RestrictionReasonDto(user.restrictionReasons[i])]])

-----------------------------------------------------------------------------
(* Peers and participants.                                                 *)

\* A projected peer carries the handle it was registered under.  A group says
\* whether it is a megagroup, a channel what this account may do in it.
PeerDto(peer, handle) ==
    With(With(Keep(peer, {"kind", "username", "name", "usernames"}),
              [nativeHandle |-> handle,
               id |-> OrElse(peer, "dialogId", 0),
               hasPhoto |-> "photo" \in DOMAIN peer]),
         CASE peer.kind = "group" -> [isMegagroup |-> peer.isMegagroup]
           [] peer.kind = "channel" ->
                Mapped(peer, "adminRights", "permissions", ChatPermissionsDto)
           [] OTHER -> None)

Roles == {"member", "creator", "admin", "banned", "left"}
RoleName(role) == IF role.kind \in Roles THEN role.kind ELSE "unknown"

\* Every role has fields of its own; times are those of the role, in
\* milliseconds already.
RoleFields(role) ==
    CASE role.kind = "member" -> Keep(role, {"date", "invitedBy"})
      [] role.kind = "creator" ->
            With(Keep(role, {"rank"}),
                 [permissions |-> ChatPermissionsDto(role.rights)])
      [] role.kind = "admin" ->
            With(Keep(role, {"rank", "date", "invitedBy", "promotedBy",
                             "canEdit"}),
                 [permissions |-> ChatPermissionsDto(role.rights)])
      [] role.kind = "banned" ->
            With(Keep(role, {"left", "date"}),
                 [kickedBy |-> OrElse(role, "kickedBy", 0),
                  restrictions |-> ChatRestrictionsDto(role.rights)])
      [] OTHER -> None

ParticipantDto(participant) ==
    With(RoleFields(participant.role),
         [user |-> UserDto(participant.user),
          role |-> RoleName(participant.role)])

ParticipantPermissionsDto(permissions) ==
    Keep(permissions, {"isCreator", "isAdmin", "isBanned", "hasLeft",
                       "hasDefaultPermissions", "canAddAdmins"})

ParticipantsResult(participants, total) ==
    [participants |-> [i \in DOMAIN participants |->
                          ParticipantDto(participants[i])],
     total |-> total]

\* The filters of a participant listing.  All but the first three search.
ParticipantFilterAccepted(filter) ==
    filter \in {"recent", "admins", "bots", "search", "banned", "kicked",
                "contacts", "mentions"}
ParticipantFilter(filter, query) ==
    CASE filter \in {"recent", "admins", "bots"} -> [kind |-> filter]
      [] filter = "mentions" -> With([kind |-> filter], Keep(query, {"q"}))
      [] OTHER -> [kind |-> filter, q |-> OrElse(query, "q", "")]

\* Whom a reference is to is looked up in the answer's own lists by the bare
\* number, which a chat and a channel may share: the first one is taken.
List(result, peer) == IF peer.kind = "user" THEN result.users ELSE result.chats
Matches(result, peer) ==
    {i \in DOMAIN List(result, peer) : List(result, peer)[i].id = peer.id}
Described(result, peer) == Matches(result, peer) # {}
FirstMatch(result, peer) ==
    LET i == CHOOSE i \in Matches(result, peer) :
                \A j \in Matches(result, peer) : i <= j
    IN  List(result, peer)[i]

-----------------------------------------------------------------------------
(* Invite links.                                                           *)

InviteHosts == {"t.me", "telegram.me", "telegram.dog", "tg.dev", "telesco.pe"}

\* The hash of an invite link, none for a link that is no invite.  A link is
\* its scheme and host in lower case, what surrounds them cut off, and the
\* segments of its path; a segment is a name, which a plus may go before.
\* What "joinchat" may have behind it is not told apart.
InviteHash(link) ==
    LET first == link.path[1] IN
    IF link.scheme \notin {"http", "https"} \/ link.host \notin InviteHosts
    THEN {}
    ELSE IF Len(link.path) > 1 /\ first.name = "joinchat" /\ ~first.plus
    THEN {link.path[2]}
    ELSE IF first.plus THEN {[first EXCEPT !.plus = FALSE]} ELSE {}

\* The chat an accepted invite leads to is the first of the updates' chats.
UpdatesToChat(updates) ==
    IF updates.kind \in {"combined", "updates"} /\ updates.chats # <<>>
    THEN {updates.chats[1]} ELSE {}

-----------------------------------------------------------------------------
(* Properties.                                                             *)

\* A number resolvePeer takes is the number of the peer it asks for
\* (ops/chats.rs:598).
NumberIsOfThePeer(number) ==
    PeerIdAccepted(number) => DialogId(PeerIdFromBotApiId(number)) = number

\* A peer is asked for by its own number.
PeerIsOfTheNumber(peer) ==
    /\ PeerIdAccepted(DialogId(peer))
    /\ PeerIdFromBotApiId(DialogId(peer)) = peer

\* The rights of a member, read and written back, are the rights they were.
AdminRightsReadBack(rights) ==
    ChatAdminRights(ChatPermissionsDto(rights)) = rights
BannedRightsReadBack(rights) ==
    ChatBannedRights(ChatRestrictionsDto(rights)) = rights

AdminRights == [AdminFlags -> BOOLEAN]
BannedRights ==
    {r \in [BannedFlags \cup {"untilDate"} -> Int32 \cup BOOLEAN] :
        /\ r.untilDate \in Int32
        /\ \A f \in BannedFlags : r[f] \in BOOLEAN}
=============================================================================
