----------------------------- MODULE Projections ----------------------------
(***************************************************************************)
(* The projections of what arrives and of what listings answer: updates    *)
(* (dto/update.rs), service actions (dto/action.rs), dialogs (dto/dialog.rs,*)
(* dto/dialog_meta.rs), the account (dto/auth.rs), contacts                *)
(* (dto/contacts.rs, ops/contacts.rs), inline results (dto/inline.rs) and  *)
(* sticker sets (dto/stickers.rs).  peerOf and messageOf give the          *)
(* projections of the peers and messages met.                              *)
(***************************************************************************)
EXTENDS Content

-----------------------------------------------------------------------------
(* Updates.                                                                *)

ProjectedUpdates ==
    {"newMessage", "messageEdited", "messageDeleted", "callbackQuery",
     "inlineQuery", "inlineSend", "guestChatQuery"}

UpdateKind(update) ==
    IF update.kind \in ProjectedUpdates \cup {"raw"} THEN update.kind
    ELSE "unknown"

\* The box an update counts in; only a channel has one of its own.
MessageBoxDto(box) ==
    CASE box.kind = "secondary" -> [kind |-> "secondary", pts |-> box.qts]
      [] box.kind = "common" -> [kind |-> "common", pts |-> box.pts]
      [] box.kind = "channel" ->
            [kind |-> "channel", pts |-> box.pts, channelId |-> box.channelId]

UpdateStateDto(state) ==
    With([date |-> Millis(state.date), seq |-> state.seq],
         Mapped(state, "messageBox", "messageBox", MessageBoxDto))

\* The owner of an inline message is left out, and the number of the message
\* is given in the wider of its two widths.
InlineMessageIdDto(id) == Keep(id, {"dcId", "accessHash", "id"})

\* An update that has no projection is given as its bytes and the name its
\* first four bytes say, which a shorter one has not.
RawUpdateDto(update, nameOf) ==
    [name |-> IF Len(update.bytes) < 4 THEN "(unknown)"
              ELSE nameOf[SubSeq(update.bytes, 1, 4)],
     data |-> Encode(update.bytes)]

\* Whom grammers had not resolved when the update came is missing from it, and
\* then the whole projection is an error.  A query is sent by a user.
SenderKnown(update) ==
    "sender" \in DOMAIN update /\ update.sender.kind = "user"

CallbackQueryAccepted(update) ==
    /\ update.raw.kind \in {"bot", "inlineBot"}
    /\ "peer" \in DOMAIN update
    /\ SenderKnown(update)

UpdateAccepted(update) ==
    CASE update.kind = "callbackQuery" -> CallbackQueryAccepted(update)
      [] update.kind \in {"inlineQuery", "inlineSend"} -> SenderKnown(update)
      [] OTHER -> TRUE

\* A query of a chat names its message, one of an inline message that
\* message's id.
CallbackQueryDto(update, peerOf) ==
    Joined(<<[data |-> Encode(update.data), queryId |-> update.raw.queryId,
              isFromInline |-> update.isFromInline,
              peer |-> peerOf[update.peer], sender |-> UserDto(update.sender)],
             IF update.raw.kind = "bot"
             THEN Field("messageId", update.raw.msgId)
             ELSE Field("inlineMessageId",
                        InlineMessageIdDto(update.raw.msgId))>>)

InlineQueryDto(update) ==
    With(Keep(update, {"text", "offset", "queryId", "peerType"}),
         [sender |-> UserDto(update.sender)])

InlineSendDto(update) ==
    Joined(<<Keep(update, {"text", "resultId"}),
             [sender |-> UserDto(update.sender)],
             Mapped(update, "messageId", "messageId", InlineMessageIdDto)>>)

GuestChatQueryDto(update, messageOf) ==
    [queryId |-> update.queryId, message |-> messageOf[update.message],
     referenceMessages |-> [i \in DOMAIN update.referenceMessages |->
                               messageOf[update.referenceMessages[i]]]]

\* An update is its kind, its place in the stream, and one thing.
UpdateDto(update, messageOf, peerOf, nameOf) ==
    Joined(<<[kind |-> UpdateKind(update),
              state |-> UpdateStateDto(update.state)],
             CASE update.kind \in {"newMessage", "messageEdited"} ->
                     Field("message", messageOf[update.message])
               [] update.kind = "messageDeleted" ->
                     Joined(<<Field("deletedMessageIds", update.messages),
                              Mapped(update, "channelId", "deletedChannelId",
                                     LAMBDA id : id)>>)
               [] update.kind = "callbackQuery" ->
                     Field("callbackQuery", CallbackQueryDto(update, peerOf))
               [] update.kind = "inlineQuery" ->
                     Field("inlineQuery", InlineQueryDto(update))
               [] update.kind = "inlineSend" ->
                     Field("inlineSend", InlineSendDto(update))
               [] update.kind = "guestChatQuery" ->
                     Field("guestChatQuery",
                           GuestChatQueryDto(update, messageOf))
               [] OTHER ->
                     Field("rawUpdate", RawUpdateDto(update, nameOf))>>)

-----------------------------------------------------------------------------
(* Service actions.                                                        *)

\* The kinds of action that have a name of their own; a later layer's are
\* unknown.
ActionKinds ==
    {"empty", "chatCreate", "chatEditTitle", "chatEditPhoto",
     "chatDeletePhoto", "chatAddUser", "chatDeleteUser", "chatJoinedByLink",
     "channelCreate", "chatMigrateTo", "channelMigrateFrom", "pinMessage",
     "historyClear", "gameScore", "paymentSentMe", "paymentSent", "phoneCall",
     "screenshotTaken", "customAction", "botAllowed", "secureValuesSentMe",
     "secureValuesSent", "contactSignUp", "geoProximityReached", "groupCall",
     "inviteToGroupCall", "setMessagesTtl", "groupCallScheduled",
     "setChatTheme", "chatJoinedByRequest", "webViewDataSentMe",
     "webViewDataSent", "giftPremium", "topicCreate", "topicEdit",
     "suggestProfilePhoto", "requestedPeer", "setChatWallPaper", "giftCode",
     "giveawayLaunch", "giveawayResults", "boostApply", "requestedPeerSentMe",
     "paymentRefunded", "giftStars", "prizeStars", "starGift",
     "starGiftUnique", "paidMessagesRefunded", "paidMessagesPrice",
     "conferenceCall", "todoCompletions", "todoAppendTasks",
     "suggestedPostApproval", "suggestedPostSuccess", "suggestedPostRefund",
     "giftTon", "suggestBirthday"}

MessageActionDto(message) ==
    Joined(<<[messageId |-> message.id,
              kind |-> IF message.action \in ActionKinds THEN message.action
                       ELSE "unknown"],
             IF message.kind = "empty" THEN None
             ELSE PeerDialogId(message, "sender", "senderId")>>)

-----------------------------------------------------------------------------
(* Dialogs and the account.                                                *)

\* A folder of dialogs counts nothing and a community has no top message.
DialogDto(dialog, peer, messageOf) ==
    Joined(<<[peer |-> peer, pinned |-> dialog.pinned,
              topMessage |-> OrElse(dialog, "topMessage", 0),
              isFolder |-> dialog.kind = "folder"],
             Mapped(dialog, "lastMessage", "lastMessage",
                    LAMBDA message : messageOf[message]),
             IF dialog.kind = "dialog"
             THEN Keep(dialog, {"unreadCount", "unreadMentionsCount",
                                "draftText", "folderId"})
             ELSE None>>)

DialogNotifySettingsDto(settings) ==
    With(Keep(settings, {"showPreviews", "silent"}),
         Mapped(settings, "muteUntil", "muteUntil", Millis))

\* The rest of a dialog, of a folder of dialogs, and of a community none.
DialogMetaDto(dialog) ==
    CASE dialog.kind = "dialog" ->
            With(Keep(dialog, {"unreadMark", "viewForumAsMessages",
                               "readInboxMaxId", "readOutboxMaxId",
                               "unreadReactionsCount", "pts", "ttlPeriod"}),
                 [notifySettings |->
                     DialogNotifySettingsDto(dialog.notifySettings)])
      [] dialog.kind = "folder" ->
            Keep(dialog, {"folderTitle", "autofillNewBroadcasts",
                          "autofillPublicGroups", "autofillNewCorrespondents",
                          "unreadMutedPeersCount", "unreadUnmutedPeersCount",
                          "unreadMutedMessagesCount",
                          "unreadUnmutedMessagesCount"})
      [] OTHER -> None

DialogWithMetaDto(dialog, peer, messageOf) ==
    With(DialogDto(dialog, peer, messageOf),
         Field("meta", DialogMetaDto(dialog)))

MeDto(user, dataCentre) ==
    [user |-> UserDto(user), dataCentreId |-> dataCentre]
DataCentreDto(dataCentre) == [dataCentreId |-> dataCentre]

-----------------------------------------------------------------------------
(* Contacts.                                                               *)

ContactUserDto(user, peerOf) ==
    [user |-> UserDto(user), peer |-> peerOf[user]]
ContactUsersDto(users, peerOf) ==
    [i \in DOMAIN users |-> ContactUserDto(users[i], peerOf)]

ContactPeerDto(result, peer, peerOf) ==
    IF ~Described(result, peer) THEN None
    ELSE IF peer.kind = "user"
    THEN ContactUserDto(FirstMatch(result, peer), peerOf)
    ELSE [peer |-> peerOf[FirstMatch(result, peer)]]

UserReference(id) == [kind |-> "user", id |-> id]

\* A contact that the answer does not describe is listed all the same.
ContactsDto(result, peerOf) ==
    IF result.kind = "notModified"
    THEN [notModified |-> TRUE, savedCount |-> 0, contacts |-> <<>>,
          users |-> <<>>]
    ELSE [notModified |-> FALSE, savedCount |-> result.savedCount,
          contacts |-> [i \in DOMAIN result.contacts |->
              With(Keep(result.contacts[i], {"userId", "mutual"}),
                   ContactPeerDto(result,
                       UserReference(result.contacts[i].userId), peerOf))],
          users |-> ContactUsersDto(result.users, peerOf)]

ImportedContactsDto(result, peerOf) ==
    [imported |-> [i \in DOMAIN result.imported |->
         With(Keep(result.imported[i], {"userId", "clientId"}),
              ContactPeerDto(result,
                  UserReference(result.imported[i].userId), peerOf))],
     retryContacts |-> result.retryContacts,
     popularInvites |-> [i \in DOMAIN result.popularInvites |->
         Keep(result.popularInvites[i], {"clientId", "importers"})],
     users |-> ContactUsersDto(result.users, peerOf)]

\* A blocked or a found peer that it does not describe is left out.
Rows(result, peers, peerOf) ==
    LET there == SelectSeq(peers, LAMBDA p : Described(result, p))
    IN  [i \in DOMAIN there |-> ContactPeerDto(result, there[i], peerOf)]

BlockedContactsDto(result, peerOf) ==
    LET there == SelectSeq(result.blocked,
                           LAMBDA entry : Described(result, entry.peer))
    IN  With(Keep(result, {"count"}),
             [blocked |-> [i \in DOMAIN there |->
                  With([date |-> Millis(there[i].date)],
                       ContactPeerDto(result, there[i].peer, peerOf))],
              users |-> ContactUsersDto(result.users, peerOf)])

FoundContactsDto(result, peerOf) ==
    [myResults |-> Rows(result, result.myResults, peerOf),
     results |-> Rows(result, result.results, peerOf),
     users |-> ContactUsersDto(result.users, peerOf)]

-----------------------------------------------------------------------------
(* Inline results.                                                         *)

WebDocumentDto(document) == Keep(document, {"url", "size", "mimeType"})

\* Only a text is shown of what a result sends.
SendMessageText(message) ==
    IF message.kind = "text" THEN Field("sendMessageText", message.message)
    ELSE None

\* A result of the bot's own has a page, one of Telegram's media its ids.
InlineResultDto(result) ==
    Joined(<<Keep(result, {"kind", "id", "resultType", "title",
                           "description"}),
             SendMessageText(result.sendMessage),
             IF result.kind = "result"
             THEN Joined(<<Keep(result, {"url"}),
                           Mapped(result, "thumb", "thumb", WebDocumentDto),
                           Mapped(result, "content", "content",
                                  WebDocumentDto)>>)
             ELSE Keep(result, {"photoId", "documentId"})>>)

InlineQueryResultsDto(results) ==
    With(Keep(results, {"queryId", "nextOffset", "gallery", "switchPm",
                        "switchWebview"}),
         [results |-> [i \in DOMAIN results.results |->
                          InlineResultDto(results.results[i])]])

-----------------------------------------------------------------------------
(* Sticker sets.                                                           *)

DocumentIds(documents) == [i \in DOMAIN documents |-> documents[i].id]
StickerPackDto(pack) == Keep(pack, {"emoticon", "documents"})
StickerPacksDto(packs) == [i \in DOMAIN packs |-> StickerPackDto(packs[i])]

\* A summary of a set has no packs and no stickers.
StickerSetDto(set) ==
    Joined(<<Keep(set, {"archived", "official", "masks", "emojis",
                        "textColor", "channelEmojiStatus", "creator", "id",
                        "accessHash", "title", "shortName",
                        "thumbDocumentId", "thumbDcId", "thumbVersion",
                        "count", "hash"}),
             Mapped(set, "installedDate", "installedDate", Millis),
             [packs |-> <<>>, documents |-> <<>>]>>)

FullStickerSetDto(set) ==
    With(StickerSetDto(set.set),
         [packs |-> StickerPacksDto(set.packs),
          documents |-> DocumentIds(set.documents)])

StickerSetResultDto(answer) ==
    IF answer.kind = "notModified" THEN [notModified |-> TRUE]
    ELSE [notModified |-> FALSE, set |-> FullStickerSetDto(answer)]

\* Of a list that has not changed there is nothing, not even its hash.
AllStickersDto(answer) ==
    IF answer.kind = "notModified"
    THEN [notModified |-> TRUE, hash |-> 0, sets |-> <<>>]
    ELSE [notModified |-> FALSE, hash |-> answer.hash,
          sets |-> [i \in DOMAIN answer.sets |->
                       StickerSetDto(answer.sets[i])]]

RecentStickersDto(answer) ==
    IF answer.kind = "notModified"
    THEN [notModified |-> TRUE, hash |-> 0, packs |-> <<>>, stickers |-> <<>>,
          dates |-> <<>>]
    ELSE [notModified |-> FALSE, hash |-> answer.hash,
          packs |-> StickerPacksDto(answer.packs),
          stickers |-> DocumentIds(answer.stickers),
          dates |-> [i \in DOMAIN answer.dates |-> Millis(answer.dates[i])]]

FavedStickersDto(answer) ==
    IF answer.kind = "notModified"
    THEN [notModified |-> TRUE, hash |-> 0, packs |-> <<>>, stickers |-> <<>>]
    ELSE [notModified |-> FALSE, hash |-> answer.hash,
          packs |-> StickerPacksDto(answer.packs),
          stickers |-> DocumentIds(answer.stickers)]

\* A covered set is whole only in the form that carries its stickers, and has
\* a cover in the forms that do not.
CoveredSetDto(covered) ==
    IF covered.kind = "fullCovered" THEN FullStickerSetDto(covered)
    ELSE StickerSetDto(covered.set)

CoverId(covered) ==
    IF covered.kind = "covered" THEN Field("coverDocumentId", covered.cover.id)
    ELSE IF covered.kind = "multiCovered" /\ covered.covers # <<>>
    THEN Field("coverDocumentId", covered.covers[1].id)
    ELSE None

\* Telegram answers an install with the sets it archived for it, or with none.
InstallResultDto(answer) ==
    IF answer.kind = "success" THEN [installed |-> TRUE, archivedSets |-> <<>>]
    ELSE [installed |-> FALSE,
          archivedSets |-> [i \in DOMAIN answer.sets |->
              With([set |-> CoveredSetDto(answer.sets[i])],
                   CoverId(answer.sets[i]))]]
=============================================================================
