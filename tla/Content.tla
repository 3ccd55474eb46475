------------------------------ MODULE Content -------------------------------
(***************************************************************************)
(* What a message holds, both ways: the entities, captions and media a     *)
(* caller asks for (payload.rs:14-240, ops/media.rs) and the projections   *)
(* of messages, their headers, media and files (dto/message.rs,            *)
(* dto/media.rs, dto/files.rs).                                            *)
(*                                                                         *)
(* Texts are opaque but for being empty.  A value of Telegram's is a record*)
(* tagged by its kind whose fields go by the names of the projection's; a  *)
(* field without a value is absent.  The letters of a type, a kind or a    *)
(* parse mode are compared without their case, so they are written here    *)
(* the way a projection writes them.                                       *)
(***************************************************************************)
EXTENDS Base64, Peers, FiniteSets

CONSTANTS
    Parser,   \* by parse mode, what a formatted text parses to
    MimeType  \* what a file's name says of its contents, where it does

\* The entries of s at some of its places, in its order.
At(s, places) ==
    [k \in 1 .. Cardinality(places) |->
        s[CHOOSE i \in places : Cardinality({j \in places : j <= i}) = k]]

-----------------------------------------------------------------------------
(* Entities.                                                               *)

\* Kinds an entity of a caller may be that are a span and no more.
PlainEntities ==
    {"mention", "hashtag", "botCommand", "url", "email", "bold", "italic",
     "code", "phone", "cashtag", "underline", "strike", "bankCard", "spoiler",
     "blockquote"}

\* The field the other kinds carry; a language may be left out.
EntityPayload ==
    [pre |-> "language", textUrl |-> "url", mentionName |-> "userId",
     customEmoji |-> "customEmojiId"]

SendableEntities == PlainEntities \cup DOMAIN EntityPayload

EntityAccepted(spec) ==
    /\ spec.kind \in SendableEntities
    /\ spec.kind \in DOMAIN EntityPayload \ {"pre"} =>
           EntityPayload[spec.kind] \in DOMAIN spec

Span(r) == Keep(r, {"kind", "offset", "length"})

\* A quotation is sent open.
ToMessageEntity(spec) ==
    With(Span(spec),
         CASE spec.kind = "blockquote" -> Field("collapsed", FALSE)
           [] spec.kind = "pre" ->
                 Field("language", OrElse(spec, "language", ""))
           [] spec.kind \in DOMAIN EntityPayload \ {"pre"} ->
                 Keep(spec, {EntityPayload[spec.kind]})
           [] OTHER -> None)

\* Kinds that are only received, and projected as a span.
ReceivedEntities ==
    {"unknown", "inputMessageEntityMentionName", "formattedDate",
     "diffInsert", "diffReplace", "diffDelete", "tonAddress"}

MessageEntityDto(entity) ==
    IF entity.kind \in DOMAIN EntityPayload
    THEN Keep(entity, {"kind", "offset", "length", EntityPayload[entity.kind]})
    ELSE Span(entity)

Entities(entities) == [i \in DOMAIN entities |-> MessageEntityDto(entities[i])]

-----------------------------------------------------------------------------
(* Formatted text.                                                         *)

ParseModes == {"", "none", "html", "markdown"}
ModeAccepted(r) == OrElse(r, "parseMode", "") \in ParseModes

Formatted(text, mode) ==
    IF mode \in {"html", "markdown"} THEN Parser[mode][text]
    ELSE [text |-> text, entities |-> <<>>]

\* The entities of a caller replace those its text parses to.
FormatAccepted(r) ==
    /\ ModeAccepted(r)
    /\ "entities" \in DOMAIN r =>
           \A i \in DOMAIN r.entities : EntityAccepted(r.entities[i])

ResolveFormat(r) ==
    LET formatted == Formatted(r.text, OrElse(r, "parseMode", "")) IN
    IF "entities" \in DOMAIN r
    THEN [formatted EXCEPT !.entities =
             [i \in DOMAIN r.entities |-> ToMessageEntity(r.entities[i])]]
    ELSE formatted

-----------------------------------------------------------------------------
(* Media to send.                                                          *)

\* A file is named by a path or by a finished upload; the media of an edit by
\* a path, a URL or the message it is copied from.
FileSource(r) == ExactlyOne(r, {"path", "fileHandle"})
EditMediaSource(r) == ExactlyOne(r, {"path", "url", "copyOf"})

MediaKinds == {"photo", "document", "file", "video"}
MediaKind(r) == LET kind == OrElse(r, "kind", "") IN
                IF kind = "" THEN "document" ELSE kind
MediaKindAccepted(r) == MediaKind(r) \in MediaKinds

\* A date is of the epoch or later.
ScheduleTimeAccepted(r) == "scheduleDate" \in DOMAIN r => r.scheduleDate >= 0

\* To be sent when its reader is online goes before a date, which is then not
\* even looked at.
Schedule(r) ==
    IF OrElse(r, "scheduleOnceOnline", FALSE) THEN Field("schedule", "online")
    ELSE Mapped(r, "scheduleDate", "schedule", LAMBDA date : date)

MessageOptionsAccepted(r) ==
    /\ ModeAccepted(r)
    /\ OrElse(r, "scheduleOnceOnline", FALSE) \/ ScheduleTimeAccepted(r)

MessageOptions(r) ==
    Joined(<<Formatted(OrElse(r, "caption", ""), OrElse(r, "parseMode", "")),
             [invertMedia |-> OrElse(r, "invertMedia", FALSE),
              silent |-> OrElse(r, "silent", FALSE)],
             Keep(r, {"replyToMessageId"}),
             Schedule(r)>>)

\* An uploaded file keeps its name whatever its size.
UploadedName(uploaded) ==
    IF uploaded.kind \in {"file", "big"} THEN uploaded.name ELSE ""

\* A type the caller gives goes before the one the name says.
InferredMime(name) ==
    IF name \in DOMAIN MimeType THEN MimeType[name]
    ELSE "application/octet-stream"

\* A video has attributes of its own; a file is a document Telegram may not
\* show as what it is.
UploadedMedia(r, uploaded, name) ==
    LET document == [kind |-> "uploadedDocument", name |-> name,
                     forceFile |-> MediaKind(r) = "file",
                     mimeType |-> OrElse(r, "mimeType", InferredMime(name))]
        video == [duration |-> OrElse(r, "durationSeconds", 0),
                  width |-> OrElse(r, "width", 0),
                  height |-> OrElse(r, "height", 0)]
    IN  Joined(<<[spoiler |-> OrElse(r, "spoiler", FALSE), file |-> uploaded],
                 Keep(r, {"ttlSeconds"}),
                 CASE MediaKind(r) = "photo" -> [kind |-> "uploadedPhoto"]
                   [] MediaKind(r) = "video" -> With(document, video)
                   [] OTHER -> document>>)

\* Of a URL there is a photo or a document.
ExternalMedia(r) ==
    With([kind |-> IF MediaKind(r) = "photo" THEN "photoExternal"
                   ELSE "documentExternal",
          url |-> r.url, spoiler |-> OrElse(r, "spoiler", FALSE)],
         Keep(r, {"ttlSeconds"}))

-----------------------------------------------------------------------------
(* Media received.                                                         *)

\* The thumbnail of the most bytes, the last of several.
Largest(thumbs) ==
    CHOOSE i \in DOMAIN thumbs :
        \A j \in DOMAIN thumbs :
            IF j > i THEN thumbs[j].bytes < thumbs[i].bytes
            ELSE thumbs[j].bytes <= thumbs[i].bytes

\* Its width and height, of the kinds that have them.
Dimensions(thumbs) ==
    IF thumbs # <<>>
       /\ thumbs[Largest(thumbs)].kind \in {"size", "cached", "progressive"}
    THEN Keep(thumbs[Largest(thumbs)], {"width", "height"})
    ELSE None

FillGeo(media) ==
    IF "geo" \in DOMAIN media
    THEN Keep(media.geo, {"latitude", "longitude", "accuracyRadius"})
    ELSE None

\* The fields of a projection, by the kind of media: those kept as they are.
MediaFields ==
    [photo |-> {"spoiler", "ttlSeconds"},
     contact |-> {"phoneNumber", "firstName", "lastName", "vcard"},
     poll |-> {"question", "isQuiz", "closed", "totalVoters"},
     geo |-> {}, dice |-> {"emoji", "value"},
     venue |-> {"title", "address", "provider", "venueId", "venueType"},
     geoLive |-> {"heading", "period", "proximityNotificationRadius"}]

\* A document is what it moves like or what its type says.
DocumentKind(document) ==
    IF document.isAnimated THEN "animation"
    ELSE IF "mimeFamily" \in DOMAIN document
            /\ document.mimeFamily \in {"video", "audio"}
    THEN document.mimeFamily
    ELSE "document"

\* A document Telegram has deleted has neither an id nor a name, and an empty
\* name is none.
DocumentDto(document) ==
    Joined(<<[kind |-> DocumentKind(document)],
             Keep(document, {"spoiler", "mimeType", "creationDate", "size",
                             "duration", "resolutionWidth", "audioTitle",
                             "resolutionHeight", "performer", "isAnimated"}),
             Dimensions(document.thumbs),
             IF ~document.present THEN None
             ELSE IF document.name = "" THEN Keep(document, {"id"})
             ELSE Keep(document, {"id", "name"})>>)

WebPageFields ==
    [empty |-> {"id", "url"}, pending |-> {"id", "url"},
     page |-> {"id", "url", "displayUrl", "siteName", "title", "description",
               "pageType", "author"},
     notModified |-> {}]

MediaDto(media) ==
    CASE media.kind = "photo" ->
            Joined(<<Keep(media, {"kind"} \cup MediaFields.photo),
                     Dimensions(media.thumbs),
                     IF media.present THEN Keep(media, {"id", "size"})
                     ELSE None>>)
      [] media.kind = "document" -> DocumentDto(media)
      [] media.kind = "sticker" ->
            With(DocumentDto(media.document),
                 Keep(media, {"kind", "emoji", "isAnimated"}))
      [] media.kind = "webPage" ->
            Keep(media, {"kind"} \cup WebPageFields[media.page])
      [] media.kind \in DOMAIN MediaFields \ {"photo"} ->
            With(Keep(media, {"kind"} \cup MediaFields[media.kind]),
                 IF media.kind = "geo"
                 THEN FillGeo([geo |-> media]) ELSE FillGeo(media))
      [] OTHER -> [kind |-> "unknown"]

-----------------------------------------------------------------------------
(* Messages received.                                                      *)

ForwardHeaderDto(header) ==
    Joined(<<Keep(header, {"imported", "savedOut", "fromName", "channelPost",
                           "postAuthor", "savedFromMsgId", "savedFromName",
                           "psaType"}),
             Mapped(header, "date", "date", Millis),
             Mapped(header, "savedDate", "savedDate", Millis),
             PeerDialogId(header, "fromId", "fromId"),
             PeerDialogId(header, "savedFromPeer", "savedFromPeer"),
             PeerDialogId(header, "savedFromId", "savedFromId")>>)

ReplyFlags == {"replyToScheduled", "forumTopic", "quote", "replyToEphemeral"}

\* A reply to a story has the flags too, off.
ReplyHeaderDto(header) ==
    IF header.kind = "header"
    THEN Joined(<<Keep(header, ReplyFlags \cup
                       {"kind", "replyToMsgId", "replyToTopId", "quoteText",
                        "quoteOffset", "todoItemId"}),
                  PeerDialogId(header, "replyToPeerId", "replyToPeerId"),
                  Mapped(header, "pollOption", "pollOption", Encode),
                  Mapped(header, "replyFrom", "replyFrom", ForwardHeaderDto),
                  Mapped(header, "replyMedia", "replyMedia", MediaDto)>>)
    ELSE Joined(<<[f \in ReplyFlags |-> FALSE],
                  Keep(header, {"kind", "storyId"}),
                  PeerDialogId(header, "peer", "storyPeer")>>)

\* A quote is a reply's text, where it has one.
MessageQuoteDto(header) ==
    IF header.kind = "header" /\ OrElse(header, "quoteText", "") # ""
    THEN Field("quote",
               [text |-> header.quoteText,
                entities |-> Entities(OrElse(header, "quoteEntities", <<>>))])
    ELSE None

\* The fields of a message kept as they are.  A message always has a reason
\* list and an entity list.
MessageFields ==
    {"id", "text", "outgoing", "replyToMessageId", "date", "editDate",
     "mentioned", "mediaUnread", "silent", "pinned", "fromChannelPost",
     "fromScheduled", "editHide", "viaBotId", "postAuthor", "groupedId",
     "viewCount", "forwardCount", "replyCount", "reactionCount", "action",
     "htmlText", "markdownText"}

\* An empty message has no place and no sender.  peer is the projection of
\* where it is, if registering that gave one; only a user is projected as the
\* sender, whose id is there whoever it is.
MessageDto(message, peer, markupOf) ==
    LET reasons == OrElse(message, "restrictionReasons", <<>>) IN
    Joined(<<Keep(message, MessageFields),
             IF message.kind = "empty" THEN None
             ELSE With(PeerDialogId(message, "peer", "peerId"),
                       PeerDialogId(message, "sender", "senderId")),
             peer,
             IF "sender" \in DOMAIN message /\ message.sender.kind = "user"
             THEN Field("sender", UserDto(message.sender)) ELSE None,
             Mapped(message, "forwardHeader", "forwardHeader",
                    ForwardHeaderDto),
             Mapped(message, "replyHeader", "replyHeader", ReplyHeaderDto),
             IF "replyHeader" \in DOMAIN message
             THEN MessageQuoteDto(message.replyHeader) ELSE None,
             Mapped(message, "media", "media", MediaDto),
             Mapped(message, "replyMarkup", "replyMarkup",
                    LAMBDA markup : markupOf[markup]),
             [entities |-> Entities(OrElse(message, "entities", <<>>)),
              restrictionReasons |->
                  [i \in DOMAIN reasons |-> RestrictionReasonDto(reasons[i])]]
           >>)

-----------------------------------------------------------------------------
(* Files.                                                                  *)

\* A finished upload.  Only a small file has a checksum; what is no file
\* grammers made is an error.
UploadedAccepted(uploaded) == uploaded.kind \in {"file", "big"}
UploadedDto(uploaded, size, handle) ==
    Joined(<<Keep(uploaded, {"id", "name", "parts"}),
             [size |-> size, isBig |-> uploaded.kind = "big"],
             IF uploaded.kind = "file" THEN Keep(uploaded, {"md5Checksum"})
             ELSE None,
             handle>>)

\* A profile photo has a size in bytes, 0 where Telegram gives none.
ProfilePhotoDto(photo) ==
    Joined(<<Keep(photo, {"id", "spoiler", "ttlSeconds"}),
             [size |-> OrElse(photo, "size", 0)],
             Dimensions(photo.thumbs),
             IF photo.present THEN Keep(photo, {"dcId"}) ELSE None>>)

-----------------------------------------------------------------------------
(* Properties.                                                             *)

\* An entity as a caller may ask for it: a kind and a span, and what else it
\* has set.
IsEntitySpec(spec) ==
    /\ spec = [f \in DOMAIN spec |-> spec[f]]
    /\ {"kind", "offset", "length"} \subseteq DOMAIN spec

\* An entity a caller may send crosses to Telegram (payload.rs:152) and, when
\* the message is read back, crosses out again (dto/message.rs:312) as the
\* same span with the same payload, an unset language being empty.
EntityReadsBack(spec) ==
    LET dto == MessageEntityDto(ToMessageEntity(spec)) IN
    /\ {"kind", "offset", "length"} \subseteq DOMAIN dto
    /\ spec.kind \in DOMAIN EntityPayload =>
          EntityPayload[spec.kind] \in DOMAIN dto
    /\ \A f \in DOMAIN dto : dto[f] = OrElse(spec, f, "")

\* A projected entity can be sent again exactly when its kind is one a caller
\* may send, and then is the entity it was, but that a quotation is opened.
ReceivedEntity ==
         [kind : (PlainEntities \cup ReceivedEntities) \ {"blockquote"},
          offset : Int, length : Int]
    \cup [kind : {"blockquote"}, offset : Int, length : Int,
          collapsed : BOOLEAN]
    \cup [kind : {"pre"}, offset : Int, length : Int, language : STRING]
    \cup [kind : {"textUrl"}, offset : Int, length : Int, url : STRING]
    \cup [kind : {"mentionName"}, offset : Int, length : Int, userId : Int]
    \cup [kind : {"customEmoji"}, offset : Int, length : Int,
          customEmojiId : Int]

Opened(entity) ==
    IF entity.kind = "blockquote" THEN [entity EXCEPT !.collapsed = FALSE]
    ELSE entity

EntityIsSentAgain(entity) ==
    LET dto == MessageEntityDto(entity) IN
    /\ EntityAccepted(dto) <=> entity.kind \in SendableEntities
    /\ EntityAccepted(dto) => ToMessageEntity(dto) = Opened(entity)
=============================================================================
