------------------------------ MODULE Requests ------------------------------
(***************************************************************************)
(* The requests made of what a caller asks: inline answers, inline results *)
(* sent and inline messages edited (ops/inline.rs), the pages and filters  *)
(* of listings (ops/messages.rs, ops/files.rs), chunks of downloads        *)
(* (ops/files.rs), sticker sets (ops/stickers.rs) and users (ops/users.rs).*)
(* A field that a request always leaves empty is not in it.                *)
(***************************************************************************)
EXTENDS Projections, FiniteSets

-----------------------------------------------------------------------------
(* Answers to a bot's queries.                                             *)

\* An alert says something.
CallbackAnswerAccepted(r) ==
    OrElse(r, "alert", FALSE) => OrElse(r, "text", "") # ""

CallbackAnswer(r) ==
    With([alert |-> OrElse(r, "alert", FALSE), queryId |-> r.queryId,
          cacheTime |-> OrElse(r, "cacheTimeSeconds", 0)],
         Mapped(r, "text", "message", LAMBDA text : text))

MediaResultKinds == {"photo", "gif", "video", "voice", "document"}

ResultKind(spec) == LET kind == OrElse(spec, "kind", "") IN
                    IF kind = "" THEN "article" ELSE kind

InlineResultAccepted(spec) ==
    IF ResultKind(spec) = "article" THEN OrElse(spec, "title", "") # ""
    ELSE /\ ResultKind(spec) \in MediaResultKinds
         /\ OrElse(spec, "contentUrl", "") # ""

\* A thumbnail is of a JPEG, whatever it is of, and no size is known.
WebDocument(url, mimeType) ==
    [url |-> url, size |-> 0, mimeType |-> mimeType]

ContentMimeType(kind) ==
    CASE kind = "photo" -> "image/jpeg"
      [] kind = "gif" -> "image/gif"
      [] kind = "video" -> "video/mp4"
      [] kind = "voice" -> "audio/ogg"
      [] OTHER -> "application/octet-stream"

\* A result without an id gets a generated one.  An article is sent as its
\* text, any other result as its media under a caption.
InlineResult(spec, generated) ==
    Joined(<<[id |-> OrElse(spec, "id", generated),
              resultType |-> ResultKind(spec)],
             Keep(spec, {"title", "description", "url"}),
             Mapped(spec, "thumbUrl", "thumb",
                    LAMBDA url : WebDocument(url, "image/jpeg")),
             IF ResultKind(spec) = "article"
             THEN Field("sendMessage",
                        [kind |-> "text",
                         noWebpage |-> ~OrElse(spec, "linkPreview", TRUE),
                         invertMedia |-> OrElse(spec, "invertMedia", FALSE),
                         message |-> OrElse(spec, "messageText", "")])
             ELSE [content |-> WebDocument(spec.contentUrl,
                                           ContentMimeType(ResultKind(spec))),
                   sendMessage |->
                       [kind |-> "mediaAuto", invertMedia |-> FALSE,
                        message |-> OrElse(spec, "caption", "")]]>>)

\* One result refused refuses the answer.
InlineAnswerAccepted(r) ==
    \A i \in DOMAIN r.results : InlineResultAccepted(r.results[i])

InlineAnswer(r, generated) ==
    Joined(<<[gallery |-> OrElse(r, "gallery", FALSE),
              private |-> OrElse(r, "private", FALSE), queryId |-> r.queryId,
              cacheTime |-> OrElse(r, "cacheTimeSeconds", 0),
              results |-> [i \in DOMAIN r.results |->
                              InlineResult(r.results[i], generated[i])]],
             Keep(r, {"nextOffset", "switchPm", "switchWebview"})>>)

-----------------------------------------------------------------------------
(* Inline results and inline messages.                                     *)

\* A date goes to the second it is in, before the epoch too, and has to fit
\* the layer's field.
EpochSeconds(millis) == millis \div 1000
EpochSecondsAccepted(millis) == EpochSeconds(millis) \in Int32

\* What is accepted is seen after a random id has been made, and after the
\* peer was resolved.
SendResultAccepted(r) ==
    /\ r.resultId # ""
    /\ "scheduleDate" \in DOMAIN r => EpochSecondsAccepted(r.scheduleDate)

SendResult(r, peer, randomId) ==
    Joined(<<[f \in {"silent", "background", "clearDraft", "hideVia"} |->
                 OrElse(r, f, FALSE)],
             [peer |-> peer, randomId |-> randomId, queryId |-> r.queryId,
              id |-> r.resultId],
             Mapped(r, "replyToMessageId", "replyTo", LAMBDA id : id),
             Mapped(r, "scheduleDate", "scheduleDate", EpochSeconds)>>)

\* The message a send made is the first one its updates give its random id.
\* Short updates name none, and the send is then answered without a message.
SentMessageId(updates, randomId) ==
    LET named == IF updates.kind \in {"updates", "combined"}
                 THEN {i \in DOMAIN updates.updates :
                          /\ updates.updates[i].kind = "messageId"
                          /\ updates.updates[i].randomId = randomId}
                 ELSE {}
    IN  IF named = {} THEN None
        ELSE Field("id", updates.updates[CHOOSE i \in named :
                             \A j \in named : i <= j].id)

\* The newer of the two kinds of id has an owner, and a narrower number, to
\* which the one given is cut.
InlineMessageId(id) ==
    IF "ownerId" \in DOMAIN id
    THEN [kind |-> "id64", dcId |-> id.dcId, ownerId |-> id.ownerId,
          id |-> Wrap32(id.id), accessHash |-> id.accessHash]
    ELSE [kind |-> "id", dcId |-> id.dcId, id |-> id.id,
          accessHash |-> id.accessHash]

\* What an edit may carry; markupOf has the markups that can be built.
EditInlineAccepted(r, markupOf) ==
    /\ FormatAccepted(r)
    /\ "media" \in DOMAIN r => MediaKindAccepted(r.media)
    /\ "markup" \in DOMAIN r => r.markup \in DOMAIN markupOf

\* A caption may be kept by leaving the text of an edit empty; a text alone
\* may not, and is then sent empty.
EditInline(r, markupOf) ==
    LET formatted == ResolveFormat(r) IN
    Joined(<<[noWebpage |-> ~OrElse(r, "linkPreview", TRUE),
              invertMedia |-> OrElse(r, "invertMedia", FALSE),
              id |-> InlineMessageId(r.messageId)],
             IF formatted.text = "" /\ "media" \in DOMAIN r THEN None
             ELSE Field("message", formatted.text),
             IF formatted.entities = <<>> THEN None
             ELSE Field("entities", formatted.entities),
             Mapped(r, "media", "media", ExternalMedia),
             Mapped(r, "markup", "replyMarkup",
                    LAMBDA markup : markupOf[markup])>>)

\* The nanoseconds of the clock, and how many ids have been made: apart from
\* each other as long as the clock is not set back.
GeneratedId(nanos, counter) == nanos + counter

-----------------------------------------------------------------------------
(* Pages, filters and chunks.                                              *)

\* Between one and a hundred, half a hundred unless said otherwise.
PageLimit(r) ==
    LET limit == OrElse(r, "limit", 50)
    IN  IF limit < 1 THEN 1 ELSE IF limit > 100 THEN 100 ELSE limit

\* Everything, or a page: of a chat's photos below a message, of a profile's
\* photos after a number of them.
ChatPhotosPlan(r) ==
    IF OrElse(r, "all", FALSE) THEN [all |-> TRUE]
    ELSE With([all |-> FALSE, limit |-> PageLimit(r)], Keep(r, {"offsetId"}))

ProfilePhotosPlan(r) ==
    LET offset == OrElse(r, "offset", 0) IN
    IF OrElse(r, "all", FALSE) THEN [all |-> TRUE]
    ELSE [all |-> FALSE, limit |-> PageLimit(r),
          offset |-> IF offset < 0 THEN 0 ELSE offset]

MessagesFilters ==
    {"empty", "photos", "video", "photoVideo", "document", "url", "gif",
     "voice", "music", "chatPhotos", "phoneCalls", "roundVoice", "roundVideo",
     "myMentions", "geo", "contacts", "pinned"}
FilterAccepted(r) == "filter" \in DOMAIN r => r.filter \in MessagesFilters

MinChunkSize == 4096
MaxChunkSize == 524288

\* A chunk of a download starts at a whole number of chunks.
ChunkAccepted(r) ==
    /\ r.skipChunks >= 0
    /\ r.chunkSize \in MinChunkSize .. MaxChunkSize
    /\ r.chunkSize % MinChunkSize = 0
ChunkOffset(r) == r.chunkSize * r.skipChunks

\* The bytes are those there are; past the end there is no chunk.
MediaChunkDto(r, bytes) ==
    [data |-> Encode(bytes), offset |-> ChunkOffset(r), size |-> Len(bytes)]

-----------------------------------------------------------------------------
(* Sticker sets and users.                                                 *)

\* A name goes before an id, and an empty one is none.
StickerSetAccepted(r) ==
    OrElse(r, "shortName", "") # "" \/ {"id", "accessHash"} \subseteq DOMAIN r
InputStickerSet(r) ==
    IF OrElse(r, "shortName", "") # "" THEN Keep(r, {"shortName"})
    ELSE Keep(r, {"id", "accessHash"})

\* The ids asked for, each once, where it comes first.
UniqueIds(ids) ==
    At(ids, {i \in DOMAIN ids : \A j \in 1 .. i - 1 : ids[j] # ids[i]})

\* A user is answered unless the answer has no user of that id.
UsersDto(users, peerOf) ==
    ContactUsersDto(SelectSeq(users, LAMBDA user : user.kind # "empty"), peerOf)

-----------------------------------------------------------------------------
(* Properties.                                                             *)

\* The id of an inline message.
InlineId ==
         [kind : {"id"}, dcId : Int, id : Int, accessHash : Int]
    \cup [kind : {"id64"}, dcId : Int, ownerId : Int, id : Int32,
          accessHash : Int]

\* The id a query brings (dto/update.rs:349) names the message to edit
\* (ops/inline.rs:627) when it is of the older kind.  One of the newer kind
\* comes without its owner and goes back as one of the older.
InlineIdIsSentBack(id) ==
    LET sent == InlineMessageId(InlineMessageIdDto(id)) IN
    /\ id.kind = "id" => sent = id
    /\ id.kind = "id64" => sent.kind = "id" /\ sent # id

\* A caller that knows the owner names the message of the newer kind.
OwnedIdIsSentBack(id) ==
    InlineMessageId(With(InlineMessageIdDto(id), Field("ownerId", id.ownerId)))
        = id
=============================================================================
