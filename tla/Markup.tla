------------------------------- MODULE Markup -------------------------------
(***************************************************************************)
(* Reply markups and their three shapes: the specification a caller sends  *)
(* (payload.rs), the TL markup it is built into (ops/markup.rs) and the    *)
(* projection a received or a built markup crosses back as                 *)
(* (dto/markup.rs).                                                        *)
(*                                                                         *)
(* A string is the sequence of its bytes.  A button or a markup is a       *)
(* record tagged by its kind; a field that is null, or that a specification*)
(* leaves out, is absent from the record, so a projection says which       *)
(* fields it fills in.                                                     *)
(***************************************************************************)
EXTENDS Naturals, Sequences, Records

CONSTANTS
    Text,   \* the strings: sequences of bytes that are UTF-8
    Data    \* the byte sequences a received callback button may hold

CallbackDataLimit == 64

-----------------------------------------------------------------------------
(* Specifications.                                                         *)

InlineButtonSpec ==
         [kind : {"url", "webView"}, text : Text, url : Text]
    \cup [kind : {"callback"}, text : Text, data : Text]
    \cup [kind : {"switchInline"}, text : Text, query : Text]
    \cup [kind : {"switchInline"}, text : Text, query : Text,
          samePeer : BOOLEAN]

KeyboardButtonSpec ==
         [kind : {"text", "requestPhone", "requestGeo"}, text : Text]
    \cup [kind : {"requestPoll"}, text : Text, quiz : BOOLEAN]

\* A flag a caller leaves out is FALSE by the time a specification exists.
MarkupSpec ==
         [kind : {"inline"}, rows : Seq(Seq(InlineButtonSpec))]
    \cup [kind : {"keyboard"}, rows : Seq(Seq(KeyboardButtonSpec)),
          fitSize : BOOLEAN, singleUse : BOOLEAN, selective : BOOLEAN]
    \cup [kind : {"forceReply"}, singleUse : BOOLEAN, selective : BOOLEAN]
    \cup [kind : {"hide"}, selective : BOOLEAN]

\* A button without a label is refused.
Label(text) == text # <<>>

\* Callback data is what the button carries: some, and no more than fits.
CallbackData(data) == data # <<>> /\ Len(data) <= CallbackDataLimit

InlineButtonAccepted(spec) ==
    /\ Label(spec.text)
    /\ spec.kind = "callback" => CallbackData(spec.data)

KeyboardButtonAccepted(spec) == Label(spec.text)

\* A markup of buttons has a row, every row a button, and each is accepted.
RowsAccepted(rows, Accepted(_)) ==
    /\ rows # <<>>
    /\ \A i \in DOMAIN rows :
          rows[i] # <<>> /\ \A j \in DOMAIN rows[i] : Accepted(rows[i][j])

MarkupAccepted(spec) ==
    CASE spec.kind = "inline" -> RowsAccepted(spec.rows, InlineButtonAccepted)
      [] spec.kind = "keyboard" ->
            RowsAccepted(spec.rows, KeyboardButtonAccepted)
      [] OTHER -> TRUE

-----------------------------------------------------------------------------
(* Building.                                                               *)

\* The TL button: the specification's own fields and those grammers' builder
\* fills in.  Opening in the same chat is the default.
InlineButton(spec) ==
    CASE spec.kind = "callback" ->
            [kind |-> "callback", text |-> spec.text, data |-> spec.data,
             requiresPassword |-> FALSE]
      [] spec.kind = "switchInline" ->
            [kind |-> "switchInline", text |-> spec.text,
             query |-> spec.query, samePeer |-> OrElse(spec, "samePeer", TRUE)]
      [] OTHER -> [kind |-> spec.kind, text |-> spec.text, url |-> spec.url]

\* A poll that is no quiz leaves the flag unset, which is not FALSE.
KeyboardButton(spec) ==
    IF spec.kind = "requestPoll" /\ spec.quiz
    THEN [kind |-> "requestPoll", text |-> spec.text, quiz |-> TRUE]
    ELSE [kind |-> spec.kind, text |-> spec.text]

BuildRows(rows, Build(_)) ==
    [i \in DOMAIN rows |-> [j \in DOMAIN rows[i] |-> Build(rows[i][j])]]

\* Every builder starts with the flags off and no placeholder.
ReplyKeyboardMarkup(spec) ==
    [kind |-> "keyboard", rows |-> BuildRows(spec.rows, KeyboardButton),
     fitSize |-> spec.fitSize, singleUse |-> spec.singleUse,
     selective |-> spec.selective, persistent |-> FALSE]

ForceReplyMarkup(spec) ==
    [kind |-> "forceReply", singleUse |-> spec.singleUse,
     selective |-> spec.selective]

HideKeyboardMarkup(spec) == [kind |-> "hide", selective |-> spec.selective]

ReplyMarkupFromSpec(spec) ==
    CASE spec.kind = "inline" ->
            [kind |-> "inline", rows |-> BuildRows(spec.rows, InlineButton)]
      [] spec.kind = "keyboard" -> ReplyKeyboardMarkup(spec)
      [] spec.kind = "forceReply" -> ForceReplyMarkup(spec)
      [] spec.kind = "hide" -> HideKeyboardMarkup(spec)

-----------------------------------------------------------------------------
(* Projection.                                                             *)

\* The fields of the projection of an inline button, by its kind.  A button's
\* TL fields go by the names of the projection's.
InlineFields ==
    [url |-> {"url"}, webView |-> {"url"},
     callback |-> {"data", "requiresPassword"},
     switchInline |-> {"query", "samePeer", "peerTypes"},
     game |-> {}, pay |-> {}, disabled |-> {}, inputUserProfile |-> {},
     urlAuth |-> {"fwdText", "url", "buttonId"},
     inputUrlAuth |-> {"fwdText", "url", "requestWriteAccess"},
     userProfile |-> {"userId"}, copy |-> {"copyText"}]

KeyboardFields ==
    [text |-> {}, requestPhone |-> {}, requestGeo |-> {},
     requestPoll |-> {"quiz"},
     requestPeer |-> {"buttonId", "maxQuantity"},
     inputRequestPeer |-> {"buttonId", "maxQuantity"},
     simpleWebView |-> {"url"}]

ButtonFields ==
    {"kind", "text"} \cup (UNION {InlineFields[k] : k \in DOMAIN InlineFields})
                     \cup (UNION {KeyboardFields[k] : k \in DOMAIN KeyboardFields})

\* Callback data that is no UTF-8 is left out of the projection.
InlineButtonDto(button) ==
    Keep(button, {"kind", "text"} \cup
                 (IF button.kind = "callback" /\ button.data \notin Text
                  THEN {"requiresPassword"} ELSE InlineFields[button.kind]))

KeyboardButtonDto(button) ==
    Keep(button, {"kind", "text"} \cup KeyboardFields[button.kind])

\* The rows of buttons, of which only the first two kinds have any.
RowsDto(markup) ==
    CASE markup.kind = "inline" -> BuildRows(markup.rows, InlineButtonDto)
      [] markup.kind = "keyboard" -> BuildRows(markup.rows, KeyboardButtonDto)
      [] OTHER -> <<>>

\* Every flag is present, and FALSE where the kind has none.
MarkupFlags(markup) ==
    [kind |-> markup.kind,
     rows |-> RowsDto(markup),
     fitSize |-> OrElse(markup, "fitSize", FALSE),
     singleUse |-> OrElse(markup, "singleUse", FALSE),
     selective |-> OrElse(markup, "selective", FALSE),
     persistent |-> OrElse(markup, "persistent", FALSE)]

\* A placeholder, where it is set, is one field more.
ReplyMarkupDto(markup) ==
    LET dto == MarkupFlags(markup) IN
    [f \in DOMAIN dto \cup ({"placeholder"} \cap DOMAIN markup) |->
        IF f = "placeholder" THEN markup.placeholder ELSE dto[f]]

\* The inline buttons Telegram may send.
ReceivedInlineButton ==
         [kind : {"callback"}, text : Text, data : Data,
          requiresPassword : BOOLEAN]
    \cup [kind : {"game", "pay", "disabled"}, text : Text]
    \cup [kind : {"url"}, text : Text, url : Text]

-----------------------------------------------------------------------------
(* Properties.                                                             *)

\* What a specification asks for is in a projection: each of its fields has
\* there the value it asks for, a flag it leaves out being off.
Answers(dto, spec) ==
    \A f \in DOMAIN spec : OrElse(dto, f, FALSE) = spec[f]

\* Rows of the same shape, whose buttons answer those asked for.
RowsAnswer(dtos, specs) ==
    /\ DOMAIN dtos = DOMAIN specs
    /\ \A i \in DOMAIN specs :
          /\ DOMAIN dtos[i] = DOMAIN specs[i]
          /\ \A j \in DOMAIN specs[i] : Answers(dtos[i][j], specs[i][j])

\* A markup the build operations accept and build (ops/markup.rs:105-142)
\* crosses back as the markup that was asked for: the same kind, the same
\* flags, the same rows of the same buttons with the same payloads.
ReadsBack(spec) ==
    LET dto == ReplyMarkupDto(ReplyMarkupFromSpec(spec)) IN
    \A f \in DOMAIN spec :
        /\ f \in DOMAIN dto
        /\ IF f = "rows" THEN RowsAnswer(dto.rows, spec.rows)
           ELSE dto[f] = spec[f]

\* A projected button has only fields a projection may have, and always its
\* kind and its label.
WellFormed(dto) == {"kind", "text"} \subseteq DOMAIN dto
                   /\ DOMAIN dto \subseteq ButtonFields
=============================================================================
