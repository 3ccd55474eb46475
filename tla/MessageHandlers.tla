--------------------------- MODULE MessageHandlers ---------------------------
(***************************************************************************)
(* The handlers of native/src/ops that send, read and change messages,    *)
(* each as the set of its paths.  A path is the sequence of things the    *)
(* handler does that can end it, touch Telegram or touch a registry; every *)
(* step is named by a word, and module Operations says what a word does:  *)
(*                                                                         *)
(*   "check"    a condition on the payload (parsing it is the first one)   *)
(*   "peer"     one peer selector resolved, "peers" a list of them         *)
(*   "ask"      requests that change nothing at Telegram                   *)
(*   "list"     a listing whose rows are projected as they arrive          *)
(*   "found"    a condition on what was resolved, read or is on the disk   *)
(*   "upload"   a file uploaded or an earlier upload looked up, "uploads"  *)
(*              one per item of an album                                   *)
(*   "send"     the one request that changes the account or a chat         *)
(*   "fetch"    the message just sent, read back                           *)
(*   "slug"     the slug cut out of the URL the sent request was answered  *)
(*   "show"     the answer's peers registered while it is projected        *)
(*   "keep"     the finished upload registered                             *)
(*                                                                         *)
(* Adjacent conditions are one "check"; what is asked twice in a row with  *)
(* nothing in between is one "ask".                                        *)
(***************************************************************************)

(* --- ops/messages.rs ---------------------------------------------------- *)

SendMessage == {<<"check", "peer", "check", "send", "show">>}

\* Faulty: the markup is attached, and refused, once the message is sent.
SendFileMarkupLast ==
    {<<"check", "peer", "check", "upload", "send", "check", "show">>}

\* The markup is built after the upload, so a bad one wastes the upload.
SendFile == {<<"check", "peer", "check", "upload", "check", "send", "show">>}

SendAlbum == {<<"check", "peer", "uploads", "send", "show">>}

\* An edit replaces no media, or media from a path, a URL or another message.
EditMessage ==
    {<<"check", "peer", "check", "send">>,
     <<"check", "peer", "check", "upload", "send">>,
     <<"check", "peer", "check", "peer", "ask", "found", "send">>}

DeleteMessages == {<<"check", "peer", "send">>}
GetHistory == {<<"check", "peer", "check", "list">>}
GetHistoryTotal == {<<"check", "peer", "ask">>}
GetChatPhotos == {<<"check", "peer", "list">>}
GetReplyToMessage == {<<"check", "peer", "ask", "show">>, <<"check", "peer", "ask">>}
GetMessages == {<<"check", "peer", "check", "ask", "show">>}
SearchMessages == {<<"check", "peer", "check", "ask", "show">>}
SearchMessagesTotal == {<<"check", "peer", "ask">>}
SearchAllMessages == {<<"check", "list">>}
SearchAllMessagesTotal == {<<"check", "ask">>}
ForwardMessages == {<<"check", "peer", "peer", "send", "show">>}
GetPinnedMessage == {<<"check", "peer", "ask", "show">>}
PinMessage == {<<"check", "peer", "send">>}
UnpinMessage == {<<"check", "peer", "send">>}
UnpinAllMessages == {<<"check", "peer", "send">>}
SendReaction == {<<"check", "peer", "check", "send">>}

MessagesModule ==
    UNION {SendMessage, SendFile, SendAlbum, EditMessage, DeleteMessages, GetHistory,
           GetHistoryTotal, GetChatPhotos, GetReplyToMessage, GetMessages, SearchMessages,
           SearchMessagesTotal, SearchAllMessages, SearchAllMessagesTotal,
           ForwardMessages, GetPinnedMessage, PinMessage, UnpinMessage,
           UnpinAllMessages, SendReaction}

(* --- ops/media.rs ------------------------------------------------------- *)

SendMedia == {<<"check", "peer", "check", "upload", "check", "send", "show">>}
SendMediaUrl == {<<"check", "peer", "check", "send", "show">>}
CopyMedia == {<<"check", "peer", "peer", "ask", "found", "check", "send", "show">>}

MediaModule == UNION {SendMedia, SendMediaUrl, CopyMedia}

(* --- ops/inline.rs and the guest chats of ops/updates.rs ----------------- *)

InlineQuery == {<<"check", "peer", "ask">>, <<"check", "peer", "peer", "ask">>}
AnswerCallbackQuery == {<<"check", "send">>}
AnswerInlineQuery == {<<"check", "send">>}

\* The bundle that answers the send names its message, or names none.
SendInlineBotResult ==
    {<<"check", "peer", "check", "send", "fetch", "show">>,
     <<"check", "peer", "check", "send">>}

EditInlineMessage == {<<"check", "send">>}
AnswerGuestChatQuery == {<<"check", "send">>}

InlineModule ==
    UNION {InlineQuery, AnswerCallbackQuery, AnswerInlineQuery, SendInlineBotResult,
           EditInlineMessage, AnswerGuestChatQuery}

(* --- ops/actions.rs and ops/markup.rs ------------------------------------ *)

SendChatAction == {<<"check", "peer", "check", "send">>}
GetMessageAction == {<<"check", "peer", "ask", "found">>}
GetReplyMarkup == {<<"check", "peer", "ask", "found">>}
BuildMarkup == {<<"check">>}

ActionsModule == UNION {SendChatAction, GetMessageAction, GetReplyMarkup, BuildMarkup}

MessageHandlers == UNION {MessagesModule, MediaModule, InlineModule, ActionsModule}
==============================================================================
