----------------------------- MODULE ChatHandlers -----------------------------
(***************************************************************************)
(* The handlers of native/src/ops that deal with chats, contacts, dialogs *)
(* and folders, each as the set of its paths, in the words module         *)
(* MessageHandlers lists.                                                  *)
(***************************************************************************)

(* --- ops/chats.rs -------------------------------------------------------- *)

GetParticipants == {<<"check", "peer", "check", "ask">>}
KickParticipant == {<<"check", "peer", "peer", "send">>}

\* A peer that is neither a channel nor a basic group is refused.
InviteToChannel == {<<"check", "peer", "peer", "found", "send">>}

JoinChat == {<<"check", "peer", "send", "show">>, <<"check", "peer", "send">>}
LeaveChat == {<<"check", "peer", "send">>}
GetPermissions == {<<"check", "peer", "peer", "ask">>}

\* Loading the rights in place is one request more, and for a channel only.
SetBannedRights ==
    {<<"check", "peer", "peer", "found", "send">>,
     <<"check", "peer", "peer", "ask", "send">>}

\* Faulty: the member is looked up once the rights are written.
SetAdminRightsMemberLast == {<<"check", "peer", "send", "peer">>}

SetAdminRights ==
    {<<"check", "peer", "peer", "found", "send">>,
     <<"check", "peer", "peer", "ask", "send">>}

AcceptInviteLink == {<<"check", "send", "show">>, <<"check", "send">>}
ParseInviteLink == {<<"check">>}
ResolvePeerById == {<<"check", "ask", "show">>}

ChatsModule ==
    UNION {GetParticipants, KickParticipant, InviteToChannel, JoinChat, LeaveChat,
           GetPermissions, SetBannedRights, SetAdminRights, AcceptInviteLink,
           ParseInviteLink, ResolvePeerById}

(* --- ops/contacts.rs and ops/users.rs ------------------------------------ *)

GetContacts == {<<"check", "ask", "show">>, <<"check", "ask">>}
ImportContacts == {<<"check", "send", "show">>}
DeleteContacts == {<<"check", "peers", "send">>}
Block == {<<"check", "peer", "send">>}
Unblock == {<<"check", "peer", "send">>}
GetBlocked == {<<"check", "ask", "show">>}
SearchContacts == {<<"check", "ask", "show">>}

\* An empty list of ids is answered without a request.
GetUsers == {<<"check">>, <<"check", "check", "ask", "show">>}

ContactsModule ==
    UNION {GetContacts, ImportContacts, DeleteContacts, Block, Unblock, GetBlocked,
           SearchContacts, GetUsers}

(* --- ops/dialogs.rs ------------------------------------------------------ *)

GetDialogs == {<<"check", "list">>}
GetDialogsMeta == {<<"check", "list">>}
GetDialogsTotal == {<<"ask">>}
MarkAsRead == {<<"check", "peer", "send">>}
ClearMentions == {<<"check", "peer", "send">>}

DialogsModule ==
    UNION {GetDialogs, GetDialogsMeta, GetDialogsTotal, MarkAsRead, ClearMentions}

(* --- ops/folders.rs and ops/chatlists.rs --------------------------------- *)

GetDialogFilters == {<<"ask", "show">>}
UpdateDialogFilter == {<<"check", "peers", "send">>}
UpdateDialogFiltersOrder == {<<"check", "send">>}

\* The invite is projected under the slug of its URL, and a URL that carries none
\* is refused: the invite is exported by then.
ExportChatlistInvite == {<<"check", "peers", "send", "slug">>}
DeleteExportedInvite == {<<"check", "send">>}
EditExportedInvite == {<<"check", "send", "slug">>, <<"check", "peers", "send", "slug">>}
GetExportedInvites == {<<"check", "ask", "slug", "show">>}
CheckChatlistInvite == {<<"check", "ask", "show">>}
JoinChatlistInvite == {<<"check", "peers", "send", "show">>}
GetChatlistUpdates == {<<"check", "ask", "show">>}
JoinChatlistUpdates == {<<"check", "peers", "send", "show">>}
HideChatlistUpdates == {<<"check", "send">>}
GetLeaveChatlistSuggestions == {<<"check", "ask">>}
LeaveChatlist == {<<"check", "peers", "send", "show">>}

FoldersModule ==
    UNION {GetDialogFilters, UpdateDialogFilter, UpdateDialogFiltersOrder,
           ExportChatlistInvite, DeleteExportedInvite, EditExportedInvite,
           GetExportedInvites, CheckChatlistInvite, JoinChatlistInvite,
           GetChatlistUpdates, JoinChatlistUpdates, HideChatlistUpdates,
           GetLeaveChatlistSuggestions, LeaveChatlist}

ChatHandlers == UNION {ChatsModule, ContactsModule, DialogsModule, FoldersModule}
===============================================================================
