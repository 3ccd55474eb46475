---------------------------- MODULE AccountHandlers ----------------------------
(***************************************************************************)
(* The handlers of native/src/ops that deal with the account itself, its   *)
(* stickers and its files, each as the set of its paths, in the words      *)
(* module MessageHandlers lists.  The login operations are module          *)
(* LoginFlow, the update polls UpdatePump, the streamed uploads            *)
(* UploadStream.                                                           *)
(***************************************************************************)

(* --- ops/account.rs ------------------------------------------------------ *)

UpdateProfile == {<<"check", "send">>}
UpdateUsername == {<<"check", "send">>}
CheckUsername == {<<"check", "ask">>}
UpdateStatus == {<<"check", "send">>}
GetAuthorizations == {<<"ask">>}
ResetAuthorization == {<<"check", "send">>}
ResetAuthorizations == {<<"send">>}
GetPassword == {<<"ask">>}
GetPrivacy == {<<"check", "ask">>}
SetPrivacy == {<<"check", "send">>}

\* Only some scopes name a peer, and those may need a topic or a channel.
GetNotifySettings == {<<"check", "ask">>, <<"check", "peer", "found", "ask">>}
UpdateNotifySettings == {<<"check", "send">>, <<"check", "peer", "found", "check", "send">>}

AccountModule ==
    UNION {UpdateProfile, UpdateUsername, CheckUsername, UpdateStatus,
           GetAuthorizations, ResetAuthorization, ResetAuthorizations, GetPassword,
           GetPrivacy, SetPrivacy, GetNotifySettings, UpdateNotifySettings}

(* --- the session's own account, ops/auth.rs ------------------------------ *)

GetMe == {<<"ask", "found">>}
GetSelfPeer == {<<"ask", "show">>}
GetDataCentreId == {<<"found">>}
ResolveUsername == {<<"check", "peer", "show">>}

AuthModule == UNION {GetMe, GetSelfPeer, GetDataCentreId, ResolveUsername}

(* --- ops/stickers.rs ----------------------------------------------------- *)

InstallStickerSet == {<<"check", "send">>}
UninstallStickerSet == {<<"check", "send">>}

\* The set is read for the sticker's file reference, then the sticker is sent.
SendSticker == {<<"check", "peer", "check", "ask", "found", "send", "show">>}

GetStickerSet == {<<"check", "ask">>}
GetAllStickers == {<<"check", "ask">>}
GetRecentStickers == {<<"check", "ask">>}
GetFavedStickers == {<<"check", "ask">>}

StickersModule ==
    UNION {InstallStickerSet, UninstallStickerSet, SendSticker, GetStickerSet,
           GetAllStickers, GetRecentStickers, GetFavedStickers}

(* --- ops/files.rs -------------------------------------------------------- *)

DownloadMedia == {<<"check", "peer", "ask", "found", "ask", "found">>}
DownloadMediaChunk == {<<"check", "peer", "ask", "found", "ask">>}
UploadFile == {<<"check", "found", "upload", "keep">>}
UploadBytes == {<<"check", "upload", "keep">>}
UploadProgressBegin == {<<"check">>}
UploadProgress == {<<"check", "found">>}
IterProfilePhotos == {<<"check", "peer", "ask">>}

FilesModule ==
    UNION {DownloadMedia, DownloadMediaChunk, UploadFile, UploadBytes,
           UploadProgressBegin, UploadProgress, IterProfilePhotos}

AccountHandlers == UNION {AccountModule, AuthModule, StickersModule, FilesModule}
================================================================================
