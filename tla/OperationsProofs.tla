--------------------------- MODULE OperationsProofs ---------------------------
(***************************************************************************)
(* Proofs about Operations and about Listings, which share no state.        *)
(*                                                                         *)
(* Operations.  The order of every handler's path is checked once, module   *)
(* by module (Clean); a step then only has to carry it along: what a call   *)
(* has still to do is clean, and once its change is made holds nothing but  *)
(* what may follow a change.                                                *)
(*                                                                         *)
(* Listings.  Everything rests on the ranks of the rows: a page has no gaps *)
(* in them, and a change shifts each by one.  A cursor that names a stamp   *)
(* has listed all that stayed above it and nothing below; one that counts   *)
(* rows is wrong by one for every change.                                   *)
(***************************************************************************)
EXTENDS MCOperations, FiniteSetTheorems, WellFoundedInduction, TLAPS

(* --- The paths ---------------------------------------------------------- *)

\* What may follow the change: it is read back, and the answer is made up.
Late == {"fetch", "slug", "show"}

Ordered(path) ==
    \A i \in 1..Len(path) :
      path[i] = "send" => \A j \in (i + 1)..Len(path) : path[j] \in Late

\* A path is of the words above, and changes nothing but at its end.
Clean(path) == path \in Seq(Words) /\ Ordered(path)

LEMMA MessagesClean == \A path \in MessagesModule : Clean(path)
<1>1. Clean(<<"check", "peer", "check", "send", "show">>)
  BY DEF Clean, Ordered, Late, Words
<1>2. Clean(<<"check", "peer", "check", "upload", "check", "send", "show">>)
  BY DEF Clean, Ordered, Late, Words
<1>3. Clean(<<"check", "peer", "uploads", "send", "show">>)
  BY DEF Clean, Ordered, Late, Words
<1>4. Clean(<<"check", "peer", "check", "send">>)
  BY DEF Clean, Ordered, Late, Words
<1>5. Clean(<<"check", "peer", "check", "upload", "send">>)
  BY DEF Clean, Ordered, Late, Words
<1>6. Clean(<<"check", "peer", "check", "peer", "ask", "found", "send">>)
  BY DEF Clean, Ordered, Late, Words
<1>7. Clean(<<"check", "peer", "send">>)
  BY DEF Clean, Ordered, Late, Words
<1>8. Clean(<<"check", "peer", "check", "list">>)
  BY DEF Clean, Ordered, Late, Words
<1>9. Clean(<<"check", "peer", "ask">>)
  BY DEF Clean, Ordered, Late, Words
<1>10. Clean(<<"check", "peer", "list">>)
  BY DEF Clean, Ordered, Late, Words
<1>11. Clean(<<"check", "peer", "ask", "show">>)
  BY DEF Clean, Ordered, Late, Words
<1>12. Clean(<<"check", "peer", "check", "ask", "show">>)
  BY DEF Clean, Ordered, Late, Words
<1>13. Clean(<<"check", "list">>)
  BY DEF Clean, Ordered, Late, Words
<1>14. Clean(<<"check", "ask">>)
  BY DEF Clean, Ordered, Late, Words
<1>15. Clean(<<"check", "peer", "peer", "send", "show">>)
  BY DEF Clean, Ordered, Late, Words
<1> QED BY <1>1, <1>2, <1>3, <1>4, <1>5, <1>6, <1>7, <1>8, <1>9, <1>10,
           <1>11, <1>12, <1>13, <1>14, <1>15
      DEF MessagesModule, SendMessage, SendFile, SendAlbum, EditMessage,
          DeleteMessages, GetHistory, GetHistoryTotal, GetChatPhotos,
          GetReplyToMessage, GetMessages, SearchMessages,
          SearchMessagesTotal, SearchAllMessages, SearchAllMessagesTotal,
          ForwardMessages, GetPinnedMessage, PinMessage, UnpinMessage,
          UnpinAllMessages, SendReaction

LEMMA MediaClean == \A path \in MediaModule : Clean(path)
<1>1. Clean(<<"check", "peer", "check", "upload", "check", "send", "show">>)
  BY DEF Clean, Ordered, Late, Words
<1>2. Clean(<<"check", "peer", "check", "send", "show">>)
  BY DEF Clean, Ordered, Late, Words
<1>3. Clean(<<"check", "peer", "peer", "ask", "found", "check", "send", "show">>)
  BY DEF Clean, Ordered, Late, Words
<1> QED BY <1>1, <1>2, <1>3
      DEF MediaModule, SendMedia, SendMediaUrl, CopyMedia

LEMMA InlineClean == \A path \in InlineModule : Clean(path)
<1>1. Clean(<<"check", "peer", "ask">>)
  BY DEF Clean, Ordered, Late, Words
<1>2. Clean(<<"check", "peer", "peer", "ask">>)
  BY DEF Clean, Ordered, Late, Words
<1>3. Clean(<<"check", "send">>)
  BY DEF Clean, Ordered, Late, Words
<1>4. Clean(<<"check", "peer", "check", "send", "fetch", "show">>)
  BY DEF Clean, Ordered, Late, Words
<1>5. Clean(<<"check", "peer", "check", "send">>)
  BY DEF Clean, Ordered, Late, Words
<1> QED BY <1>1, <1>2, <1>3, <1>4, <1>5
      DEF InlineModule, InlineQuery, AnswerCallbackQuery, AnswerInlineQuery,
          SendInlineBotResult, EditInlineMessage, AnswerGuestChatQuery

LEMMA ActionsClean == \A path \in ActionsModule : Clean(path)
<1>1. Clean(<<"check", "peer", "check", "send">>)
  BY DEF Clean, Ordered, Late, Words
<1>2. Clean(<<"check", "peer", "ask", "found">>)
  BY DEF Clean, Ordered, Late, Words
<1>3. Clean(<<"check">>)
  BY DEF Clean, Ordered, Late, Words
<1> QED BY <1>1, <1>2, <1>3
      DEF ActionsModule, SendChatAction, GetMessageAction, GetReplyMarkup,
          BuildMarkup

LEMMA ChatsClean == \A path \in ChatsModule : Clean(path)
<1>1. Clean(<<"check", "peer", "check", "ask">>)
  BY DEF Clean, Ordered, Late, Words
<1>2. Clean(<<"check", "peer", "peer", "send">>)
  BY DEF Clean, Ordered, Late, Words
<1>3. Clean(<<"check", "peer", "peer", "found", "send">>)
  BY DEF Clean, Ordered, Late, Words
<1>4. Clean(<<"check", "peer", "send", "show">>)
  BY DEF Clean, Ordered, Late, Words
<1>5. Clean(<<"check", "peer", "send">>)
  BY DEF Clean, Ordered, Late, Words
<1>6. Clean(<<"check", "peer", "peer", "ask">>)
  BY DEF Clean, Ordered, Late, Words
<1>7. Clean(<<"check", "peer", "peer", "ask", "send">>)
  BY DEF Clean, Ordered, Late, Words
<1>8. Clean(<<"check", "send", "show">>)
  BY DEF Clean, Ordered, Late, Words
<1>9. Clean(<<"check", "send">>)
  BY DEF Clean, Ordered, Late, Words
<1>10. Clean(<<"check">>)
  BY DEF Clean, Ordered, Late, Words
<1>11. Clean(<<"check", "ask", "show">>)
  BY DEF Clean, Ordered, Late, Words
<1> QED BY <1>1, <1>2, <1>3, <1>4, <1>5, <1>6, <1>7, <1>8, <1>9, <1>10,
           <1>11
      DEF ChatsModule, GetParticipants, KickParticipant, InviteToChannel,
          JoinChat, LeaveChat, GetPermissions, SetBannedRights,
          SetAdminRights, AcceptInviteLink, ParseInviteLink, ResolvePeerById

LEMMA ContactsClean == \A path \in ContactsModule : Clean(path)
<1>1. Clean(<<"check", "ask", "show">>)
  BY DEF Clean, Ordered, Late, Words
<1>2. Clean(<<"check", "ask">>)
  BY DEF Clean, Ordered, Late, Words
<1>3. Clean(<<"check", "send", "show">>)
  BY DEF Clean, Ordered, Late, Words
<1>4. Clean(<<"check", "peers", "send">>)
  BY DEF Clean, Ordered, Late, Words
<1>5. Clean(<<"check", "peer", "send">>)
  BY DEF Clean, Ordered, Late, Words
<1>6. Clean(<<"check">>)
  BY DEF Clean, Ordered, Late, Words
<1>7. Clean(<<"check", "check", "ask", "show">>)
  BY DEF Clean, Ordered, Late, Words
<1> QED BY <1>1, <1>2, <1>3, <1>4, <1>5, <1>6, <1>7
      DEF ContactsModule, GetContacts, ImportContacts, DeleteContacts,
          Block, Unblock, GetBlocked, SearchContacts, GetUsers

LEMMA DialogsClean == \A path \in DialogsModule : Clean(path)
<1>1. Clean(<<"check", "list">>)
  BY DEF Clean, Ordered, Late, Words
<1>2. Clean(<<"ask">>)
  BY DEF Clean, Ordered, Late, Words
<1>3. Clean(<<"check", "peer", "send">>)
  BY DEF Clean, Ordered, Late, Words
<1> QED BY <1>1, <1>2, <1>3
      DEF DialogsModule, GetDialogs, GetDialogsMeta, GetDialogsTotal,
          MarkAsRead, ClearMentions

LEMMA FoldersClean == \A path \in FoldersModule : Clean(path)
<1>1. Clean(<<"ask", "show">>)
  BY DEF Clean, Ordered, Late, Words
<1>2. Clean(<<"check", "peers", "send">>)
  BY DEF Clean, Ordered, Late, Words
<1>3. Clean(<<"check", "send">>)
  BY DEF Clean, Ordered, Late, Words
<1>4. Clean(<<"check", "peers", "send", "slug">>)
  BY DEF Clean, Ordered, Late, Words
<1>5. Clean(<<"check", "send", "slug">>)
  BY DEF Clean, Ordered, Late, Words
<1>6. Clean(<<"check", "ask", "slug", "show">>)
  BY DEF Clean, Ordered, Late, Words
<1>7. Clean(<<"check", "ask", "show">>)
  BY DEF Clean, Ordered, Late, Words
<1>8. Clean(<<"check", "peers", "send", "show">>)
  BY DEF Clean, Ordered, Late, Words
<1>9. Clean(<<"check", "ask">>)
  BY DEF Clean, Ordered, Late, Words
<1> QED BY <1>1, <1>2, <1>3, <1>4, <1>5, <1>6, <1>7, <1>8, <1>9
      DEF FoldersModule, GetDialogFilters, UpdateDialogFilter,
          UpdateDialogFiltersOrder, ExportChatlistInvite,
          DeleteExportedInvite, EditExportedInvite, GetExportedInvites,
          CheckChatlistInvite, JoinChatlistInvite, GetChatlistUpdates,
          JoinChatlistUpdates, HideChatlistUpdates,
          GetLeaveChatlistSuggestions, LeaveChatlist

LEMMA AccountClean == \A path \in AccountModule : Clean(path)
<1>1. Clean(<<"check", "send">>)
  BY DEF Clean, Ordered, Late, Words
<1>2. Clean(<<"check", "ask">>)
  BY DEF Clean, Ordered, Late, Words
<1>3. Clean(<<"ask">>)
  BY DEF Clean, Ordered, Late, Words
<1>4. Clean(<<"send">>)
  BY DEF Clean, Ordered, Late, Words
<1>5. Clean(<<"check", "peer", "found", "ask">>)
  BY DEF Clean, Ordered, Late, Words
<1>6. Clean(<<"check", "peer", "found", "check", "send">>)
  BY DEF Clean, Ordered, Late, Words
<1> QED BY <1>1, <1>2, <1>3, <1>4, <1>5, <1>6
      DEF AccountModule, UpdateProfile, UpdateUsername, CheckUsername,
          UpdateStatus, GetAuthorizations, ResetAuthorization,
          ResetAuthorizations, GetPassword, GetPrivacy, SetPrivacy,
          GetNotifySettings, UpdateNotifySettings

LEMMA AuthClean == \A path \in AuthModule : Clean(path)
<1>1. Clean(<<"ask", "found">>)
  BY DEF Clean, Ordered, Late, Words
<1>2. Clean(<<"ask", "show">>)
  BY DEF Clean, Ordered, Late, Words
<1>3. Clean(<<"found">>)
  BY DEF Clean, Ordered, Late, Words
<1>4. Clean(<<"check", "peer", "show">>)
  BY DEF Clean, Ordered, Late, Words
<1> QED BY <1>1, <1>2, <1>3, <1>4
      DEF AuthModule, GetMe, GetSelfPeer, GetDataCentreId, ResolveUsername

LEMMA StickersClean == \A path \in StickersModule : Clean(path)
<1>1. Clean(<<"check", "send">>)
  BY DEF Clean, Ordered, Late, Words
<1>2. Clean(<<"check", "peer", "check", "ask", "found", "send", "show">>)
  BY DEF Clean, Ordered, Late, Words
<1>3. Clean(<<"check", "ask">>)
  BY DEF Clean, Ordered, Late, Words
<1> QED BY <1>1, <1>2, <1>3
      DEF StickersModule, InstallStickerSet, UninstallStickerSet,
          SendSticker, GetStickerSet, GetAllStickers, GetRecentStickers,
          GetFavedStickers

LEMMA FilesClean == \A path \in FilesModule : Clean(path)
<1>1. Clean(<<"check", "peer", "ask", "found", "ask", "found">>)
  BY DEF Clean, Ordered, Late, Words
<1>2. Clean(<<"check", "peer", "ask", "found", "ask">>)
  BY DEF Clean, Ordered, Late, Words
<1>3. Clean(<<"check", "found", "upload", "keep">>)
  BY DEF Clean, Ordered, Late, Words
<1>4. Clean(<<"check", "upload", "keep">>)
  BY DEF Clean, Ordered, Late, Words
<1>5. Clean(<<"check">>)
  BY DEF Clean, Ordered, Late, Words
<1>6. Clean(<<"check", "found">>)
  BY DEF Clean, Ordered, Late, Words
<1>7. Clean(<<"check", "peer", "ask">>)
  BY DEF Clean, Ordered, Late, Words
<1> QED BY <1>1, <1>2, <1>3, <1>4, <1>5, <1>6, <1>7
      DEF FilesModule, DownloadMedia, DownloadMediaChunk, UploadFile,
          UploadBytes, UploadProgressBegin, UploadProgress,
          IterProfilePhotos

LEMMA HandlersClean == \A path \in Handlers : Clean(path)
BY MessagesClean, MediaClean, InlineClean, ActionsClean, ChatsClean, ContactsClean,
   DialogsClean, FoldersClean, AccountClean, AuthClean, StickersClean, FilesClean
   DEF Handlers, MessageHandlers, ChatHandlers, AccountHandlers

(* --- The invariant ------------------------------------------------------ *)

IsLate(path) == \A j \in 1..Len(path) : path[j] \in Late

\* What a call has left is clean, and late once its change is made; how a call may
\* have ended.
Progress ==
    \A c \in Callers :
      /\ Ordered(todo[c])
      /\ sent[c] <= 1
      /\ sent[c] = 1 => IsLate(todo[c])
      /\ end[c] = "busy" => lost[c] = FALSE
      /\ end[c] = "refused" => sent[c] = 0 \/ at[c] = "slug"
      /\ end[c] = "failed" => sent[c] = 0 \/ lost[c] \/ at[c] = "fetch"

\* A handle is below the counter, in the map or in the hands of one call.
Numbered ==
    /\ \A h \in DOMAIN peers : h < nextPeer
    /\ \A c \in Callers : fresh[c] < nextPeer /\ fresh[c] \notin DOMAIN peers
    /\ \A c, d \in Callers : c # d /\ fresh[c] # 0 => fresh[c] # fresh[d]

Named ==
    /\ \A c \in Callers : \A g \in got[c] : g[1] \in DOMAIN peers /\ peers[g[1]] = g[2]
    /\ HandleNamesItsPeer

OInv == TypeOK /\ Progress /\ Numbered /\ Named

LEMMA Rest ==
    ASSUME NEW s \in Seq(Words), s # <<>>, Ordered(s)
    PROVE  /\ Head(s) \in Words
           /\ Tail(s) \in Seq(Words)
           /\ Ordered(Tail(s))
           /\ Head(s) = "send" => IsLate(Tail(s))
           /\ IsLate(s) => Head(s) \in Late /\ IsLate(Tail(s))
<1>1. Len(s) \in Nat /\ Len(s) >= 1 /\ Head(s) = s[1] /\ Head(s) \in Words
  OBVIOUS
<1>2. Tail(s) \in Seq(Words) /\ Len(Tail(s)) = Len(s) - 1
  OBVIOUS
<1>3. \A i \in 1..Len(Tail(s)) : i + 1 \in 1..Len(s) /\ Tail(s)[i] = s[i + 1]
  BY <1>1, <1>2
<1>4. Ordered(Tail(s))
  <2> SUFFICES ASSUME NEW i \in 1..Len(Tail(s)), Tail(s)[i] = "send",
                      NEW j \in (i + 1)..Len(Tail(s))
               PROVE  Tail(s)[j] \in Late
    BY DEF Ordered
  <2>1. s[i + 1] = "send" /\ j + 1 \in (i + 1 + 1)..Len(s)
    BY <1>1, <1>2, <1>3
  <2>2. j \in 1..Len(Tail(s))
    BY <1>1, <1>2
  <2> QED BY <2>1, <2>2, <1>3 DEF Ordered
<1>5. Head(s) = "send" => IsLate(Tail(s))
  BY <1>1, <1>2, <1>3 DEF Ordered, IsLate
<1>6. IsLate(s) => Head(s) \in Late /\ IsLate(Tail(s))
  BY <1>1, <1>2, <1>3 DEF IsLate
<1> QED BY <1>1, <1>2, <1>4, <1>5, <1>6

LEMMA InitOInv == Init => OInv
BY OperationsAssumption
   DEF Init, OInv, TypeOK, Progress, Numbered, Named, HandleNamesItsPeer, Ordered, IsLate

(* --- The steps ---------------------------------------------------------- *)

LEMMA GoOnKeeps ==
    ASSUME TypeOK, Progress, NEW c \in Callers, NEW words \in SUBSET Words,
           Going(c, words), GoOn(c), UNCHANGED registry
    PROVE  TypeOK' /\ Progress'
<1>1. /\ Tail(todo[c]) \in Seq(Words)
      /\ Ordered(Tail(todo[c]))
      /\ IsLate(todo[c]) => IsLate(Tail(todo[c]))
  BY Rest DEF TypeOK, Progress, Going
<1>2. todo' = [todo EXCEPT ![c] = Tail(todo[c])] /\ UNCHANGED <<call, registry>>
  BY DEF GoOn
<1>3. TypeOK'
  BY <1>1, <1>2 DEF TypeOK, call, registry
<1>4. Progress'
  <2> SUFFICES ASSUME NEW d \in Callers
               PROVE  /\ Ordered(todo'[d])
                      /\ sent[d] = 1 => IsLate(todo'[d])
    BY <1>2 DEF Progress, call
  <2>1. CASE d = c
    BY <2>1, <1>1, <1>2 DEF Progress, TypeOK
  <2>2. CASE d # c
    BY <2>2, <1>2 DEF Progress, TypeOK
  <2> QED BY <2>1, <2>2
<1> QED BY <1>3, <1>4

\* A call is refused at a step that comes before the change, or at the slug; it
\* fails at one that comes before it, or at reading the message back.
LEMMA StopKeeps ==
    ASSUME TypeOK, Progress, NEW c \in Callers, NEW words \in SUBSET Words,
           Going(c, words), UNCHANGED registry,
           \/ StopWith(c, "refused") /\ words \cap {"show", "fetch"} = {}
           \/ StopWith(c, "failed") /\ words \cap {"show", "slug"} = {}
    PROVE  TypeOK' /\ Progress'
<1> DEFINE w == Head(todo[c])
<1>1. w \in Words /\ w \in words /\ (sent[c] = 1 => w \in Late)
  BY Rest DEF TypeOK, Progress, Going
<1>2. PICK how \in {"refused", "failed"} :
        /\ end' = [end EXCEPT ![c] = how]
        /\ how = "refused" => w \notin {"show", "fetch"}
        /\ how = "failed" => w \notin {"show", "slug"}
        /\ at' = [at EXCEPT ![c] = w]
        /\ todo' = [todo EXCEPT ![c] = <<>>]
        /\ sent' = sent /\ lost' = lost
  BY <1>1 DEF StopWith
<1>3. <<>> \in Seq(Words) /\ Ordered(<<>>) /\ IsLate(<<>>)
  BY DEF Ordered, IsLate
<1> HIDE DEF w
<1>4. TypeOK'
  BY <1>1, <1>2, <1>3 DEF TypeOK, registry
<1>5. sent[c] = 0 \/ sent[c] = 1
  BY DEF TypeOK, Progress
<1>6. Progress'
  <2> SUFFICES ASSUME NEW d \in Callers
               PROVE  /\ Ordered(todo'[d])
                      /\ sent[d] <= 1
                      /\ sent[d] = 1 => IsLate(todo'[d])
                      /\ end'[d] = "busy" => lost[d] = FALSE
                      /\ end'[d] = "refused" => sent[d] = 0 \/ at'[d] = "slug"
                      /\ end'[d] = "failed" => sent[d] = 0 \/ lost[d] \/ at'[d] = "fetch"
    BY <1>2 DEF Progress
  <2>1. CASE d = c
    BY <2>1, <1>1, <1>2, <1>3, <1>5 DEF Progress, TypeOK, Late
  <2>2. CASE d # c
    BY <2>2, <1>2 DEF Progress, TypeOK
  <2> QED BY <2>1, <2>2
<1> QED BY <1>4, <1>6

LEMMA RegistryKept == Numbered /\ Named /\ UNCHANGED registry => Numbered' /\ Named'
BY DEF Numbered, Named, HandleNamesItsPeer, registry

LEMMA StartKeeps ==
    ASSUME OInv, NEW c \in Callers, Start(c)
    PROVE  OInv'
<1>1. PICK path \in Handlers : todo' = [todo EXCEPT ![c] = path]
  BY DEF Start
<1>2. path \in Seq(Words) /\ Ordered(path)
  BY <1>1, HandlersClean DEF Clean
<1>3. TypeOK'
  BY <1>1, <1>2 DEF Start, OInv, TypeOK
<1>4. Progress'
  BY <1>1, <1>2 DEF Start, OInv, TypeOK, Progress
<1>5. Numbered' /\ Named'
  BY DEF Start, OInv, TypeOK, Numbered, Named, HandleNamesItsPeer
<1> QED BY <1>3, <1>4, <1>5 DEF OInv

\* The change is made: at most one, since what is left of the path is late.
LEMMA SendKeeps ==
    ASSUME OInv, NEW c \in Callers, Send(c) \/ SendUnanswered(c)
    PROVE  OInv'
<1>1. Going(c, {"send"}) /\ UNCHANGED registry
  BY DEF Send, SendUnanswered
<1>2. /\ Tail(todo[c]) \in Seq(Words)
      /\ Ordered(Tail(todo[c]))
      /\ IsLate(Tail(todo[c]))
      /\ sent[c] # 1
  BY <1>1, Rest DEF OInv, TypeOK, Progress, Going, Late
<1>3. sent[c] = 0
  BY <1>2 DEF OInv, TypeOK, Progress
<1>4. <<>> \in Seq(Words) /\ Ordered(<<>>) /\ IsLate(<<>>)
  BY DEF Ordered, IsLate
<1>5. TypeOK' /\ Progress'
  <2>1. CASE Send(c)
    <3>1. TypeOK'
      BY <2>1, <1>2, <1>3 DEF Send, OInv, TypeOK, registry
    <3>2. Progress'
      BY <2>1, <1>2, <1>3 DEF Send, OInv, TypeOK, Progress, Going
    <3> QED BY <3>1, <3>2
  <2>2. CASE SendUnanswered(c)
    <3>1. PICK made \in {0, 1} : sent' = [sent EXCEPT ![c] = @ + made]
      BY <2>2 DEF SendUnanswered
    <3>2. TypeOK'
      BY <2>2, <3>1, <1>3, <1>4 DEF SendUnanswered, OInv, TypeOK, registry, Words
    <3>3. Progress'
      BY <2>2, <3>1, <1>3, <1>4 DEF SendUnanswered, OInv, TypeOK, Progress, Going
    <3> QED BY <3>2, <3>3
  <2> QED BY <2>1, <2>2
<1> QED BY <1>1, <1>5, RegistryKept DEF OInv

LEMMA AllocateKeeps ==
    ASSUME OInv, NEW c \in Callers, Allocate(c)
    PROVE  OInv'
<1>1. TypeOK'
  BY OperationsAssumption DEF Allocate, OInv, TypeOK, call
<1>2. Progress'
  BY DEF Allocate, OInv, Progress, call
<1>3. Numbered'
  BY DEF Allocate, OInv, TypeOK, Numbered
<1>4. Named'
  BY DEF Allocate, OInv, Named, HandleNamesItsPeer
<1> QED BY <1>1, <1>2, <1>3, <1>4 DEF OInv

\* The handle inserted is in no call's hands and in no answer yet.
LEMMA InsertKeeps ==
    ASSUME OInv, NEW c \in Callers, Insert(c)
    PROVE  OInv'
<1>1. PICK p \in Peers :
        /\ peers' = [h \in DOMAIN peers \cup {fresh[c]} |->
                       IF h = fresh[c] THEN p ELSE peers[h]]
        /\ got' = [got EXCEPT ![c] = @ \cup {<<fresh[c], p>>}]
  BY DEF Insert
<1>2. /\ fresh[c] \in 1..MaxHandles /\ fresh[c] \notin DOMAIN peers
      /\ fresh' = [fresh EXCEPT ![c] = 0] /\ UNCHANGED <<todo, call, nextPeer, given>>
  BY OperationsAssumption DEF Insert, OInv, TypeOK, Numbered
<1>3. /\ DOMAIN peers' = DOMAIN peers \cup {fresh[c]}
      /\ peers'[fresh[c]] = p
      /\ \A h \in DOMAIN peers : peers'[h] = peers[h]
  BY <1>1, <1>2
<1>4. TypeOK'
  <2>1. DOMAIN peers' \subseteq 1..MaxHandles /\ \A h \in DOMAIN peers' : peers'[h] \in Peers
    BY <1>1, <1>2, <1>3 DEF OInv, TypeOK
  <2>2. got' \in [Callers -> SUBSET ((1..MaxHandles) \X Peers)]
    BY <1>1, <1>2 DEF OInv, TypeOK
  <2>3. fresh' \in [Callers -> 0..MaxHandles]
    BY <1>2, OperationsAssumption DEF OInv, TypeOK
  <2> QED BY <1>2, <2>1, <2>2, <2>3 DEF OInv, TypeOK, call
<1>5. Progress'
  BY <1>2 DEF OInv, Progress, call
<1>6. Numbered'
  BY <1>2, <1>3 DEF OInv, TypeOK, Numbered
<1>7. Named'
  <2>1. \A d \in Callers : \A g \in got'[d] : g[1] \in DOMAIN peers' /\ peers'[g[1]] = g[2]
    BY <1>1, <1>3 DEF OInv, TypeOK, Named
  <2>2. HandleNamesItsPeer'
    BY <1>2, <1>3 DEF OInv, Named, HandleNamesItsPeer
  <2> QED BY <2>1, <2>2 DEF Named
<1> QED BY <1>4, <1>5, <1>6, <1>7 DEF OInv

LEMMA AnswerKeeps ==
    ASSUME OInv, NEW c \in Callers, Answer(c)
    PROVE  OInv'
<1>1. TypeOK'
  BY DEF Answer, OInv, TypeOK
<1>2. Progress'
  BY DEF Answer, OInv, TypeOK, Progress
<1>3. Numbered'
  BY DEF Answer, OInv, Numbered
<1>4. Named'
  BY DEF Answer, OInv, TypeOK, Named, HandleNamesItsPeer
<1> QED BY <1>1, <1>2, <1>3, <1>4 DEF OInv

LEMMA NextOInv == OInv /\ [Next]_vars => OInv'
<1> SUFFICES ASSUME OInv, [Next]_vars PROVE OInv'
  OBVIOUS
<1> USE DEF OInv
<1>1. CASE UNCHANGED vars
  BY <1>1 DEF vars, TypeOK, Progress, Numbered, Named, HandleNamesItsPeer
<1>2. CASE Next
  <2> PICK c \in Callers : Step(c)
    BY <1>2 DEF Next
  <2>1. CASE Start(c)
    BY <2>1, StartKeeps
  <2>2. CASE Check(c)
    BY <2>2, GoOnKeeps, StopKeeps, RegistryKept DEF Check, Words
  <2>3. CASE ResolveHandle(c)
    BY <2>3, GoOnKeeps, StopKeeps, RegistryKept DEF ResolveHandle, Words
  <2>4. CASE ResolveName(c)
    BY <2>4, GoOnKeeps, StopKeeps, RegistryKept DEF ResolveName, Words
  <2>5. CASE Upload(c)
    BY <2>5, GoOnKeeps, StopKeeps, RegistryKept DEF Upload, Words
  <2>6. CASE Ask(c)
    BY <2>6, GoOnKeeps, StopKeeps, RegistryKept DEF Ask, Words
  <2>7. CASE ListFails(c)
    BY <2>7, StopKeeps, RegistryKept DEF ListFails, Words
  <2>8. CASE Send(c) \/ SendUnanswered(c)
    BY <2>8, SendKeeps
  <2>9. CASE SendRejected(c)
    BY <2>9, StopKeeps, RegistryKept DEF SendRejected, Words
  <2>10. CASE Allocate(c)
    BY <2>10, AllocateKeeps
  <2>11. CASE Insert(c)
    BY <2>11, InsertKeeps
  <2>12. CASE Shown(c)
    BY <2>12, GoOnKeeps, RegistryKept DEF Shown, Words
  <2>13. CASE Answer(c)
    BY <2>13, AnswerKeeps
  <2> QED BY <2>1, <2>2, <2>3, <2>4, <2>5, <2>6, <2>7, <2>8, <2>9, <2>10, <2>11,
             <2>12, <2>13 DEF Step
<1> QED BY <1>1, <1>2

(* --- Theorems ----------------------------------------------------------- *)

\* The invariant holds in every reachable state.
THEOREM Invariant == Spec => []OInv
BY InitOInv, NextOInv, PTL DEF Spec

\* Every variable keeps its type.
THEOREM TypeCorrect == Spec => []TypeOK
<1>1. OInv => TypeOK
  BY DEF OInv
<1> QED BY <1>1, Invariant, PTL

\* For every number of threads and handles: an operation that is refused has made
\* no change at Telegram, the slug of an invite apart.
THEOREM RefusedUnsent == Spec => []RefusedIsUnsent
<1>1. OInv => RefusedIsUnsent
  BY DEF OInv, Progress, RefusedIsUnsent
<1> QED BY <1>1, Invariant, PTL

\* For every number of threads and handles: an operation that failed has made no
\* change, or made one whose answer was lost or whose message was not read back.
THEOREM FailedUnsent == Spec => []FailedIsUnsentOrUnanswered
<1>1. OInv => FailedIsUnsentOrUnanswered
  BY DEF OInv, TypeOK, Progress, FailedIsUnsentOrUnanswered
<1> QED BY <1>1, Invariant, PTL

\* For every number of threads and handles: a handle of an answer names its peer.
THEOREM HandlesName == Spec => []HandleNamesItsPeer
<1>1. OInv => HandleNamesItsPeer
  BY DEF OInv, Named
<1> QED BY <1>1, Invariant, PTL

(* --- Numbers and finite sets --------------------------------------------- *)

\* A set of numbers has a least one: what induction over numbers comes down to.
LEMMA LeastNumber ==
    ASSUME NEW numbers \in SUBSET Nat, numbers # {}
    PROVE  \E n \in numbers : \A m \in numbers : n <= m
<1> DEFINE Below(n) == 0..(n - 1)
           initial == {Below(n) : n \in numbers}
<1>1. initial \subseteq FiniteSubsetsOf(Nat)
  <2>1. \A n \in Nat : IsFiniteSet(0..(n - 1)) /\ 0..(n - 1) \subseteq Nat
    BY FS_Interval
  <2> QED BY <2>1 DEF FiniteSubsetsOf
<1>2. IsWellFoundedOn(StrictSubsetOrdering(Nat), FiniteSubsetsOf(Nat))
  BY FS_StrictSubsetOrderingWellFounded
<1>3. initial # {} OBVIOUS
<1>4. PICK b \in initial : \A c \in initial : <<c, b>> \notin StrictSubsetOrdering(Nat)
  <2> HIDE DEF initial
  <2> QED BY <1>1, <1>2, <1>3, WFMin
<1>5. PICK n \in numbers : b = Below(n) OBVIOUS
<1>6. ASSUME NEW m \in numbers, m < n PROVE FALSE
  <2>1. Below(m) \in initial OBVIOUS
  <2>2. m \in Below(n) /\ m \notin Below(m) BY <1>6
  <2>3. Below(m) \subseteq Below(n) BY <1>6
  <2>4. Below(m) \in SUBSET Nat /\ Below(n) \in SUBSET Nat OBVIOUS
  <2>5. <<Below(m), b>> \in StrictSubsetOrdering(Nat)
    BY <1>5, <2>2, <2>3, <2>4 DEF StrictSubsetOrdering
  <2> QED BY <1>4, <2>1, <2>5
<1> QED BY <1>6

\* Numbering the members of a set apart, within bounds, counts it.
LEMMA NumberedApart ==
    ASSUME NEW members, NEW low \in Nat, NEW size \in Nat, NEW f \in [members -> Nat],
           \A x \in members : low < f[x] /\ f[x] <= low + size,
           \A x, y \in members : f[x] = f[y] => x = y
    PROVE  IsFiniteSet(members) /\ Cardinality(members) \in 0..size
<1> DEFINE g == [x \in members |-> f[x] - low]
<1>1. g \in Injection(members, 1..size)
  <2>1. \A x \in members : f[x] \in Nat OBVIOUS
  <2>2. g \in [members -> 1..size] BY <2>1
  <2>3. \A x, y \in members : g[x] = g[y] => x = y BY <2>1
  <2> QED BY <2>2, <2>3 DEF Injection, IsInjective
<1>2. IsFiniteSet(1..size) /\ Cardinality(1..size) = size
  BY FS_Interval
<1>3. IsFiniteSet(members) /\ Cardinality(members) <= size
  <2> HIDE DEF g
  <2> QED BY <1>1, <1>2, FS_Injection
<1>4. Cardinality(members) \in Nat BY <1>3, FS_CardinalityType
<1> QED BY <1>3, <1>4

(* --- The list and its ranks ---------------------------------------------- *)

\* Rows are ordered: no two that are listed have the same stamp.
StampsAreDistinct ==
    \A i, j \in Items : i # j /\ stamp[i] = stamp[j] => stamp[i] = 0

Ordering == ListingTypeOK /\ StampsAreDistinct

LEMMA PresentStamps ==
    ASSUME Ordering
    PROVE  /\ MaxStamp \in Nat /\ Top \in Nat
           /\ Present \subseteq Items
           /\ \A i \in Items : stamp[i] \in Nat
           /\ \A i \in Present : stamp[i] \in 1..MaxStamp /\ stamp[i] < Top
           /\ \A i, j \in Present : stamp[i] = stamp[j] => i = j
           /\ IsFiniteSet(Present)
<1>1. MaxStamp \in Nat /\ newest \in 0..MaxStamp /\ stamp \in [Items -> 0..newest]
  BY ListingAssumption DEF Ordering, ListingTypeOK
<1>2. \A i \in Present : stamp[i] \in 1..MaxStamp
  BY <1>1 DEF Present
<1>3. \A i, j \in Present : stamp[i] = stamp[j] => i = j
  BY DEF Ordering, StampsAreDistinct, Present
<1> DEFINE f == [i \in Present |-> stamp[i]]
<1>4. /\ f \in [Present -> Nat]
      /\ \A x \in Present : 0 < f[x] /\ f[x] <= 0 + MaxStamp
  BY <1>1, <1>2
<1>5. \A x, y \in Present : f[x] = f[y] => x = y BY <1>3
<1>6. IsFiniteSet(Present)
  <2> HIDE DEF f
  <2> QED BY <1>1, <1>4, <1>5, NumberedApart
<1> QED BY <1>1, <1>2, <1>3, <1>6 DEF Present, Top

\* The rows from a bound down to a row, which the row's rank counts.
Ahead(i, below) == {j \in Present : stamp[i] <= stamp[j] /\ stamp[j] < below}

LEMMA Ranks ==
    ASSUME Ordering, NEW below \in Nat
    PROVE  /\ \A i \in Items : IsFiniteSet(Ahead(i, below)) /\ Rank(i, below) \in Nat
           /\ \A i \in Present : stamp[i] < below => Rank(i, below) >= 1
           /\ \A i, j \in Present :
                stamp[j] < below /\ stamp[j] < stamp[i] => Rank(i, below) < Rank(j, below)
           /\ \A i, j \in Present :
                stamp[i] < below /\ stamp[j] < below /\ Rank(i, below) = Rank(j, below) => i = j
<1> USE PresentStamps
<1>1. \A i \in Items : IsFiniteSet(Ahead(i, below)) /\ Rank(i, below) \in Nat
  <2> TAKE i \in Items
  <2>1. Ahead(i, below) \in SUBSET Present BY DEF Ahead
  <2>2. IsFiniteSet(Ahead(i, below)) BY <2>1, FS_Subset
  <2>3. Cardinality(Ahead(i, below)) \in Nat BY <2>2, FS_CardinalityType
  <2> QED BY <2>2, <2>3 DEF Rank, Ahead
<1>2. ASSUME NEW i \in Present, stamp[i] < below PROVE Rank(i, below) >= 1
  <2>1. i \in Ahead(i, below) BY <1>2 DEF Ahead
  <2>2. Cardinality(Ahead(i, below)) # 0 BY <1>1, <2>1, FS_EmptySet
  <2>3. Rank(i, below) = Cardinality(Ahead(i, below)) BY DEF Rank, Ahead
  <2> QED BY <1>1, <2>2, <2>3
<1>3. ASSUME NEW i \in Present, NEW j \in Present, stamp[j] < below, stamp[j] < stamp[i]
      PROVE  Rank(i, below) < Rank(j, below)
  <2>1. Ahead(i, below) \in SUBSET Ahead(j, below) BY <1>3 DEF Ahead
  <2>2. j \in Ahead(j, below) /\ j \notin Ahead(i, below) BY <1>3 DEF Ahead
  <2>3. /\ Rank(i, below) = Cardinality(Ahead(i, below))
        /\ Rank(j, below) = Cardinality(Ahead(j, below))
    BY DEF Rank, Ahead
  <2>4. /\ Cardinality(Ahead(i, below)) <= Cardinality(Ahead(j, below))
        /\ Cardinality(Ahead(i, below)) # Cardinality(Ahead(j, below))
    BY <1>1, <2>1, <2>2, FS_Subset
  <2> QED BY <1>1, <2>3, <2>4
<1>4. ASSUME NEW i \in Present, NEW j \in Present, stamp[i] < below, stamp[j] < below,
             Rank(i, below) = Rank(j, below)
      PROVE  i = j
  <2>1. ~(stamp[i] < stamp[j]) BY <1>1, <1>3, <1>4
  <2>2. ~(stamp[j] < stamp[i]) BY <1>1, <1>3, <1>4
  <2> QED BY <2>1, <2>2
<1> QED BY <1>1, <1>2, <1>3, <1>4

\* The rows of a page that skips some: as many as it may be asked for, without a
\* gap, and all there are when they are fewer.
PageRows(below, index) ==
    {i \in Present : /\ stamp[i] < below
                     /\ index < Rank(i, below) /\ Rank(i, below) <= index + Limit}

LEMMA PageIsWithoutGaps ==
    ASSUME Ordering, NEW below \in Nat, NEW index \in Nat
    PROVE  LET rows == PageRows(below, index) IN
             /\ IsFiniteSet(rows) /\ Cardinality(rows) \in 0..Limit
             /\ \A i \in rows : Rank(i, below) <= index + Cardinality(rows)
             /\ Cardinality(rows) < Limit =>
                  \A i \in Present : stamp[i] < below =>
                    Rank(i, below) <= index \/ i \in rows
<1> DEFINE rows == PageRows(below, index)
           before == {i \in Present : stamp[i] < below /\ Rank(i, below) <= index}
           rank == [i \in Present |-> Rank(i, below)]
<1> USE ListingAssumption, PresentStamps
<1>1. \A i \in Present : rank[i] = Rank(i, below) /\ rank[i] \in Nat
  BY Ranks
<1>2. IsFiniteSet(rows) /\ Cardinality(rows) \in 0..Limit
  <2> DEFINE f == [i \in rows |-> Rank(i, below)]
  <2>1. /\ f \in [rows -> Nat]
        /\ \A x \in rows : index < f[x] /\ f[x] <= index + Limit
    BY <1>1 DEF PageRows
  <2>2. \A x, y \in rows : f[x] = f[y] => x = y BY Ranks DEF PageRows
  <2> HIDE DEF f, rows
  <2> QED BY <2>1, <2>2, NumberedApart
<1>3. IsFiniteSet(before) /\ Cardinality(before) \in 0..index
  <2> DEFINE f == [i \in before |-> Rank(i, below)]
  <2>1. /\ f \in [before -> Nat]
        /\ \A x \in before : 0 < f[x] /\ f[x] <= 0 + index
    BY <1>1, Ranks
  <2>2. \A x, y \in before : f[x] = f[y] => x = y BY Ranks
  <2> HIDE DEF f, before
  <2> QED BY <2>1, <2>2, NumberedApart
<1>4. ASSUME NEW some, some \subseteq before \cup rows
      PROVE  IsFiniteSet(some) /\ Cardinality(some) \in Nat
             /\ Cardinality(some) <= index + Cardinality(rows)
  <2> HIDE DEF rows, before
  <2>1. /\ IsFiniteSet(before \cup rows)
        /\ Cardinality(before \cup rows)
             = Cardinality(before) + Cardinality(rows) - Cardinality(before \cap rows)
    BY <1>2, <1>3, FS_Union
  <2>2. IsFiniteSet(before \cap rows) BY <1>2, <1>3, FS_Intersection
  <2>3. Cardinality(before \cap rows) \in Nat BY <2>2, FS_CardinalityType
  <2>4. IsFiniteSet(some) /\ Cardinality(some) <= Cardinality(before \cup rows)
    BY <1>4, <2>1, FS_Subset
  <2>5. Cardinality(some) \in Nat BY <2>4, FS_CardinalityType
  <2> QED BY <1>2, <1>3, <2>1, <2>3, <2>4, <2>5
<1>5. ASSUME NEW i \in rows PROVE Rank(i, below) <= index + Cardinality(rows)
  <2>1. i \in Present /\ stamp[i] < below /\ Rank(i, below) <= index + Limit
    BY DEF PageRows
  <2>2. ASSUME NEW j \in Ahead(i, below) PROVE j \in before \cup rows
    <3>1. j \in Present /\ stamp[i] <= stamp[j] /\ stamp[j] < below BY DEF Ahead
    <3>2. Rank(j, below) <= Rank(i, below)
      <4>1. CASE stamp[i] < stamp[j] BY <1>1, <2>1, <3>1, <4>1, Ranks
      <4>2. CASE stamp[i] = stamp[j] BY <1>1, <2>1, <3>1, <4>2
      <4> QED BY <2>1, <3>1, <4>1, <4>2
    <3>3. Rank(j, below) <= index \/ index < Rank(j, below) BY <1>1, <3>1
    <3> QED BY <1>1, <2>1, <3>1, <3>2, <3>3 DEF PageRows
  <2>3. Rank(i, below) = Cardinality(Ahead(i, below)) BY DEF Rank, Ahead
  <2> QED BY <1>4, <2>2, <2>3
<1>6. ASSUME Cardinality(rows) < Limit, NEW i \in Present, stamp[i] < below,
             index < Rank(i, below), i \notin rows
      PROVE  FALSE
  <2> DEFINE Beyond(j) == stamp[j] < below /\ index + Limit < Rank(j, below)
             ranks == {Rank(j, below) : j \in {k \in Present : Beyond(k)}}
  <2>1. ranks \in SUBSET Nat BY <1>1
  <2>2. Rank(i, below) \in ranks BY <1>1, <1>6 DEF PageRows
  <2>3. PICK n \in ranks : \A m \in ranks : n <= m
    <3> HIDE DEF ranks
    <3> QED BY <2>1, <2>2, LeastNumber
  <2>4. PICK j \in Present : Beyond(j) /\ n = Rank(j, below) OBVIOUS
  <2>5. ASSUME NEW k \in Ahead(j, below) \ {j} PROVE k \in before \cup rows
    <3>1. k \in Present /\ k # j /\ stamp[j] <= stamp[k] /\ stamp[k] < below
      BY DEF Ahead
    <3>2. stamp[j] < stamp[k] BY <2>4, <3>1
    <3>3. Rank(k, below) < Rank(j, below) BY <2>4, <3>1, <3>2, Ranks
    <3>4. ~Beyond(k)
      <4>1. Beyond(k) => Rank(k, below) \in ranks BY <3>1
      <4>2. Rank(j, below) \in Nat /\ Rank(k, below) \in Nat BY <1>1, <2>4, <3>1
      <4> HIDE DEF Beyond, ranks
      <4>3. Beyond(k) => Rank(j, below) <= Rank(k, below) BY <2>3, <2>4, <4>1
      <4> QED BY <3>3, <4>2, <4>3
    <3>5. Rank(k, below) <= index + Limit BY <1>1, <3>1, <3>4
    <3> QED BY <1>1, <3>1, <3>5 DEF PageRows
  <2>6. Ahead(j, below) \ {j} \subseteq before \cup rows BY <2>5
  <2>7. Cardinality(Ahead(j, below) \ {j}) <= index + Cardinality(rows)
    BY <1>4, <2>6
  <2>8. j \in Ahead(j, below) BY <2>4 DEF Ahead
  <2>9. IsFiniteSet(Ahead(j, below)) /\ Cardinality(Ahead(j, below)) = Rank(j, below)
    BY Ranks DEF Rank, Ahead
  <2>10. Cardinality(Ahead(j, below) \ {j}) = Cardinality(Ahead(j, below)) - 1
    BY ONLY <2>8, <2>9, FS_RemoveElement
  <2> QED BY <1>1, <1>2, <1>6, <2>4, <2>7, <2>9, <2>10
<1> QED BY <1>1, <1>2, <1>5, <1>6

(* --- The inductive invariant --------------------------------------------- *)

\* The cursor's stamp has been given, and its row keeps it until it is touched.
CursorIsGiven ==
    /\ cursor.stamp <= newest \/ cursor.stamp = Top
    /\ cursor.item = NoItem <=> cursor.stamp = Top
    /\ cursor.item \in stayed => stamp[cursor.item] = cursor.stamp

\* What was listed is not ahead of the cursor any more, and what is not and has
\* stayed was listed.
ListedDownToCursor ==
    /\ \A i \in Items : listed[i] <= 1
    /\ cursor.stamp = Top => \A i \in Items : listed[i] = 0
    /\ \A i \in Items : listed[i] = 1 /\ stamp[i] # 0 => cursor.stamp <= stamp[i]
    /\ \A i \in stayed : cursor.stamp <= stamp[i] => listed[i] = 1

MessageInv ==
    kind = "message" =>
      /\ walk \in {"idle", "over"}
      /\ CursorIsGiven
      /\ ListedDownToCursor
      /\ walk = "over" => \A i \in stayed : listed[i] = 1

\* The same of dialogs, which may go down past the cursor.
DialogsListedDown ==
    /\ \A i \in Items \ lowered : listed[i] <= 1
    /\ cursor.stamp = Top => \A i \in Items : listed[i] = 0
    /\ \A i \in Items \ lowered : listed[i] # 0 => cursor.stamp <= stamp[i]
    /\ \A i \in stayed : cursor.stamp <= stamp[i] => listed[i] = 1

\* A walk that skips has its cursor ahead, unless that was touched; one that lists
\* is at its cursor, unless it went astray.
DialogInv ==
    kind = "dialog" =>
      /\ CursorIsGiven
      /\ cursor.item \in stayed => message[cursor.item] = cursor.message
      /\ stayed \cap lowered = {}
      /\ ~astray => DialogsListedDown
      /\ walk = "skipping" => (cursor.item \in stayed => cursor.stamp < position)
      /\ walk = "listing" /\ ~astray => position = cursor.stamp
      /\ walk = "over" /\ ~lostCursor /\ ~astray => \A i \in stayed : listed[i] = 1
      /\ lostCursor => walk = "over" /\ cursor.item \notin stayed

\* Peers that stayed and slipped past the index unlisted, and those that were listed
\* again or will be.
Missed == {i \in stayed : listed[i] = 0 /\ Rank(i, Top) <= offset}
Repeated == {i \in stayed : listed[i] > 1 \/ (listed[i] = 1 /\ offset < Rank(i, Top))}

IndexInv ==
    kind = "index" =>
      /\ walk \in {"idle", "over"}
      /\ Cardinality(Missed) <= removals
      /\ Cardinality(Repeated) <= arrivals
      /\ walk = "over" => \A i \in stayed : Rank(i, Top) <= offset

ListingInv == Ordering /\ MessageInv /\ DialogInv /\ IndexInv

LEMMA InitListingInv == ListingInit => ListingInv
<1> SUFFICES ASSUME ListingInit PROVE ListingInv
  OBVIOUS
<1> USE ListingAssumption
<1>1. Ordering
  <2>1. /\ kind \in {"message", "index", "dialog"} /\ newest \in 0..MaxStamp
        /\ stamp \in [Items -> 0..newest] /\ arrivals = 0 /\ removals = 0
        /\ message \in [Items -> Messages \cup {NoMessage}]
        /\ stayed \subseteq Present /\ lowered \subseteq Items
        /\ offset = 0 /\ walk = "idle" /\ page = 0
        /\ cursor = [item |-> NoItem, stamp |-> Top, message |-> NoMessage]
        /\ position = Top
        /\ listed = [i \in Items |-> 0] /\ lostCursor = FALSE /\ astray = FALSE
    BY DEF ListingInit
  <2>2. MaxStamp + 1 \in 1..(MaxStamp + 1) /\ 0 \in 0..Limit OBVIOUS
  <2>3. cursor \in [item : Items \cup {NoItem}, stamp : 1..Top,
                    message : Messages \cup {NoMessage}]
    BY <2>1, <2>2 DEF Top
  <2>4. ListingTypeOK BY <2>1, <2>2, <2>3 DEF ListingTypeOK, Top
  <2>5. StampsAreDistinct BY DEF ListingInit, StampsAreDistinct
  <2> QED BY <2>4, <2>5 DEF Ordering
<1>2. \A i \in Present : stamp[i] < Top /\ Rank(i, Top) \in Nat \ {0}
  <2>1. \A i \in Present : i \in Items /\ stamp[i] < Top BY <1>1, PresentStamps
  <2> QED BY <1>1, <2>1, Ranks DEF Top
<1>3. cursor.stamp = Top /\ cursor.item = NoItem /\ walk = "idle"
      /\ stayed \subseteq Present /\ offset = 0 /\ removals = 0 /\ arrivals = 0
      /\ lowered = {} /\ ~lostCursor /\ ~astray /\ \A i \in Items : listed[i] = 0
  BY DEF ListingInit
<1>4. CursorIsGiven /\ ListedDownToCursor /\ DialogsListedDown /\ NoItem \notin stayed
  <2>1. \A i \in stayed : i \in Items /\ ~(Top <= stamp[i])
    BY <1>1, <1>3, PresentStamps
  <2>2. NoItem \notin stayed BY <1>3 DEF Present
  <2> QED BY <1>3, <2>1, <2>2 DEF CursorIsGiven, ListedDownToCursor, DialogsListedDown
<1>5. Missed = {} /\ Repeated = {}
  BY <1>2, <1>3 DEF Missed, Repeated, Present
<1>6. Cardinality({}) = 0 BY FS_EmptySet
<1> QED
  BY <1>1, <1>3, <1>4, <1>5, <1>6 DEF ListingInv, MessageInv, DialogInv, IndexInv

\* What may name a row.
Cursors == [item : Items \cup {NoItem}, stamp : 1..Top,
            message : Messages \cup {NoMessage}]

LEMMA OrderingKept ==
    ASSUME Ordering, [ListingNext]_listingVars
    PROVE  Ordering'
<1> USE ListingAssumption DEF Ordering, ListingTypeOK, StampsAreDistinct
<1>1. Limit \in Nat \ {0} /\ Top \in Nat /\ 1 <= Top /\ Top = MaxStamp + 1
  BY DEF Top
<1>2. ASSUME NEW i \in Items, Arrive(i) PROVE Ordering'
  BY <1>1, <1>2 DEF Arrive, listing, Present, Top, Cursors
<1>3. ASSUME NEW i \in Items, Remove(i) PROVE Ordering'
  BY <1>1, <1>3 DEF Remove, listing, Present, Top
<1>4. ASSUME NEW rows, rows \subseteq Present, Fetch(rows),
             cursor' \in Cursors
      PROVE  Ordering'
  <2>1. Cardinality(rows) \in Nat
    <3>1. IsFiniteSet(Present) BY PresentStamps
    <3>2. IsFiniteSet(rows) BY <1>4, <3>1, FS_Subset
    <3> QED BY <3>2, FS_CardinalityType
  <2>2. offset' \in Nat /\ listed' \in [Items -> Nat]
        /\ walk' \in {"idle", "skipping", "listing", "over"}
    BY <1>4, <2>1 DEF Fetch
  <2> QED BY <1>1, <1>4, <2>2 DEF Fetch, list, Present, Top, Cursors
<1>5. cursor \in Cursors
      /\ \A i \in Present : Row(i) \in Cursors /\ stamp[i] \in 1..Top
  BY PresentStamps DEF Top, Row, Cursors, Present
<1>6. ASSUME FetchMessages PROVE Ordering'
  <2>1. RowsBelow(cursor.stamp) \subseteq Present BY DEF RowsBelow
  <2>2. cursor' \in Cursors
    BY <1>5, <1>6, <2>1 DEF FetchMessages
  <2> QED BY <1>4, <1>6, <2>1, <2>2 DEF FetchMessages
<1>7. ASSUME FetchBlocked PROVE Ordering'
  <2>1. RowsFrom(offset) \subseteq Present BY DEF RowsFrom
  <2> QED BY <1>4, <1>5, <1>7, <2>1 DEF FetchBlocked
<1>8. ASSUME NEW i \in Items, SkipDialog(i) PROVE Ordering'
  <2>1. i \in Present /\ position' = stamp[i] BY <1>8 DEF SkipDialog, IsNext
  <2>2. position' \in 1..Top BY <1>5, <2>1
  <2> QED BY <1>1, <1>8, <2>2 DEF SkipDialog, list, Present, Top
<1>9. ASSUME NEW i \in Items, ListDialog(i) PROVE Ordering'
  <2>1. i \in Present /\ position' = stamp[i] BY <1>9 DEF ListDialog, IsNext
  <2>2. position' \in 1..Top /\ cursor' \in Cursors
    BY <1>5, <1>9, <2>1 DEF ListDialog
  <2>3. page' \in 0..Limit /\ offset' \in Nat /\ listed' \in [Items -> Nat]
    BY <1>1, <1>9 DEF ListDialog
  <2> QED BY <1>1, <1>9, <2>2, <2>3 DEF ListDialog, list, Present, Top, Cursors
<1>10. ASSUME StartDialogs PROVE Ordering'
  BY <1>1, <1>10 DEF StartDialogs, list, Present, Top
<1>11. ASSUME PageIsFull \/ ListEnds PROVE Ordering'
  BY <1>1, <1>11 DEF PageIsFull, ListEnds, list, Present, Top
<1>12. ASSUME UNCHANGED listingVars PROVE Ordering'
  BY <1>1, <1>12 DEF listingVars, list, listing, Present, Top
<1>13. ASSUME NEW i \in Items, NEW place \in 1..MaxStamp,
              NEW last \in Messages \cup {NoMessage}, Move(i, place, last)
       PROVE  Ordering'
  <2>1. /\ newest' \in 0..MaxStamp /\ newest <= newest' /\ place \in 0..newest'
        /\ place # 0
    BY <1>1, <1>13 DEF Move
  <2>2. stamp' \in [Items -> 0..newest'] BY <1>1, <1>13, <2>1 DEF Move
  <2>3. /\ message' \in [Items -> Messages \cup {NoMessage}]
        /\ lowered' \subseteq Items /\ arrivals' \in Nat
    BY <1>13 DEF Move
  <2>4. \A j \in Items : stamp'[j] = IF j = i THEN place ELSE stamp[j]
    BY <1>13 DEF Move
  <2>5. stayed' \subseteq Present' BY <1>13, <2>4 DEF Move, Present
  <2>6. StampsAreDistinct'
    BY <1>13, <2>4 DEF Move
  <2> QED
    BY <1>1, <1>13, <2>1, <2>2, <2>3, <2>5, <2>6 DEF Move, listing, Top
<1> QED
  BY <1>2, <1>3, <1>6, <1>7, <1>8, <1>9, <1>10, <1>11, <1>12, <1>13 DEF ListingNext


\* A list that changes under a cursor stays listed down to it.
LEMMA ChangesKeepTheCursor ==
    ASSUME Ordering, Ordering', CursorIsGiven, ListedDownToCursor,
           NEW i \in Items, Arrive(i) \/ Remove(i)
    PROVE  CursorIsGiven' /\ ListedDownToCursor'
<1> USE PresentStamps
<1>1. /\ Top \in Nat /\ Top' = Top /\ newest \in Nat /\ newest < Top
      /\ cursor.stamp \in Nat /\ cursor' = cursor /\ listed' = listed
      /\ listed \in [Items -> Nat] /\ stamp \in [Items -> Nat]
      /\ stayed \subseteq Items /\ stayed' = stayed \ {i}
  BY ListingAssumption
     DEF Ordering, ListingTypeOK, Top, Present, Arrive, Remove, listing
<1>2. \A j \in Items : j # i => stamp'[j] = stamp[j]
  BY <1>1 DEF Arrive, Remove
<1>3. \/ newest' = newest + 1 /\ stamp'[i] = newest + 1
      \/ newest' = newest /\ stamp'[i] = 0
  BY <1>1 DEF Arrive, Remove
<1>4. CursorIsGiven'
  BY <1>1, <1>2, <1>3 DEF CursorIsGiven
<1>5. ASSUME NEW j \in Items, listed[j] = 1, stamp'[j] # 0
      PROVE  cursor.stamp <= stamp'[j]
  BY <1>1, <1>2, <1>3, <1>5 DEF CursorIsGiven, ListedDownToCursor
<1>6. \A j \in stayed' : j \in stayed /\ stamp'[j] = stamp[j]
  BY <1>1, <1>2
<1>7. ListedDownToCursor'
  BY <1>1, <1>5, <1>6 DEF ListedDownToCursor
<1> QED BY <1>4, <1>7

LEMMA MessageKept ==
    ASSUME Ordering, Ordering', MessageInv, [ListingNext]_listingVars
    PROVE  MessageInv'
<1> SUFFICES ASSUME kind = "message"
             PROVE  MessageInv'
  <2>1. kind' = kind
    BY DEF ListingNext, Arrive, Move, Remove, FetchMessages, FetchBlocked, Fetch,
           StartDialogs, SkipDialog, ListDialog, PageIsFull, ListEnds, listingVars, list
  <2> QED BY <2>1 DEF MessageInv
<1>1. walk \in {"idle", "over"} /\ CursorIsGiven /\ ListedDownToCursor
      /\ (walk = "over" => \A i \in stayed : listed[i] = 1)
  BY DEF MessageInv
<1>2. ASSUME NEW i \in Items, Arrive(i) \/ Remove(i) PROVE MessageInv'
  <2>1. walk' = walk /\ walk # "over"
    BY <1>2 DEF Arrive, Remove, listing
  <2> QED BY <1>1, <1>2, <2>1, ChangesKeepTheCursor DEF MessageInv
<1>3. ASSUME FetchMessages PROVE MessageInv'
  <2> DEFINE rows == RowsBelow(cursor.stamp)
  <2>1. /\ cursor.stamp \in Nat /\ Limit \in Nat \ {0} /\ Top' = Top /\ Top \in Nat
        /\ cursor.stamp <= Top /\ newest \in Nat /\ newest < Top
        /\ listed \in [Items -> Nat] /\ NoItem \notin Items
        /\ stayed \subseteq Present /\ Present \subseteq Items
        /\ \A i \in Present : stamp[i] \in Nat /\ stamp[i] # 0 /\ stamp[i] <= newest
    BY ListingAssumption DEF Ordering, ListingTypeOK, Top, Present
  <2>2. rows = PageRows(cursor.stamp, 0)
    BY <2>1, Ranks DEF RowsBelow, PageRows
  <2>3. /\ Fetch(rows)
        /\ \/ rows = {} /\ cursor' = cursor
           \/ \E i \in rows :
                /\ \A j \in rows : stamp[i] <= stamp[j]
                /\ cursor' = Row(i)
    BY <1>3 DEF FetchMessages
  <2>4. /\ \A i \in rows : i \in Present /\ i \in Items /\ stamp[i] < cursor.stamp
        /\ IsFiniteSet(rows) /\ Cardinality(rows) \in Nat
        /\ Cardinality(rows) < Limit =>
             \A i \in Present : stamp[i] < cursor.stamp =>
               Rank(i, cursor.stamp) <= 0 \/ i \in rows
    <3> DEFINE all == PageRows(cursor.stamp, 0)
    <3>1. IsFiniteSet(all) /\ Cardinality(all) \in 0..Limit
          /\ (Cardinality(all) < Limit =>
               \A i \in Present : stamp[i] < cursor.stamp =>
                 Rank(i, cursor.stamp) <= 0 \/ i \in all)
      BY <2>1, PageIsWithoutGaps
    <3>2. \A i \in all : i \in Present /\ stamp[i] < cursor.stamp BY DEF PageRows
    <3> HIDE DEF all
    <3> QED BY <2>1, <2>2, <3>1, <3>2 DEF all
  <2>5. ASSUME Cardinality(rows) < Limit, NEW i \in Present, stamp[i] < cursor.stamp
        PROVE  i \in rows
    <3>1. Rank(i, cursor.stamp) >= 1 /\ Rank(i, cursor.stamp) \in Nat
      BY <2>1, <2>5, Ranks
    <3> QED BY <2>4, <2>5, <3>1
  <2>6. /\ stamp' = stamp /\ stayed' = stayed /\ newest' = newest
        /\ \A i \in Items : listed'[i] = IF i \in rows THEN listed[i] + 1 ELSE listed[i]
        /\ walk' \in {"idle", "over"}
        /\ walk' = "over" => Cardinality(rows) < Limit
    BY <2>3 DEF Fetch, list
  <2>7. \A i \in rows : listed[i] = 0
    BY <1>1, <2>1, <2>4 DEF ListedDownToCursor
  <2> HIDE DEF rows
  <2>8. CursorIsGiven' /\ ListedDownToCursor' /\ cursor'.stamp <= cursor.stamp
    <3>1. CASE rows = {} /\ cursor' = cursor
      <4>1. \A i \in Items : listed'[i] = listed[i] BY <2>6, <3>1
      <4> QED BY <1>1, <2>1, <2>6, <3>1, <4>1 DEF CursorIsGiven, ListedDownToCursor
    <3>2. CASE \E i \in rows :
                 /\ \A j \in rows : stamp[i] <= stamp[j]
                 /\ cursor' = Row(i)
      <4>1. PICK i \in rows :
                 /\ \A j \in rows : stamp[i] <= stamp[j]
                 /\ cursor' = Row(i)
        BY <3>2
      <4>2. i \in Present /\ i \in Items /\ stamp[i] < cursor.stamp /\ stamp[i] <= newest
            /\ cursor'.stamp = stamp[i] /\ cursor'.item = i
        BY <2>1, <2>4, <4>1 DEF Row
      <4>3. CursorIsGiven' BY <2>1, <2>6, <4>2 DEF CursorIsGiven
      <4>4. ASSUME NEW j \in stayed, stamp[i] <= stamp[j] PROVE listed'[j] = 1
        <5>1. j \in Present /\ j \in Items BY <2>1
        <5>2. CASE cursor.stamp <= stamp[j]
          <6>1. j \notin rows BY <2>1, <2>4, <5>1, <5>2
          <6> QED BY <1>1, <2>6, <5>1, <5>2, <6>1 DEF ListedDownToCursor
        <5>3. CASE stamp[j] < cursor.stamp
          <6>1. Rank(j, cursor.stamp) <= Rank(i, cursor.stamp)
            <7>1. CASE stamp[i] < stamp[j]
              <8>1. Rank(j, cursor.stamp) < Rank(i, cursor.stamp)
                BY <2>1, <4>2, <5>1, <5>3, <7>1, Ranks
              <8> QED BY <2>1, <4>2, <5>1, <8>1, Ranks
            <7>2. CASE stamp[i] = stamp[j]
              <8>1. i = j BY <4>2, <5>1, <7>2, PresentStamps
              <8> QED BY <2>1, <4>2, <5>1, <8>1, Ranks
            <7> QED BY <2>1, <4>2, <4>4, <5>1, <7>1, <7>2
          <6>2. Rank(i, cursor.stamp) <= Limit BY <4>1 DEF RowsBelow, rows
          <6>3. Rank(j, cursor.stamp) \in Nat /\ Rank(i, cursor.stamp) \in Nat
            BY <2>1, <4>2, <5>1, Ranks
          <6>4. Rank(j, cursor.stamp) <= Limit BY <2>1, <6>1, <6>2, <6>3
          <6>5. j \in rows BY <5>1, <5>3, <6>4 DEF RowsBelow, rows
          <6> QED BY <2>6, <2>7, <5>1, <6>5
        <5> QED BY <2>1, <5>1, <5>2, <5>3
      <4>5. ASSUME NEW j \in Items, listed'[j] = 1, stamp[j] # 0
            PROVE  stamp[i] <= stamp[j]
        <5>1. CASE j \in rows BY <4>1, <5>1
        <5>2. CASE j \notin rows
          <6>1. listed[j] = 1 BY <2>6, <4>5, <5>2
          <6>2. j \in Present BY <4>5 DEF Present
          <6> QED BY <1>1, <2>1, <4>2, <4>5, <6>1, <6>2 DEF ListedDownToCursor
        <5> QED BY <5>1, <5>2
      <4>6. \A j \in Items : listed'[j] <= 1
        BY <1>1, <2>1, <2>6, <2>7 DEF ListedDownToCursor
      <4>7. cursor'.stamp # Top BY <2>1, <4>2
      <4>8. ListedDownToCursor'
        BY <2>1, <2>6, <4>2, <4>4, <4>5, <4>6, <4>7 DEF ListedDownToCursor
      <4> QED BY <2>1, <4>2, <4>3, <4>8
    <3> QED BY <2>3, <3>1, <3>2
  <2>9. ASSUME walk' = "over", NEW j \in stayed PROVE listed'[j] = 1
    <3>1. j \in Present /\ j \in Items BY <2>1
    <3>2. CASE cursor.stamp <= stamp[j]
      <4>1. j \notin rows BY <2>1, <2>4, <3>1, <3>2
      <4> QED BY <1>1, <2>6, <3>1, <3>2, <4>1 DEF ListedDownToCursor
    <3>3. CASE stamp[j] < cursor.stamp
      <4>1. j \in rows BY <2>5, <2>6, <2>9, <3>1, <3>3
      <4> QED BY <2>6, <2>7, <3>1, <4>1
    <3> QED BY <2>1, <3>1, <3>2, <3>3
  <2> QED BY <2>6, <2>8, <2>9 DEF MessageInv
<1>4. ASSUME UNCHANGED listingVars PROVE MessageInv'
  BY <1>1, <1>4
     DEF listingVars, list, listing, MessageInv, CursorIsGiven, ListedDownToCursor, Top
<1>5. ~(FetchBlocked \/ StartDialogs \/ PageIsFull \/ ListEnds
        \/ (\E i \in Items : SkipDialog(i) \/ ListDialog(i))
        \/ \E i \in Items, place \in 1..MaxStamp, last \in Messages \cup {NoMessage} :
              Move(i, place, last))
  BY <1>1
     DEF FetchBlocked, StartDialogs, PageIsFull, ListEnds, SkipDialog, ListDialog, Move
<1> QED BY <1>2, <1>3, <1>4, <1>5 DEF ListingNext

\* When nothing is ahead of a walk's position, everything listed is behind it.
LEMMA NothingIsAhead ==
    ASSUME Ordering, \A i \in Items : ~IsNext(i)
    PROVE  \A i \in Present : position <= stamp[i]
<1> SUFFICES ASSUME NEW i \in Present, ~(position <= stamp[i])
             PROVE  FALSE
  OBVIOUS
<1> DEFINE gaps == {position - stamp[j] : j \in {k \in Present : stamp[k] < position}}
<1>1. position \in Nat /\ \A k \in Present : k \in Items /\ stamp[k] \in Nat
  BY PresentStamps DEF Ordering, ListingTypeOK
<1>2. gaps \in SUBSET Nat /\ gaps # {}
  <2>1. gaps \subseteq Nat BY <1>1
  <2>2. position - stamp[i] \in gaps BY <1>1
  <2> QED BY <2>1, <2>2
<1>3. PICK n \in gaps : \A m \in gaps : n <= m
  <2> HIDE DEF gaps
  <2> QED BY <1>2, LeastNumber
<1>4. PICK j \in Present : stamp[j] < position /\ n = position - stamp[j]
  OBVIOUS
<1>5. ASSUME NEW k \in Present, stamp[k] < position PROVE stamp[k] <= stamp[j]
  <2>1. position - stamp[k] \in gaps BY <1>5
  <2>2. position - stamp[j] <= position - stamp[k] BY <1>3, <1>4, <2>1
  <2> QED BY <1>1, <1>4, <2>2
<1>6. IsNext(j) BY <1>4, <1>5 DEF IsNext
<1> QED BY <1>1, <1>6

\* So does a list of dialogs, as far as they did not go down.
LEMMA MovesKeepTheCursor ==
    ASSUME Ordering, Ordering', CursorIsGiven, NEW i \in Items,
           \/ Remove(i)
           \/ \E place \in 1..MaxStamp, last \in Messages \cup {NoMessage} :
                 Move(i, place, last)
    PROVE  CursorIsGiven' /\ (DialogsListedDown => DialogsListedDown')
<1>1. /\ Top \in Nat /\ Top' = Top /\ newest \in Nat /\ newest < Top /\ newest' \in Nat
      /\ cursor.stamp \in Nat /\ cursor.stamp # 0 /\ cursor' = cursor
      /\ listed' = listed /\ listed \in [Items -> Nat] /\ stamp \in [Items -> Nat]
      /\ stamp' \in [Items -> Nat] /\ newest <= newest'
      /\ stayed \subseteq Items /\ stayed' = stayed \ {i} /\ lowered \subseteq lowered'
      /\ stamp[i] <= stamp'[i] \/ i \in lowered'
  BY ListingAssumption
     DEF Ordering, ListingTypeOK, Top, Present, Move, Remove, listing
<1>2. \A j \in Items : j # i => stamp'[j] = stamp[j]
  BY <1>1 DEF Move, Remove
<1>3. \A j \in stayed' : j \in stayed /\ stamp'[j] = stamp[j]
  BY <1>1, <1>2
<1>4. CursorIsGiven'
  BY <1>1, <1>3 DEF CursorIsGiven
<1>5. ASSUME DialogsListedDown, NEW j \in Items \ lowered', listed[j] # 0
      PROVE  cursor.stamp <= stamp'[j]
  <2>1. cursor.stamp <= stamp[j] BY <1>1, <1>5 DEF DialogsListedDown
  <2>2. stamp[j] <= stamp'[j] BY <1>1, <1>2, <1>5
  <2> QED BY <1>1, <2>1, <2>2
<1>6. ASSUME DialogsListedDown PROVE DialogsListedDown'
  <2>1. \A j \in Items \ lowered' : listed'[j] <= 1
    BY <1>1, <1>6 DEF DialogsListedDown
  <2>2. cursor'.stamp = Top' => \A j \in Items : listed'[j] = 0
    BY <1>1, <1>6 DEF DialogsListedDown
  <2>3. \A j \in stayed' : cursor'.stamp <= stamp'[j] => listed'[j] = 1
    BY <1>1, <1>3, <1>6 DEF DialogsListedDown
  <2> QED BY <1>1, <1>5, <1>6, <2>1, <2>2, <2>3 DEF DialogsListedDown
<1> QED BY <1>4, <1>6

\* What a step leaves of the invariant that reads only the list and the cursor.
LEMMA CursorKept ==
    ASSUME UNCHANGED <<stamp, newest, cursor, listed, stayed, lowered>>
    PROVE  /\ CursorIsGiven => CursorIsGiven'
           /\ DialogsListedDown => DialogsListedDown'
BY DEF CursorIsGiven, DialogsListedDown, Top

LEMMA DialogKept ==
    ASSUME Ordering, Ordering', DialogInv, [ListingNext]_listingVars
    PROVE  DialogInv'
<1> SUFFICES ASSUME kind = "dialog"
             PROVE  DialogInv'
  <2>1. kind' = kind
    BY DEF ListingNext, Arrive, Move, Remove, FetchMessages, FetchBlocked, Fetch,
           StartDialogs, SkipDialog, ListDialog, PageIsFull, ListEnds, listingVars, list
  <2> QED BY <2>1 DEF DialogInv
<1>1. /\ CursorIsGiven
      /\ cursor.item \in stayed => message[cursor.item] = cursor.message
      /\ stayed \cap lowered = {}
      /\ ~astray => DialogsListedDown
      /\ walk = "skipping" => (cursor.item \in stayed => cursor.stamp < position)
      /\ walk = "listing" /\ ~astray => position = cursor.stamp
      /\ walk = "over" /\ ~lostCursor /\ ~astray => \A i \in stayed : listed[i] = 1
      /\ lostCursor => walk = "over" /\ cursor.item \notin stayed
  BY DEF DialogInv
<1>2. /\ Top' = Top /\ Top \in Nat /\ newest \in Nat /\ newest < Top
      /\ cursor.stamp \in Nat /\ cursor.stamp <= Top /\ NoItem \notin Items
      /\ position \in Nat /\ listed \in [Items -> Nat]
      /\ stayed \subseteq Present /\ Present \subseteq Items
      /\ \A i \in Present : stamp[i] \in Nat /\ stamp[i] # 0 /\ stamp[i] <= newest
      /\ astray \in BOOLEAN /\ lostCursor \in BOOLEAN
  BY ListingAssumption DEF Ordering, ListingTypeOK, Top, Present
<1>3. ASSUME NEW i \in Items,
             \/ Remove(i)
             \/ \E place \in 1..MaxStamp, last \in Messages \cup {NoMessage} :
                   Move(i, place, last)
      PROVE  DialogInv'
  <2>1. walk' = walk /\ walk # "over" /\ cursor' = cursor /\ position' = position
        /\ lostCursor' = lostCursor /\ astray' = astray /\ stayed' = stayed \ {i}
        /\ lowered' \subseteq lowered \cup {i}
    BY <1>3 DEF Move, Remove, listing
  <2>2. CursorIsGiven' /\ (DialogsListedDown => DialogsListedDown')
    BY <1>1, <1>3, MovesKeepTheCursor
  <2>3. \A j \in Items : j # i => message'[j] = message[j]
    BY <1>3 DEF Move, Remove, Ordering, ListingTypeOK
  <2>4. cursor.item \in stayed' => message'[cursor.item] = cursor.message
    BY <1>1, <1>2, <2>1, <2>3
  <2> QED BY <1>1, <2>1, <2>2, <2>4 DEF DialogInv
<1>4. ASSUME StartDialogs PROVE DialogInv'
  <2>1. /\ walk = "idle" /\ position' = Top
        /\ UNCHANGED <<stamp, newest, message, cursor, listed, stayed, lowered, lostCursor>>
        /\ walk' = IF cursor.message = NoMessage THEN "listing" ELSE "skipping"
        /\ astray' = (astray \/ (cursor.item # NoItem /\ cursor.message = NoMessage))
    BY <1>4 DEF StartDialogs, list
  <2>2. CursorIsGiven' /\ (DialogsListedDown => DialogsListedDown')
    BY <1>1, <2>1, CursorKept
  <2>3. cursor.item \in stayed => cursor.stamp < Top
    BY <1>1, <1>2 DEF CursorIsGiven
  <2>4. walk' = "listing" /\ ~astray' => cursor.stamp = Top
    BY <1>1, <2>1 DEF CursorIsGiven
  <2>5. ~astray' => ~astray BY <2>1
  <2>6. walk' # "over" /\ ~lostCursor BY <1>1, <2>1
  <2> QED BY <1>1, <2>1, <2>2, <2>3, <2>4, <2>5, <2>6 DEF DialogInv
<1>5. ASSUME NEW i \in Items, SkipDialog(i) PROVE DialogInv'
  <2>1. /\ walk = "skipping" /\ i \in Present /\ stamp[i] < position
        /\ \A j \in Present : stamp[j] < position => stamp[j] <= stamp[i]
        /\ position' = stamp[i]
        /\ UNCHANGED <<stamp, newest, message, cursor, listed, stayed, lowered, lostCursor>>
        /\ walk' = IF i = cursor.item /\ message[i] = cursor.message
                   THEN "listing" ELSE "skipping"
        /\ astray' = (astray \/ Strayed(i))
    BY <1>5 DEF SkipDialog, IsNext, list
  <2>2. CursorIsGiven' /\ (DialogsListedDown => DialogsListedDown')
    BY <1>1, <2>1, CursorKept
  <2>3. ASSUME walk' = "skipping", cursor.item \in stayed
        PROVE  cursor.stamp < stamp[i]
    <3>1. cursor.item \in Present /\ stamp[cursor.item] = cursor.stamp
      BY <1>1, <1>2, <2>3 DEF CursorIsGiven
    <3>2. cursor.stamp <= stamp[i] BY <1>1, <2>1, <2>3, <3>1
    <3>3. i # cursor.item BY <1>1, <2>1, <2>3
    <3>4. cursor.stamp # stamp[i]
      BY <2>1, <3>1, <3>3, PresentStamps
    <3> QED BY <1>2, <2>1, <3>2, <3>4
  <2>4. ASSUME walk' = "listing", ~astray' PROVE stamp[i] = cursor.stamp
    BY <2>1, <2>4 DEF Strayed
  <2>5. ~astray' => ~astray BY <2>1
  <2>6. walk' # "over" /\ ~lostCursor BY <1>1, <2>1
  <2> QED BY <1>1, <2>1, <2>2, <2>3, <2>4, <2>5, <2>6 DEF DialogInv
<1>6. ASSUME NEW i \in Items, ListDialog(i) PROVE DialogInv'
  <2>1. /\ walk = "listing" /\ i \in Present /\ stamp[i] < position
        /\ \A j \in Present : stamp[j] < position => stamp[j] <= stamp[i]
        /\ position' = stamp[i] /\ cursor' = Row(i)
        /\ listed' = [listed EXCEPT ![i] = @ + 1]
        /\ UNCHANGED <<stamp, newest, message, stayed, lowered, lostCursor, astray>>
        /\ walk' = "listing"
    BY <1>6 DEF ListDialog, IsNext, list
  <2>2. ~lostCursor /\ i \in Items BY <1>1, <1>2, <2>1
  <2>3. cursor'.item = i /\ cursor'.stamp = stamp[i] /\ cursor'.message = message[i]
    BY <2>1 DEF Row
  <2>4. CursorIsGiven' BY <1>2, <2>1, <2>2, <2>3 DEF CursorIsGiven
  <2>5. ASSUME ~astray PROVE DialogsListedDown'
    <3>1. position = cursor.stamp /\ DialogsListedDown BY <1>1, <2>1, <2>5
    <3>2. i \notin lowered => listed[i] = 0
      BY <1>2, <2>1, <2>2, <3>1 DEF DialogsListedDown
    <3>3. listed'[i] = listed[i] + 1 /\ \A j \in Items : j # i => listed'[j] = listed[j]
      BY <1>2, <2>1, <2>2
    <3>4. ASSUME NEW j \in stayed, stamp[i] <= stamp[j] PROVE listed'[j] = 1
      <4>1. j \in Present /\ j \in Items /\ j \notin lowered BY <1>1, <1>2
      <4>2. CASE cursor.stamp <= stamp[j]
        <5>1. j # i BY <1>2, <2>1, <3>1, <4>1, <4>2
        <5> QED BY <3>1, <3>3, <4>1, <4>2, <5>1 DEF DialogsListedDown
      <4>3. CASE stamp[j] < cursor.stamp
        <5>1. stamp[j] <= stamp[i] BY <2>1, <3>1, <4>1, <4>3
        <5>2. stamp[j] = stamp[i] BY <1>2, <2>1, <3>4, <4>1, <5>1
        <5>3. j = i BY <2>1, <4>1, <5>2, PresentStamps
        <5> QED BY <3>2, <3>3, <4>1, <5>3
      <4> QED BY <1>2, <4>1, <4>2, <4>3
    <3>5. ASSUME NEW j \in Items \ lowered, listed'[j] # 0 PROVE stamp[i] <= stamp[j]
      <4>1. CASE j = i BY <1>2, <2>1, <4>1
      <4>2. CASE j # i
        <5>1. cursor.stamp <= stamp[j]
          BY <3>1, <3>3, <3>5, <4>2 DEF DialogsListedDown
        <5>2. stamp[j] \in Nat BY DEF Ordering, ListingTypeOK
        <5> QED BY <1>2, <2>1, <3>1, <5>1, <5>2
      <4> QED BY <4>1, <4>2
    <3>6. \A j \in Items \ lowered : listed'[j] <= 1
      BY <1>2, <3>1, <3>2, <3>3 DEF DialogsListedDown
    <3>7. cursor'.stamp # Top' BY <1>2, <2>1, <2>3
    <3> QED BY <2>1, <2>3, <3>4, <3>5, <3>6, <3>7 DEF DialogsListedDown
  <2>6. cursor'.item \in stayed' => message'[cursor'.item] = cursor'.message
    BY <2>1, <2>3
  <2> QED BY <1>1, <2>1, <2>2, <2>3, <2>4, <2>5, <2>6 DEF DialogInv
<1>7. ASSUME PageIsFull PROVE DialogInv'
  <2>1. /\ walk = "listing" /\ walk' = "idle"
        /\ UNCHANGED <<stamp, newest, message, cursor, listed, stayed, lowered, lostCursor,
                       astray>>
    BY <1>7 DEF PageIsFull, list
  <2>2. CursorIsGiven' /\ (DialogsListedDown => DialogsListedDown')
    BY <1>1, <2>1, CursorKept
  <2> QED BY <1>1, <2>1, <2>2 DEF DialogInv
<1>8. ASSUME ListEnds PROVE DialogInv'
  <2>1. /\ walk \in {"skipping", "listing"} /\ \A i \in Items : ~IsNext(i)
        /\ walk' = "over" /\ lostCursor' = (walk = "skipping")
        /\ UNCHANGED <<stamp, newest, message, cursor, listed, stayed, lowered, astray>>
    BY <1>8 DEF ListEnds, list
  <2>2. CursorIsGiven' /\ (DialogsListedDown => DialogsListedDown')
    BY <1>1, <2>1, CursorKept
  <2>3. \A i \in Present : position <= stamp[i]
    BY <2>1, NothingIsAhead
  <2>4. ASSUME ~lostCursor', ~astray, NEW i \in stayed PROVE listed[i] = 1
    <3>1. walk = "listing" BY <2>1, <2>4
    <3>2. cursor.stamp <= stamp[i] BY <1>1, <1>2, <2>3, <2>4, <3>1
    <3> QED BY <1>1, <2>4, <3>2 DEF DialogsListedDown
  <2>5. ASSUME lostCursor', cursor.item \in stayed PROVE FALSE
    <3>1. walk = "skipping" BY <2>1, <2>5
    <3>2. cursor.stamp < position BY <1>1, <2>5, <3>1
    <3>3. cursor.item \in Present /\ stamp[cursor.item] = cursor.stamp
      BY <1>1, <1>2, <2>5 DEF CursorIsGiven
    <3> QED BY <1>2, <2>3, <3>2, <3>3
  <2> QED BY <1>1, <2>1, <2>2, <2>4, <2>5 DEF DialogInv
<1>9. ASSUME UNCHANGED listingVars PROVE DialogInv'
  <2>1. UNCHANGED <<kind, stamp, newest, message, cursor, listed, stayed, lowered,
                    lostCursor, astray, walk, position>>
    BY <1>9 DEF listingVars, list, listing
  <2>2. CursorIsGiven' /\ (DialogsListedDown => DialogsListedDown')
    BY <1>1, <2>1, CursorKept
  <2> QED BY <1>1, <2>1, <2>2 DEF DialogInv
<1>10. ~(FetchMessages \/ FetchBlocked \/ \E i \in Items : Arrive(i))
  BY DEF FetchMessages, FetchBlocked, Arrive
<1> QED BY <1>3, <1>4, <1>5, <1>6, <1>7, <1>8, <1>9, <1>10 DEF ListingNext

\* What changed since the first page moves each rank by one, and so at most one row
\* past the index.
LEMMA RemovalShiftsRanks ==
    ASSUME Ordering, Ordering', NEW x \in Items, Remove(x)
    PROVE  \A i \in stayed' :
             Rank(i, Top)' \in Nat /\ Rank(i, Top) - 1 <= Rank(i, Top)'
                                   /\ Rank(i, Top)' <= Rank(i, Top)
<1> TAKE i \in stayed'
<1>1. /\ Top' = Top /\ Top \in Nat /\ stamp \in [Items -> Nat] /\ i \in Items
      /\ i # x /\ x \in Present /\ stamp' = [stamp EXCEPT ![x] = 0]
  BY ListingAssumption DEF Ordering, ListingTypeOK, Top, Present, Remove
<1>2. Present' = Present \ {x} /\ \A j \in Present' : stamp'[j] = stamp[j]
  BY <1>1 DEF Present
<1>3. stamp'[i] = stamp[i] BY <1>1
<1>4. Rank(i, Top)' = Cardinality(Ahead(i, Top) \ {x})
  <2>1. Ahead(i, Top) \ {x}
          = {j \in Present' : stamp'[i] <= stamp'[j] /\ stamp'[j] < Top'}
    BY <1>1, <1>2, <1>3 DEF Ahead
  <2> QED BY <2>1 DEF Rank
<1>5. IsFiniteSet(Ahead(i, Top)) /\ Rank(i, Top) \in Nat
      /\ Rank(i, Top) = Cardinality(Ahead(i, Top))
  BY <1>1, Ranks DEF Rank, Ahead
<1>6. /\ IsFiniteSet(Ahead(i, Top) \ {x})
      /\ \/ Cardinality(Ahead(i, Top) \ {x}) = Cardinality(Ahead(i, Top)) - 1
         \/ Cardinality(Ahead(i, Top) \ {x}) = Cardinality(Ahead(i, Top))
  BY ONLY <1>5, FS_RemoveElement
<1>7. Cardinality(Ahead(i, Top) \ {x}) \in Nat BY <1>6, FS_CardinalityType
<1> QED BY <1>4, <1>5, <1>6, <1>7

LEMMA ArrivalShiftsRanks ==
    ASSUME Ordering, Ordering', NEW x \in Items, Arrive(x)
    PROVE  \A i \in stayed' : Rank(i, Top)' = Rank(i, Top) + 1
<1> TAKE i \in stayed'
<1>1. /\ Top' = Top /\ Top \in Nat /\ stamp \in [Items -> Nat]
      /\ newest \in Nat /\ newest + 1 < Top /\ i \in stayed /\ i \in Items
      /\ i # x /\ stamp[x] = 0 /\ stamp' = [stamp EXCEPT ![x] = newest + 1]
      /\ stamp[i] <= newest
  BY ListingAssumption DEF Ordering, ListingTypeOK, Top, Present, Arrive
<1>2. Present' = Present \cup {x} /\ x \notin Present
      /\ \A j \in Present : stamp'[j] = stamp[j]
  BY <1>1 DEF Present
<1>3. stamp'[i] = stamp[i] /\ stamp'[x] = newest + 1 BY <1>1
<1>4. Rank(i, Top)' = Cardinality(Ahead(i, Top) \cup {x})
  <2>1. Ahead(i, Top) \cup {x}
          = {j \in Present' : stamp'[i] <= stamp'[j] /\ stamp'[j] < Top'}
    BY <1>1, <1>2, <1>3 DEF Ahead
  <2> QED BY <2>1 DEF Rank
<1>5. IsFiniteSet(Ahead(i, Top)) /\ Rank(i, Top) \in Nat
      /\ Rank(i, Top) = Cardinality(Ahead(i, Top))
  BY <1>1, Ranks DEF Rank, Ahead
<1>6. x \notin Ahead(i, Top) BY <1>2 DEF Ahead
<1>7. Cardinality(Ahead(i, Top) \cup {x}) = Cardinality(Ahead(i, Top)) + 1
  BY ONLY <1>5, <1>6, FS_AddElement
<1> QED BY <1>4, <1>5, <1>7

\* A set that gains one member at most is one larger at most.
LEMMA OneMore ==
    ASSUME NEW old, IsFiniteSet(old), NEW new, new \subseteq old
           \/ \E x : new \subseteq old \cup {x}
    PROVE  /\ IsFiniteSet(new)
           /\ Cardinality(old) \in Nat /\ Cardinality(new) \in Nat
           /\ Cardinality(new) <= Cardinality(old) + 1
           /\ new \subseteq old => Cardinality(new) <= Cardinality(old)
<1>1. PICK x : new \subseteq old \cup {x} OBVIOUS
<1>2. IsFiniteSet(old \cup {x})
      /\ (Cardinality(old \cup {x}) = Cardinality(old)
            \/ Cardinality(old \cup {x}) = Cardinality(old) + 1)
  BY FS_AddElement
<1>3. IsFiniteSet(new) /\ Cardinality(new) <= Cardinality(old \cup {x})
  BY <1>1, <1>2, FS_Subset
<1>4. Cardinality(old) \in Nat /\ Cardinality(new) \in Nat
  BY <1>3, FS_CardinalityType
<1>5. new \subseteq old => Cardinality(new) <= Cardinality(old)
  BY FS_Subset
<1> QED BY <1>2, <1>3, <1>4, <1>5

LEMMA IndexKept ==
    ASSUME Ordering, Ordering', IndexInv, [ListingNext]_listingVars
    PROVE  IndexInv'
<1> SUFFICES ASSUME kind = "index"
             PROVE  IndexInv'
  <2>1. kind' = kind
    BY DEF ListingNext, Arrive, Move, Remove, FetchMessages, FetchBlocked, Fetch,
           StartDialogs, SkipDialog, ListDialog, PageIsFull, ListEnds, listingVars, list
  <2> QED BY <2>1 DEF IndexInv
<1>1. /\ walk \in {"idle", "over"}
      /\ Cardinality(Missed) <= removals /\ Cardinality(Repeated) <= arrivals
      /\ walk = "over" => \A i \in stayed : Rank(i, Top) <= offset
  BY DEF IndexInv
<1>2. /\ Top' = Top /\ Top \in Nat /\ offset \in Nat /\ Limit \in Nat \ {0}
      /\ arrivals \in Nat /\ removals \in Nat /\ listed \in [Items -> Nat]
      /\ stayed \subseteq Present /\ Present \subseteq Items
      /\ \A i \in Present : stamp[i] < Top /\ Rank(i, Top) \in Nat
      /\ \A i, j \in Present : Rank(i, Top) = Rank(j, Top) => i = j
  <2>1. Top \in Nat /\ \A i \in Present : i \in Items /\ stamp[i] < Top
    BY PresentStamps
  <2> QED BY <2>1, ListingAssumption, Ranks DEF Ordering, ListingTypeOK, Top, Present
<1>3. IsFiniteSet(Missed) /\ IsFiniteSet(Repeated)
  <2>1. IsFiniteSet(Present) BY PresentStamps
  <2>2. Missed \in SUBSET Present /\ Repeated \in SUBSET Present
    BY <1>2 DEF Missed, Repeated
  <2> QED BY <2>1, <2>2, FS_Subset
<1>4. Cardinality(Missed) \in Nat /\ Cardinality(Repeated) \in Nat
  BY <1>3, FS_CardinalityType
\* At most one row is of a rank.
<1>5. \A n \in Nat : \E x : \A i \in Present : Rank(i, Top) = n => i = x
  BY <1>2
<1>6. ASSUME NEW i \in Items, Remove(i) PROVE IndexInv'
  <2>1. /\ kind' = kind /\ walk' = walk /\ walk # "over" /\ offset' = offset
        /\ listed' = listed /\ arrivals' = arrivals /\ removals' = removals + 1
        /\ stayed' \subseteq stayed
    BY <1>6 DEF Remove, listing
  <2>2. \A j \in stayed' : /\ j \in stayed /\ j \in Present
                           /\ Rank(j, Top) \in Nat /\ Rank(j, Top)' \in Nat
                           /\ Rank(j, Top) - 1 <= Rank(j, Top)'
                           /\ Rank(j, Top)' <= Rank(j, Top)
    BY <1>2, <1>6, <2>1, RemovalShiftsRanks
  <2>3. PICK x : \A j \in Present : Rank(j, Top) = offset + 1 => j = x
    BY <1>2, <1>5
  <2>4. Missed' \subseteq Missed \cup {x}
    <3> SUFFICES ASSUME NEW j \in Missed', j \notin Missed PROVE j = x
      OBVIOUS
    <3>1. j \in stayed' /\ listed[j] = 0 /\ Rank(j, Top)' <= offset
      BY <2>1 DEF Missed
    <3>2. ~(Rank(j, Top) <= offset) BY <2>2, <3>1 DEF Missed
    <3>3. Rank(j, Top) = offset + 1 BY <1>2, <2>2, <3>1, <3>2
    <3> QED BY <2>2, <2>3, <3>1, <3>3
  <2>5. Repeated' \subseteq Repeated
    <3> SUFFICES ASSUME NEW j \in Repeated' PROVE j \in Repeated
      OBVIOUS
    <3>1. j \in stayed' /\ (listed[j] > 1 \/ (listed[j] = 1 /\ offset < Rank(j, Top)'))
      BY <2>1 DEF Repeated
    <3>2. offset < Rank(j, Top)' => offset < Rank(j, Top) BY <1>2, <2>2, <3>1
    <3> QED BY <2>2, <3>1, <3>2 DEF Repeated
  <2>6. Cardinality(Missed') <= removals' /\ Cardinality(Repeated') <= arrivals'
    <3>1. Cardinality(Missed') \in Nat /\ Cardinality(Missed') <= Cardinality(Missed) + 1
      BY <1>3, <2>4, OneMore
    <3>2. Cardinality(Repeated') \in Nat /\ Cardinality(Repeated') <= Cardinality(Repeated)
      BY <1>3, <2>5, OneMore
    <3> QED BY <1>1, <1>2, <1>4, <2>1, <3>1, <3>2
  <2>7. walk' \in {"idle", "over"} /\ walk' # "over" BY <1>1, <2>1
  <2> QED BY <2>6, <2>7 DEF IndexInv
<1>7. ASSUME NEW i \in Items, Arrive(i) PROVE IndexInv'
  <2>1. /\ kind' = kind /\ walk' = walk /\ walk # "over" /\ offset' = offset
        /\ listed' = listed /\ arrivals' = arrivals + 1 /\ removals' = removals
        /\ stayed' \subseteq stayed
    BY <1>7 DEF Arrive, listing
  <2>2. \A j \in stayed' : /\ j \in stayed /\ j \in Present /\ Rank(j, Top) \in Nat
                           /\ Rank(j, Top)' = Rank(j, Top) + 1
    BY <1>2, <1>7, <2>1, ArrivalShiftsRanks
  <2>3. PICK x : \A j \in Present : Rank(j, Top) = offset => j = x
    BY <1>2, <1>5
  <2>4. Missed' \subseteq Missed
    <3> SUFFICES ASSUME NEW j \in Missed' PROVE j \in Missed
      OBVIOUS
    <3>1. j \in stayed' /\ listed[j] = 0 /\ Rank(j, Top)' <= offset
      BY <2>1 DEF Missed
    <3>2. Rank(j, Top) <= offset BY <1>2, <2>2, <3>1
    <3> QED BY <2>2, <3>1, <3>2 DEF Missed
  <2>5. Repeated' \subseteq Repeated \cup {x}
    <3> SUFFICES ASSUME NEW j \in Repeated', j \notin Repeated PROVE j = x
      OBVIOUS
    <3>1. j \in stayed' /\ (listed[j] > 1 \/ (listed[j] = 1 /\ offset < Rank(j, Top)'))
      BY <2>1 DEF Repeated
    <3>2. listed[j] = 1 /\ offset < Rank(j, Top)' /\ ~(offset < Rank(j, Top))
      BY <2>2, <3>1 DEF Repeated
    <3>3. Rank(j, Top) = offset BY <1>2, <2>2, <3>1, <3>2
    <3> QED BY <2>2, <2>3, <3>1, <3>3
  <2>6. Cardinality(Missed') <= removals' /\ Cardinality(Repeated') <= arrivals'
    <3>1. Cardinality(Missed') \in Nat /\ Cardinality(Missed') <= Cardinality(Missed)
      BY <1>3, <2>4, OneMore
    <3>2. Cardinality(Repeated') \in Nat
          /\ Cardinality(Repeated') <= Cardinality(Repeated) + 1
      BY <1>3, <2>5, OneMore
    <3> QED BY <1>1, <1>2, <1>4, <2>1, <3>1, <3>2
  <2>7. walk' \in {"idle", "over"} /\ walk' # "over" BY <1>1, <2>1
  <2> QED BY <2>6, <2>7 DEF IndexInv
<1>8. ASSUME FetchBlocked PROVE IndexInv'
  <2> DEFINE rows == RowsFrom(offset)
             all == PageRows(Top, offset)
  <2>1. rows = all BY <1>2 DEF RowsFrom, PageRows
  <2>2. /\ IsFiniteSet(all) /\ Cardinality(all) \in 0..Limit
        /\ \A i \in all : Rank(i, Top) <= offset + Cardinality(all)
        /\ (Cardinality(all) < Limit =>
              \A i \in Present : stamp[i] < Top => Rank(i, Top) <= offset \/ i \in all)
    BY <1>2, PageIsWithoutGaps
  <2>3. Fetch(rows) BY <1>8 DEF FetchBlocked
  <2>4. \A i \in Present : i \in rows <=>
             offset < Rank(i, Top) /\ Rank(i, Top) <= offset + Limit
    BY DEF RowsFrom
  <2> HIDE DEF rows, all
  <2>5. /\ kind' = kind /\ stayed' = stayed /\ stamp' = stamp
        /\ arrivals' = arrivals /\ removals' = removals
        /\ \A i \in Items : listed'[i] = IF i \in rows THEN listed[i] + 1 ELSE listed[i]
        /\ offset' = offset + Cardinality(rows)
        /\ walk' \in {"idle", "over"}
        /\ walk' = "over" => Cardinality(rows) < Limit
    BY <2>3 DEF Fetch, list
  <2>6. \A i : Rank(i, Top)' = Rank(i, Top)
    BY <2>5 DEF Rank, Present, Top
  <2>7. Cardinality(rows) \in Nat /\ Cardinality(rows) <= Limit
    BY <1>2, <2>1, <2>2
  <2>8. Missed' \subseteq Missed
    <3> SUFFICES ASSUME NEW i \in Missed' PROVE i \in Missed
      OBVIOUS
    <3>1. i \in stayed /\ i \in Present /\ i \in Items /\ listed'[i] = 0
          /\ Rank(i, Top) <= offset + Cardinality(rows)
      BY <1>2, <2>5, <2>6 DEF Missed
    <3>2. i \notin rows /\ listed[i] = 0 BY <1>2, <2>5, <3>1
    <3>3. Rank(i, Top) <= offset BY <1>2, <2>4, <2>7, <3>1, <3>2
    <3> QED BY <3>1, <3>2, <3>3 DEF Missed
  <2>9. Repeated' \subseteq Repeated
    <3> SUFFICES ASSUME NEW i \in Repeated' PROVE i \in Repeated
      OBVIOUS
    <3>1. i \in stayed /\ i \in Present /\ i \in Items /\ listed[i] \in Nat
          /\ (listed'[i] > 1
                \/ (listed'[i] = 1 /\ offset + Cardinality(rows) < Rank(i, Top)))
      BY <1>2, <2>5, <2>6 DEF Repeated
    <3>2. CASE i \in rows
      <4>1. offset < Rank(i, Top) /\ Rank(i, Top) <= offset + Cardinality(rows)
        BY <2>1, <2>2, <2>4, <3>1, <3>2
      <4>2. listed[i] + 1 > 1 BY <1>2, <2>5, <2>7, <3>1, <3>2, <4>1
      <4> QED BY <1>2, <3>1, <4>1, <4>2 DEF Repeated
    <3>3. CASE i \notin rows
      <4>1. listed'[i] = listed[i] BY <2>5, <3>1, <3>3
      <4> QED BY <1>2, <2>7, <3>1, <4>1 DEF Repeated
    <3> QED BY <3>2, <3>3
  <2>10. Cardinality(Missed') <= removals' /\ Cardinality(Repeated') <= arrivals'
    <3>1. Cardinality(Missed') \in Nat /\ Cardinality(Missed') <= Cardinality(Missed)
      BY <1>3, <2>8, OneMore
    <3>2. Cardinality(Repeated') \in Nat /\ Cardinality(Repeated') <= Cardinality(Repeated)
      BY <1>3, <2>9, OneMore
    <3> QED BY <1>1, <1>2, <1>4, <2>5, <3>1, <3>2
  <2>11. ASSUME walk' = "over", NEW i \in stayed'
         PROVE  Rank(i, Top)' <= offset'
    <3>1. i \in Present /\ stamp[i] < Top /\ Rank(i, Top) \in Nat BY <1>2, <2>5
    <3>2. Rank(i, Top) <= offset \/ i \in all BY <2>1, <2>2, <2>5, <2>11, <3>1
    <3> QED BY <1>2, <2>1, <2>2, <2>5, <2>6, <2>7, <3>1, <3>2
  <2> QED BY <2>5, <2>10, <2>11 DEF IndexInv
<1>9. ASSUME UNCHANGED listingVars PROVE IndexInv'
  <2>1. UNCHANGED <<kind, stamp, walk, offset, listed, arrivals, removals, stayed>>
    BY <1>9 DEF listingVars, list, listing
  <2>2. \A i : Rank(i, Top)' = Rank(i, Top) BY <2>1 DEF Rank, Present, Top
  <2>3. Missed' = Missed /\ Repeated' = Repeated
    BY <2>1, <2>2 DEF Missed, Repeated
  <2> QED BY <1>1, <2>1, <2>2, <2>3 DEF IndexInv
<1>10. ~(FetchMessages \/ StartDialogs \/ PageIsFull \/ ListEnds
         \/ (\E i \in Items : SkipDialog(i) \/ ListDialog(i))
         \/ \E i \in Items, place \in 1..MaxStamp, last \in Messages \cup {NoMessage} :
               Move(i, place, last))
  BY <1>1
     DEF FetchMessages, StartDialogs, PageIsFull, ListEnds, SkipDialog, ListDialog, Move
<1> QED BY <1>6, <1>7, <1>8, <1>9, <1>10 DEF ListingNext

LEMMA NextListingInv == ListingInv /\ [ListingNext]_listingVars => ListingInv'
<1> SUFFICES ASSUME ListingInv, [ListingNext]_listingVars PROVE ListingInv'
  OBVIOUS
<1>1. Ordering' BY OrderingKept DEF ListingInv
<1> QED BY <1>1, MessageKept, DialogKept, IndexKept DEF ListingInv

\* What a cursor says of the rows above it holds however the list changes between
\* the pages and, for dialogs, during the walk.
THEOREM ListingInvariant == ListingSpec => []ListingInv
BY InitListingInv, NextListingInv, PTL DEF ListingSpec

\* Whatever is listed, of however many rows, every variable of it keeps its type.
THEOREM ListingTypeCorrect == ListingSpec => []ListingTypeOK
<1>1. ListingInv => ListingTypeOK BY DEF ListingInv, Ordering
<1> QED BY <1>1, ListingInvariant, PTL

\* Paging by the last id (ops/messages.rs:408) lists every message that stays exactly
\* once, for any number of messages, any limit and any changes in between.
THEOREM MessagesListedOnce == ListingSpec => []MessagesAreListedOnce
<1>1. ListingInv => MessagesAreListedOnce
  BY DEF ListingInv, MessageInv, ListedDownToCursor, MessagesAreListedOnce
<1> QED BY <1>1, ListingInvariant, PTL

\* Walking to the cursor again (ops/dialogs.rs:124) lists no dialog twice that did not
\* go down the list, and every dialog that did not change once, for any number of
\* dialogs and any changes of them: the dialog a cursor names may be touched, which
\* ends the walk early, but then it did change.  The exceptions are the cursors that
\* lead astray, one without a last message and one moved with the message it had.
THEOREM DialogsListed == ListingSpec => []DialogsAreListedWhileTheCursorHolds
<1>1. ListingInv => DialogsAreListedWhileTheCursorHolds
  BY DEF ListingInv, DialogInv, DialogsListedDown, DialogsAreListedWhileTheCursorHolds
<1> QED BY <1>1, ListingInvariant, PTL

\* Paging by index (ops/contacts.rs:346) misses at most as many blocked peers that
\* stay as were removed, and repeats at most as many as arrived.
THEOREM IndexDrifts == ListingSpec => []IndexDriftsByTheChanges
<1>1. ASSUME ListingInv, kind = "index", walk = "over"
      PROVE  /\ Cardinality({i \in stayed : listed[i] = 0}) <= removals
             /\ Cardinality({i \in stayed : listed[i] > 1}) <= arrivals
  <2>1. Ordering /\ IndexInv BY <1>1 DEF ListingInv
  <2>2. /\ Cardinality(Missed) <= removals /\ Cardinality(Repeated) <= arrivals
        /\ \A i \in stayed : Rank(i, Top) <= offset
    BY <1>1, <2>1 DEF IndexInv
  <2>3. IsFiniteSet(Missed) /\ IsFiniteSet(Repeated)
    <3>1. IsFiniteSet(Present) BY <2>1, PresentStamps
    <3>2. stayed \subseteq Present BY <2>1 DEF Ordering, ListingTypeOK
    <3>3. Missed \in SUBSET Present /\ Repeated \in SUBSET Present
      BY <3>2 DEF Missed, Repeated
    <3> QED BY <3>1, <3>3, FS_Subset
  <2>4. arrivals \in Nat /\ removals \in Nat BY <2>1 DEF Ordering, ListingTypeOK
  <2>5. {i \in stayed : listed[i] = 0} \subseteq Missed BY <2>2 DEF Missed
  <2>6. {i \in stayed : listed[i] > 1} \subseteq Repeated BY DEF Repeated
  <2>7. /\ Cardinality({i \in stayed : listed[i] = 0}) \in Nat
        /\ Cardinality(Missed) \in Nat
        /\ Cardinality({i \in stayed : listed[i] = 0}) <= Cardinality(Missed)
    BY <2>3, <2>5, OneMore
  <2>8. /\ Cardinality({i \in stayed : listed[i] > 1}) \in Nat
        /\ Cardinality(Repeated) \in Nat
        /\ Cardinality({i \in stayed : listed[i] > 1}) <= Cardinality(Repeated)
    BY <2>3, <2>6, OneMore
  <2> QED BY <2>2, <2>4, <2>7, <2>8
<1>2. ListingInv => IndexDriftsByTheChanges BY <1>1 DEF IndexDriftsByTheChanges
<1> QED BY <1>2, ListingInvariant, PTL

(* --- The two together ---------------------------------------------------- *)

\* A behaviour that TLC checks is one of the operations and one of a listing.
THEOREM CheckedIsBoth == MCSpec => Spec /\ ListingSpec
<1>1. MCInit => Init /\ ListingInit BY DEF MCInit
<1>2. [MCNext]_<<vars, listingVars>> => [Next]_vars /\ [ListingNext]_listingVars
  BY DEF MCNext, OperationsOnly, ListingsOnly, ListingIsOver
<1> QED BY <1>1, <1>2, PTL DEF MCSpec, Spec, ListingSpec

\* What a behaviour of the two together assigns is of the types the components give.
THEOREM CheckedTypeCorrect == MCSpec => []MCTypeOK
<1>1. TypeOK /\ ListingTypeOK => MCTypeOK BY DEF MCTypeOK
<1> QED BY <1>1, CheckedIsBoth, TypeCorrect, ListingTypeCorrect, PTL
===============================================================================
