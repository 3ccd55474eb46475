------------------------------- MODULE Listings -------------------------------
(***************************************************************************)
(* Listing page by page something that changes in the meantime.  The pages  *)
(* are independent calls; the caller carries the cursor from one to the     *)
(* next and takes a page that is not full for the last one.  The native     *)
(* library knows three cursors:                                             *)
(*                                                                         *)
(*   "message"  the id of the last row (getHistory, searchMessages,         *)
(*              getChatPhotos): Telegram resumes below it                   *)
(*   "index"    how many rows came before (contactsGetBlocked, and its walk *)
(*              of the whole list in one call): Telegram skips as many      *)
(*   "dialog"   the last row, a peer with its last message (getDialogs,     *)
(*              getDialogsMeta): grammers has no such cursor, so the list is *)
(*              walked from its top until that very row has passed          *)
(*                                                                         *)
(* Rows are ordered by a stamp, newest first: a message's id, the date of a *)
(* block, the place of a dialog.  A dialog's place is the date of its last   *)
(* message unless it is pinned, so a dialog rises and sinks as messages are  *)
(* sent and deleted and as it is pinned and unpinned.  A page of messages or *)
(* of blocked peers is one request; a page of dialogs is a walk, during      *)
(* which the list may change as well.                                       *)
(***************************************************************************)
EXTENDS Naturals, FiniteSets

CONSTANTS Items,        \* what may be listed: messages, blocked peers or dialogs
          NoItem,       \* the cursor of the first page
          Limit,        \* rows of a full page
          Messages,     \* what may be the last message of a dialog
          NoMessage,    \* a dialog without a last message
          MaxStamp,     \* bound: stamps ever given
          MaxChanges,   \* bound: changes of the dialogs during a listing
          MaxRows       \* bound: rows after which a caller asks for no more dialogs

ASSUME ListingAssumption ==
    /\ NoItem \notin Items
    /\ NoMessage \notin Messages
    /\ Limit \in Nat \ {0}
    /\ MaxStamp \in Nat
    /\ MaxChanges \in Nat
    /\ MaxRows \in Nat

VARIABLES kind,         \* the listing
          stamp,        \* the list: an item's stamp, or 0 when it is not listed
          message,      \* the last message of a dialog
          newest,       \* the newest stamp given
          cursor,       \* the last row of the last page: its item, stamp and message
          offset,       \* rows of the pages before
          walk,         \* "idle" between pages, "skipping" to the cursor, "listing", "over"
          position,     \* the walk of the dialogs: what is older is still ahead of it
          page,         \* dialogs of this page
          listed,       \* history: how often a row was listed
          arrivals,     \* history: rows that came, and dialogs moved, since the first page
          removals,     \* history: rows removed since the first page
          stayed,       \* history: items not touched since the first page
          lowered,      \* history: items that went down the list or left it
          lostCursor,   \* history: a walk ended without passing its cursor
          astray        \* history: a walk went on from another place than the cursor's

list == <<kind, stamp, message, newest, arrivals, removals, stayed, lowered>>
listing == <<cursor, offset, walk, position, page, listed, lostCursor, astray>>
listingVars == <<list, listing>>

Top == MaxStamp + 1
Present == {i \in Items : stamp[i] # 0}

\* Some items are listed, in some order, when the first page is asked for.
ListingInit ==
    /\ kind \in {"message", "index", "dialog"}
    /\ newest \in 0..MaxStamp
    /\ stamp \in [Items -> 0..newest]
    /\ \A i, j \in Items : i # j /\ stamp[i] = stamp[j] => stamp[i] = 0
    /\ message \in [Items -> Messages \cup {NoMessage}]
    /\ arrivals = 0
    /\ removals = 0
    /\ stayed = Present
    /\ lowered = {}
    /\ cursor = [item |-> NoItem, stamp |-> Top, message |-> NoMessage]
    /\ offset = 0
    /\ walk = "idle"
    /\ position = Top
    /\ page = 0
    /\ listed = [i \in Items |-> 0]
    /\ lostCursor = FALSE
    /\ astray = FALSE

(* --- The list changes --------------------------------------------------- *)

\* A message is sent or a peer blocked.
Arrive(i) ==
    /\ kind # "dialog" /\ walk # "over"
    /\ newest < MaxStamp
    /\ stamp[i] = 0
    /\ newest' = newest + 1
    /\ stamp' = [stamp EXCEPT ![i] = newest + 1]
    /\ arrivals' = arrivals + 1
    /\ stayed' = stayed \ {i}
    /\ UNCHANGED <<kind, message, removals, lowered, listing>>

\* A dialog comes, or its last message or its place changes: a message is sent, the
\* last one deleted, also the only one, the dialog pinned or unpinned.  Which of
\* these it was decides nothing here, so any free place and any message will do.
Move(i, place, last) ==
    /\ kind = "dialog" /\ walk # "over"
    /\ arrivals + removals < MaxChanges
    /\ \A j \in Items \ {i} : stamp[j] # place
    /\ place # stamp[i] \/ last # message[i]
    /\ stamp' = [stamp EXCEPT ![i] = place]
    /\ message' = [message EXCEPT ![i] = last]
    /\ newest' = IF newest < place THEN place ELSE newest
    /\ arrivals' = arrivals + 1
    /\ stayed' = stayed \ {i}
    /\ lowered' = IF place < stamp[i] THEN lowered \cup {i} ELSE lowered
    /\ UNCHANGED <<kind, removals, listing>>

Remove(i) ==
    /\ walk # "over"
    /\ kind = "dialog" => arrivals + removals < MaxChanges
    /\ stamp[i] # 0
    /\ stamp' = [stamp EXCEPT ![i] = 0]
    /\ removals' = removals + 1
    /\ stayed' = stayed \ {i}
    /\ lowered' = lowered \cup {i}
    /\ UNCHANGED <<kind, message, newest, arrivals, listing>>

(* --- Pages by id and by index: one request ------------------------------- *)

\* How many rows there are from the top, or from below a stamp, to row i.
Rank(i, below) == Cardinality({j \in Present : stamp[i] <= stamp[j] /\ stamp[j] < below})

\* Row i, as a cursor names it.
Row(i) == [item |-> i, stamp |-> stamp[i], message |-> message[i]]

RowsBelow(below) == {i \in Present : stamp[i] < below /\ Rank(i, below) <= Limit}
RowsFrom(index) == {i \in Present : index < Rank(i, Top) /\ Rank(i, Top) <= index + Limit}

Fetch(rows) ==
    /\ listed' = [i \in Items |-> IF i \in rows THEN listed[i] + 1 ELSE listed[i]]
    /\ offset' = offset + Cardinality(rows)
    /\ walk' = IF Cardinality(rows) < Limit THEN "over" ELSE "idle"
    /\ UNCHANGED <<list, position, page, lostCursor, astray>>

\* Faulty: the row of the cursor is taken for the first of the page.
FetchMessagesFromCursor ==
    /\ kind = "message" /\ walk = "idle"
    /\ LET rows == RowsBelow(cursor.stamp + 1) IN
         /\ Fetch(rows)
         /\ \/ rows = {} /\ UNCHANGED cursor
            \/ \E i \in rows :
                 /\ \A j \in rows : stamp[i] <= stamp[j]
                 /\ cursor' = Row(i)

FetchMessages ==
    /\ kind = "message" /\ walk = "idle"
    /\ LET rows == RowsBelow(cursor.stamp) IN
         /\ Fetch(rows)
         /\ \/ rows = {} /\ UNCHANGED cursor
            \/ \E i \in rows :
                 /\ \A j \in rows : stamp[i] <= stamp[j]
                 /\ cursor' = Row(i)

\* Faulty: the walk advances by what it asked for, one row too far.
FetchBlockedBeyond ==
    /\ kind = "index" /\ walk = "idle"
    /\ Fetch(RowsFrom(IF offset = 0 THEN 0 ELSE offset + 1))
    /\ UNCHANGED cursor

FetchBlocked ==
    /\ kind = "index" /\ walk = "idle"
    /\ Fetch(RowsFrom(offset))
    /\ UNCHANGED cursor

(* --- Pages of dialogs: a walk from the top -------------------------------- *)

IsNext(i) ==
    /\ i \in Present /\ stamp[i] < position
    /\ \A j \in Present : stamp[j] < position => stamp[j] <= stamp[i]

\* A cursor is complete when its dialog had a last message; any other is dropped,
\* and the list is served from its top again.
StartDialogs ==
    /\ kind = "dialog" /\ walk = "idle"
    /\ offset < MaxRows
    /\ walk' = IF cursor.message = NoMessage THEN "listing" ELSE "skipping"
    /\ astray' = (astray \/ (cursor.item # NoItem /\ cursor.message = NoMessage))
    /\ position' = Top
    /\ page' = 0
    /\ UNCHANGED <<list, cursor, offset, listed, lostCursor>>

\* The cursor's dialog, with the message it was listed with, stands elsewhere now.
Strayed(i) ==
    i = cursor.item /\ message[i] = cursor.message /\ stamp[i] # cursor.stamp

\* Faulty: any row of the cursor's peer ends the skipping, whatever its message.
SkipToPeer(i) ==
    /\ walk = "skipping"
    /\ IsNext(i)
    /\ position' = stamp[i]
    /\ walk' = IF i = cursor.item THEN "listing" ELSE "skipping"
    /\ astray' = (astray \/ Strayed(i))
    /\ UNCHANGED <<list, cursor, offset, page, listed, lostCursor>>

\* skip_past_cursor: a row is consumed; what follows the cursor's row is listed.
SkipDialog(i) ==
    /\ walk = "skipping"
    /\ IsNext(i)
    /\ position' = stamp[i]
    /\ walk' = IF i = cursor.item /\ message[i] = cursor.message
               THEN "listing" ELSE "skipping"
    /\ astray' = (astray \/ Strayed(i))
    /\ UNCHANGED <<list, cursor, offset, page, listed, lostCursor>>

\* Faulty: the page is not ended when it is full.
ListDialogUnbounded(i) ==
    /\ walk = "listing"
    /\ IsNext(i)
    /\ position' = stamp[i]
    /\ page' = page + 1
    /\ offset' = offset + 1
    /\ listed' = [listed EXCEPT ![i] = @ + 1]
    /\ cursor' = Row(i)
    /\ UNCHANGED <<list, walk, lostCursor, astray>>

ListDialog(i) ==
    /\ walk = "listing" /\ page < Limit
    /\ IsNext(i)
    /\ position' = stamp[i]
    /\ page' = page + 1
    /\ offset' = offset + 1
    /\ listed' = [listed EXCEPT ![i] = @ + 1]
    /\ cursor' = Row(i)
    /\ UNCHANGED <<list, walk, lostCursor, astray>>

PageIsFull ==
    /\ walk = "listing" /\ page = Limit
    /\ walk' = "idle"
    /\ UNCHANGED <<list, cursor, offset, position, page, listed, lostCursor, astray>>

\* The iterator is at its end: the page is short, or empty when the walk was still
\* looking for a cursor that names no dialog any more.
ListEnds ==
    /\ walk \in {"skipping", "listing"} /\ page < Limit
    /\ \A i \in Items : ~IsNext(i)
    /\ walk' = "over"
    /\ lostCursor' = (walk = "skipping")
    /\ UNCHANGED <<list, cursor, offset, position, page, listed, astray>>

ListingNext ==
    \/ FetchMessages
    \/ FetchBlocked
    \/ StartDialogs
    \/ PageIsFull
    \/ ListEnds
    \/ \E i \in Items : Arrive(i) \/ Remove(i) \/ SkipDialog(i) \/ ListDialog(i)
    \/ \E i \in Items, place \in 1..MaxStamp, last \in Messages \cup {NoMessage} :
          Move(i, place, last)

ListingSpec == ListingInit /\ [][ListingNext]_listingVars

(* --- Properties --------------------------------------------------------- *)

ListingTypeOK ==
    /\ kind \in {"message", "index", "dialog"}
    /\ newest \in 0..MaxStamp
    /\ stamp \in [Items -> 0..newest]
    /\ message \in [Items -> Messages \cup {NoMessage}]
    /\ arrivals \in Nat
    /\ removals \in Nat
    /\ stayed \subseteq Present
    /\ lowered \subseteq Items
    /\ cursor \in [item : Items \cup {NoItem}, stamp : 1..Top,
                  message : Messages \cup {NoMessage}]
    /\ offset \in Nat
    /\ walk \in {"idle", "skipping", "listing", "over"}
    /\ position \in 1..Top
    /\ page \in 0..Limit
    /\ listed \in [Items -> Nat]
    /\ lostCursor \in BOOLEAN
    /\ astray \in BOOLEAN

\* Pages that continue from the last id list every message that was there all the
\* time exactly once, and none twice, whatever is sent or deleted in between.
MessagesAreListedOnce ==
    kind = "message" =>
      /\ \A i \in Items : listed[i] <= 1
      /\ walk = "over" => \A i \in stayed : listed[i] = 1

\* Pages by index, and the walk of all blocked peers made of them, may miss a peer
\* for every one that was unblocked in the meantime and repeat one for every one
\* blocked, and no more: on a list that does not change they are exact.
IndexDriftsByTheChanges ==
    kind = "index" /\ walk = "over" =>
      /\ Cardinality({i \in stayed : listed[i] = 0}) <= removals
      /\ Cardinality({i \in stayed : listed[i] > 1}) <= arrivals

\* Pages of dialogs repeat only dialogs that went down the list, or left it and came
\* back, and list every dialog that did not change exactly once, although every new
\* message moves one.  They end early, without a sign of it, only when the cursor's
\* dialog changed.  All this holds until the cursor leads astray: a dialog listed
\* without a last message makes no cursor, and one pinned or unpinned since it was
\* listed is passed where it stands now; what follows is listed again or skipped.
DialogsAreListedWhileTheCursorHolds ==
    kind = "dialog" =>
      /\ ~astray => \A i \in Items \ lowered : listed[i] <= 1
      /\ walk = "over" /\ ~lostCursor /\ ~astray => \A i \in stayed : listed[i] = 1
      /\ lostCursor => cursor.item \notin stayed
==============================================================================
