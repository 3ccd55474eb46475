---------------------------- MODULE MCConversions ----------------------------
(***************************************************************************)
(* What the conversions do on small values: each operator against what it  *)
(* is for, said another way.  ContentProofs proves for all values what is  *)
(* said here of dates, folders, users and sent messages.                   *)
(***************************************************************************)
EXTENDS Integers, Sequences, FiniteSets

\* Texts parse to themselves, and no name says what is in a file.
Plain(text) == [text |-> text, entities |-> <<>>]
Parsers == [mode \in {"html", "markdown"} |->
               [text \in {"", "text"} |-> Plain(text)]]
NoTypes == [name \in {} |-> name]

S == INSTANCE Settings WITH Parser <- Parsers, MimeType <- NoTypes
R == INSTANCE Requests WITH Parser <- Parsers, MimeType <- NoTypes

-----------------------------------------------------------------------------
(* Records.                                                                *)

\* The records of at most two fields.
Small == UNION {[fields -> {1, 2}] : fields \in SUBSET {"a", "b"}}

\* Joining records is putting one after the other (dto/media.rs:136 and every
\* other projection that fills a null one in).
ASSUME JoinedIsWithInTurn ==
    \A r, s, t \in Small :
        S!Joined(<<r, s, t>>) = S!With(S!With(r, s), t)

\* A source is exactly one of the ways to name it (payload.rs:25).
ASSUME ExactlyOneIsOne ==
    \A r \in Small :
        S!ExactlyOne(r, {"a", "b"}) <=> Cardinality(DOMAIN r) = 1

-----------------------------------------------------------------------------
(* Folders.                                                                *)

\* Folders of at most one peer in each list, of which peer 2 is lost.
FolderPeers == {1, 2}
Reached == {1}
Lists == {<<>>} \cup {<<p>> : p \in FolderPeers}
Title == {[text |-> "title", entities |-> e] : e \in {<<>>, <<1>>}}

RuledFolder(title, pinned, included, animated) ==
    [f \in S!RuledFolderFields |->
        CASE f = "kind" -> "filter"
          [] f = "id" -> 7
          [] f = "title" -> title
          [] f = "titleNoanimate" -> ~animated
          [] f = "pinnedPeers" -> pinned
          [] f = "includePeers" -> included
          [] f = "excludePeers" -> <<>>
          [] OTHER -> f = "bots"]

\* A shared folder has no rules, and the folder of all chats has nothing.
SharedFolder(folder) ==
    S!With(S!Keep(folder, {"id", "title", "titleNoanimate", "pinnedPeers",
                           "includePeers", "emoticon"}),
           [kind |-> "chatlist", hasMyInvites |-> TRUE])

Folders ==
    LET ruled == {RuledFolder(title, pinned, included, animated) :
                     title \in Title, pinned \in Lists, included \in Lists,
                     animated \in BOOLEAN}
        named == ruled \cup {S!With(f, S!Field("emoticon", 1)) : f \in ruled}
    IN  named \cup {SharedFolder(f) : f \in named} \cup {[kind |-> "default"]}

\* A folder written back as it was read is the same only if it was a plain one
\* whose peers can all be reached (dto/folders.rs:67, ops/folders.rs:139).
ASSUME FoldersAreWrittenBack ==
    \A folder \in Folders :
        /\ S!IsFolder(folder, FolderPeers, {1})
        /\ S!FolderIsWrittenBack(folder, Reached)

-----------------------------------------------------------------------------
(* Requests.                                                               *)

Ids == UNION {[1 .. n -> 1 .. 3] : n \in 0 .. 4}

\* Users are asked for in the order given, each once (ops/users.rs:83).
ASSUME UniqueIdsAreInOrder ==
    \A ids \in Ids :
        LET unique == R!UniqueIds(ids)
            FirstAt(id) == CHOOSE i \in DOMAIN ids :
                              /\ ids[i] = id
                              /\ \A j \in 1 .. i - 1 : ids[j] # id
        IN  /\ {unique[k] : k \in DOMAIN unique} = {ids[i] : i \in DOMAIN ids}
            /\ \A k, l \in DOMAIN unique :
                  k < l => FirstAt(unique[k]) < FirstAt(unique[l])

\* A date is the second it is in: that second begins no later and ends after
\* it, before the epoch too (ops/inline.rs:572, ops/messages.rs:668).
ASSUME SecondsContainTheirDate ==
    \A millis \in -3000 .. 3000 :
        /\ R!Millis(R!EpochSeconds(millis)) <= millis
        /\ millis < R!Millis(R!EpochSeconds(millis) + 1)

\* A page has between one and a hundred entries, and as many as were asked for
\* when that is such a number (ops/messages.rs:159, ops/files.rs:141).
ASSUME PagesAreBounded ==
    \A limit \in -1 .. 102 :
        LET page == R!PageLimit([limit |-> limit]) IN
        /\ page \in 1 .. 100
        /\ limit \in 1 .. 100 => page = limit

Updates == {[kind |-> "messageId", id |-> id, randomId |-> random] :
               id \in 1 .. 2, random \in 1 .. 2}
           \cup {[kind |-> "newMessage"]}

\* The message found is one the updates name by the random id, the earliest;
\* none is found only where none is named (ops/inline.rs:536).
ASSUME SentMessagesAreFound ==
    \A updates \in UNION {[1 .. n -> Updates] : n \in 0 .. 3} :
        LET found == R!SentMessageId([kind |-> "updates",
                                      updates |-> updates], 1)
            Names(i) == updates[i].kind = "messageId"
                        /\ updates[i].randomId = 1
        IN  IF found = R!None THEN \A i \in DOMAIN updates : ~Names(i)
            ELSE \E i \in DOMAIN updates :
                    /\ Names(i)
                    /\ updates[i].id = found.id
                    /\ \A j \in 1 .. i - 1 : ~Names(j)
==============================================================================
