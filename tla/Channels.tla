------------------------------- MODULE Channels -------------------------------
(***************************************************************************)
(* How a Telegram channel gets its resolved_id: on every pass the daemon   *)
(* looks through the posts that Telegram still has for the bot, and gives  *)
(* the chat of a post to the first unresolved channel named like it        *)
(* (utils/telegram/telegram_updates.py).  Posts are never acknowledged, so *)
(* the same ones come back until they expire.  Meanwhile channels are      *)
(* created, deleted and edited; an edit loads the row and saves all of it. *)
(***************************************************************************)
EXTENDS Integers, Sequences, FiniteSetsExt

CONSTANTS
    Chats,      \* channels of Telegram that the bot is in
    NoChat,     \* resolved_id is NULL
    Names,      \* names of channels, and titles of chats
    MaxChannels,    \* bound: rows made
    MaxPosts    \* bound: posts that Telegram has at a time

ASSUME ChannelAssumption ==
    /\ NoChat \notin Chats
    /\ MaxChannels \in Nat
    /\ MaxPosts \in Nat

VARIABLES
    channels,   \* TelegramChannel: a function from the ids in the table
    lastId,     \* the last id given out
    posts,      \* what getUpdates answers
    sync,       \* the local variables of sync_channels_from_updates
    put,        \* the local variables of a PUT
    given,      \* history: the chat each channel was given first
    meddled     \* history: channels that a PUT gave a chat, or that a PUT or a
                \* deletion overlapped with something

channelVars == <<channels, lastId, posts, sync, put, given, meddled>>

ChannelIds == 1 .. MaxChannels
Post == [chat : Chats, title : Names]
Channel == [name : Names, resolved_id : Chats \cup {NoChat}]

NoSync == [pc |-> "idle"]
NoPut == [pc |-> "idle"]

ChannelsInit ==
    /\ channels = << >>
    /\ lastId = 0
    /\ posts = << >>
    /\ sync = NoSync
    /\ put = NoPut
    /\ given = << >>
    /\ meddled = {}

WithChannel(i, c) == [j \in DOMAIN channels \cup {i} |-> IF j = i THEN c ELSE channels[j]]

-----------------------------------------------------------------------------
(* Telegram *)

NewPost(p) ==
    /\ Len(posts) < MaxPosts
    /\ posts' = Append(posts, p)
    /\ UNCHANGED <<channels, lastId, sync, put, given, meddled>>

PostExpires ==
    /\ posts # << >>
    /\ posts' = Tail(posts)
    /\ UNCHANGED <<channels, lastId, sync, put, given, meddled>>

-----------------------------------------------------------------------------
(* sync_channels_from_updates (a request that fails changes nothing) *)

GetUpdates ==
    /\ sync.pc = "idle"
    /\ posts # << >>
    /\ sync' = [pc |-> "find", todo |-> posts]
    /\ UNCHANGED <<channels, lastId, posts, put, given, meddled>>

Rest(todo) == IF Len(todo) = 1 THEN NoSync ELSE [pc |-> "find", todo |-> Tail(todo)]

\* filter(name=title, resolved_id__isnull=True).first()
NamedLike(post) == {i \in DOMAIN channels : channels[i].name = post.title}
Unresolved(post) ==
    {i \in DOMAIN channels : channels[i].name = post.title /\ channels[i].resolved_id = NoChat}

FindChannel ==
    LET found == Unresolved(Head(sync.todo))
    IN  /\ sync.pc = "find"
        /\ sync' = IF found = {} THEN Rest(sync.todo)
                   ELSE [pc |-> "save", todo |-> sync.todo, id |-> Min(found)]
        /\ UNCHANGED <<channels, lastId, posts, put, given, meddled>>

\* save(update_fields=["resolved_id"]); without the row it raises, and the pass
\* of the daemon ends.
ResolveChannel ==
    LET i == sync.id
        chat == Head(sync.todo).chat
    IN  /\ sync.pc = "save"
        /\ IF i \in DOMAIN channels
           THEN /\ channels' = [channels EXCEPT ![i].resolved_id = chat]
                /\ given' = IF i \in DOMAIN given THEN given
                            ELSE [j \in DOMAIN given \cup {i} |->
                                     IF j = i THEN chat ELSE given[j]]
                /\ sync' = Rest(sync.todo)
           ELSE /\ sync' = NoSync
                /\ UNCHANGED <<channels, given>>
        /\ meddled' = meddled \cup IF put # NoPut /\ put.id = i THEN {i} ELSE {}
        /\ UNCHANGED <<lastId, posts, put>>

-----------------------------------------------------------------------------
(* TelegramChannelViewSet (BaseUserViewSet), and the admin site *)

CreateChannel(name) ==
    /\ lastId < MaxChannels
    /\ lastId' = lastId + 1
    /\ channels' = WithChannel(lastId + 1, [name |-> name, resolved_id |-> NoChat])
    /\ UNCHANGED <<posts, sync, put, given, meddled>>

\* What is under way with channel i.
Touched(i) == sync.pc = "save" /\ sync.id = i

BeginPut(i) ==
    /\ put = NoPut
    /\ put' = [pc |-> "put", id |-> i, row |-> channels[i]]
    /\ meddled' = meddled \cup IF Touched(i) THEN {i} ELSE {}
    /\ UNCHANGED <<channels, lastId, posts, sync, given>>

\* A new name, or a new resolved_id (the serializer has all fields).
SavePut ==
    /\ put # NoPut
    /\ \/ \E name \in Names :
            /\ channels' = WithChannel(put.id, [put.row EXCEPT !.name = name])
            /\ meddled' = meddled \cup IF Touched(put.id) THEN {put.id} ELSE {}
       \/ \E chat \in Chats \cup {NoChat} :
            /\ channels' = WithChannel(put.id, [put.row EXCEPT !.resolved_id = chat])
            /\ meddled' = meddled \cup {put.id}
    /\ put' = NoPut
    /\ UNCHANGED <<lastId, posts, sync, given>>

DeleteChannel(i) ==
    /\ channels' = [j \in DOMAIN channels \ {i} |-> channels[j]]
    /\ meddled' = meddled \cup IF Touched(i) \/ (put # NoPut /\ put.id = i) THEN {i} ELSE {}
    /\ UNCHANGED <<lastId, posts, sync, put, given>>

-----------------------------------------------------------------------------
ChannelsNext ==
    \/ \E p \in Post : NewPost(p)
    \/ PostExpires
    \/ GetUpdates \/ FindChannel \/ ResolveChannel
    \/ \E name \in Names : CreateChannel(name)
    \/ \E i \in DOMAIN channels : BeginPut(i) \/ DeleteChannel(i)
    \/ SavePut

ChannelsSpec == ChannelsInit /\ [][ChannelsNext]_channelVars

-----------------------------------------------------------------------------
ChannelsTypeOK ==
    /\ DOMAIN channels \subseteq 1 .. lastId
    /\ channels \in [DOMAIN channels -> Channel]
    /\ lastId \in 0 .. MaxChannels
    /\ posts \in Seq(Post) /\ Len(posts) <= MaxPosts
    /\ sync \in {NoSync} \cup [pc : {"find"}, todo : Seq(Post)]
                  \cup [pc : {"save"}, todo : Seq(Post), id : ChannelIds]
    /\ sync.pc # "idle" => sync.todo # << >>
    /\ put \in {NoPut} \cup [pc : {"put"}, id : ChannelIds, row : Channel]
    /\ DOMAIN given \subseteq ChannelIds
    /\ given \in [DOMAIN given -> Chats]
    /\ meddled \subseteq ChannelIds

\* Posts come back until they expire, chats and channels are renamed, and the
\* search for a channel and the save are two transactions: still a channel keeps
\* the chat it was given first, unless a PUT set resolved_id or overlapped the
\* save.  (Nothing keeps several channels of one name from getting the same chat,
\* even from the same post.)
ResolvedOnce ==
    \A i \in DOMAIN channels \ meddled :
        channels[i].resolved_id = IF i \in DOMAIN given THEN given[i] ELSE NoChat
=============================================================================
