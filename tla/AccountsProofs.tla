---------------------------- MODULE AccountsProofs ----------------------------
(***************************************************************************)
(* Proofs about Channels, SignIn and Subscriptions, for every number of    *)
(* workers, users, plans, channels and chats: type correctness and the     *)
(* safety invariants of each.  The three share no state; the last theorem  *)
(* is about MCAccounts, where they run side by side.                       *)
(***************************************************************************)
EXTENDS MCAccounts, SetLemmas, SequenceTheorems

-----------------------------------------------------------------------------
(* Channels: the inductive invariant *)

\* The chat that channel i should have.
Expected(i) == IF i \in DOMAIN given THEN given[i] ELSE NoChat

\* Ids are given out once, to channels, PUTs, resolutions and chats given.
IdsGivenOut ==
    /\ put # NoPut => put.id <= lastId
    /\ sync.pc = "save" => sync.id <= lastId
    /\ DOMAIN given \subseteq 1 .. lastId

\* A PUT that nothing has overlapped has loaded the chat that the channel still
\* has; a channel that a resolution has found has not been given a chat.
Undisturbed ==
    /\ put # NoPut /\ put.id \notin meddled =>
          put.id \in DOMAIN channels /\ put.row.resolved_id = channels[put.id].resolved_id
    /\ sync.pc = "save" /\ sync.id \notin meddled =>
          sync.id \in DOMAIN channels /\ channels[sync.id].resolved_id = NoChat

ChannelsInv == ChannelsTypeOK /\ IdsGivenOut /\ Undisturbed /\ ResolvedOnce

\* What is known of the queue of posts, of the pass and of the PUT.
LEMMA ChannelFacts ==
    ASSUME ChannelsTypeOK
    PROVE  /\ MaxChannels \in Nat /\ lastId \in Nat /\ lastId <= MaxChannels /\ NoChat \notin Chats
           /\ DOMAIN channels \subseteq 1 .. lastId /\ DOMAIN channels \subseteq ChannelIds
           /\ \A i \in DOMAIN channels : channels[i] \in Channel
           /\ channels = [i \in DOMAIN channels |-> channels[i]]
           /\ posts \in Seq(Post)
           /\ sync.pc = "find" => sync.todo \in Seq(Post) /\ sync.todo # << >>
           /\ sync.pc = "save" => sync.todo \in Seq(Post) /\ sync.todo # << >> /\ sync.id \in ChannelIds
           /\ put # NoPut => put.pc = "put" /\ put.id \in ChannelIds /\ put.row \in Channel
           /\ \A i \in DOMAIN given : given[i] \in Chats
           /\ given = [i \in DOMAIN given |-> given[i]]
           /\ meddled \subseteq ChannelIds
<1>1. MaxChannels \in Nat /\ NoChat \notin Chats
  BY ChannelAssumption
<1>2. lastId \in Nat /\ lastId <= MaxChannels /\ DOMAIN channels \subseteq 1 .. lastId
  BY <1>1 DEF ChannelsTypeOK
<1>3. DOMAIN channels \subseteq ChannelIds
  BY <1>1, <1>2 DEF ChannelIds
<1>4. /\ sync.pc = "find" => sync.todo \in Seq(Post) /\ sync.todo # << >>
      /\ sync.pc = "save" => sync.todo \in Seq(Post) /\ sync.todo # << >> /\ sync.id \in ChannelIds
  BY DEF ChannelsTypeOK, NoSync
<1>5. put # NoPut => put.pc = "put" /\ put.id \in ChannelIds /\ put.row \in Channel
  BY DEF ChannelsTypeOK
<1> QED
  BY <1>1, <1>2, <1>3, <1>4, <1>5 DEF ChannelsTypeOK

\* The type invariant where only the table, and what a PUT or a deletion leaves,
\* has changed.
LEMMA TableTypes ==
    ASSUME ChannelsTypeOK, NEW i \in ChannelIds, NEW c \in Channel
    PROVE  /\ DOMAIN WithChannel(i, c) = DOMAIN channels \cup {i}
           /\ WithChannel(i, c)[i] = c
           /\ \A j \in DOMAIN channels : j # i => WithChannel(i, c)[j] = channels[j]
           /\ WithChannel(i, c) \in [DOMAIN WithChannel(i, c) -> Channel]
<1>1. \A j \in DOMAIN channels : channels[j] \in Channel
  BY ChannelFacts
<1> QED
  BY <1>1 DEF WithChannel

\* What is left to do of the posts.
LEMMA RestTypes ==
    ASSUME NEW todo \in Seq(Post), todo # << >>
    PROVE  /\ Rest(todo) \in {NoSync} \cup [pc : {"find"}, todo : Seq(Post)]
           /\ Rest(todo).pc # "save"
           /\ Rest(todo).pc # "idle" => Rest(todo).todo # << >>
<1>1. CASE Len(todo) = 1
  BY <1>1 DEF Rest, NoSync
<1>2. CASE Len(todo) # 1
  <2>1. Tail(todo) \in Seq(Post) /\ Tail(todo) # << >>
    <3>1. Tail(todo) \in Seq(Post) /\ Len(Tail(todo)) = Len(todo) - 1 /\ Len(todo) \in Nat
      BY HeadTailProperties
    <3>2. Len(Tail(todo)) # 0
      BY <1>2, <3>1
    <3>3. Len(<< >>) = 0
      OBVIOUS
    <3> HIDE DEF Rest
    <3> QED
      BY <3>1, <3>2, <3>3
  <2> QED
    BY <1>2, <2>1 DEF Rest
<1> QED
  BY <1>1, <1>2

\* Telegram's side, and the pass up to where it saves.
LEMMA PassKeepsChannels ==
    ASSUME ChannelsInv
    PROVE  /\ \A p \in Post : NewPost(p) => ChannelsInv'
           /\ PostExpires => ChannelsInv'
           /\ GetUpdates => ChannelsInv'
           /\ FindChannel => ChannelsInv'
<1>1. ChannelsTypeOK /\ IdsGivenOut /\ Undisturbed /\ ResolvedOnce
  BY DEF ChannelsInv
<1>2. ASSUME UNCHANGED <<channels, lastId, put, given, meddled>>, ChannelsTypeOK',
             sync'.pc = "save" => \/ sync' = sync
                                  \/ /\ sync'.id \in DOMAIN channels
                                     /\ channels[sync'.id].resolved_id = NoChat
      PROVE  ChannelsInv'
  <2>1. IdsGivenOut'
    <3>1. sync'.pc = "save" => sync'.id <= lastId
      BY <1>1, <1>2, ChannelFacts DEF IdsGivenOut
    <3> QED
      BY <1>1, <1>2, <3>1 DEF IdsGivenOut
  <2>2. Undisturbed'
    BY <1>1, <1>2 DEF Undisturbed
  <2>3. ResolvedOnce'
    BY <1>1, <1>2 DEF ResolvedOnce
  <2> QED
    BY <1>2, <2>1, <2>2, <2>3 DEF ChannelsInv
<1>3. ASSUME NEW p \in Post, NewPost(p)
      PROVE  ChannelsInv'
  <2>1. MaxPosts \in Nat /\ posts \in Seq(Post) /\ Len(posts) < MaxPosts /\ posts' = Append(posts, p)
    BY <1>1, <1>3, ChannelAssumption DEF NewPost, ChannelsTypeOK
  <2>2. posts' \in Seq(Post) /\ Len(posts') <= MaxPosts
    BY <2>1
  <2>3. ChannelsTypeOK'
    BY <1>1, <1>3, <2>2 DEF NewPost, ChannelsTypeOK
  <2> QED
    BY <1>2, <1>3, <2>3 DEF NewPost
<1>4. ASSUME PostExpires
      PROVE  ChannelsInv'
  <2>1. MaxPosts \in Nat /\ posts \in Seq(Post) /\ Len(posts) <= MaxPosts /\ posts' = Tail(posts) /\ posts # << >>
    BY <1>1, <1>4, ChannelAssumption DEF PostExpires, ChannelsTypeOK
  <2>2. posts' \in Seq(Post) /\ Len(posts') <= MaxPosts
    BY <2>1
  <2>3. ChannelsTypeOK'
    BY <1>1, <1>4, <2>2 DEF PostExpires, ChannelsTypeOK
  <2> QED
    BY <1>2, <1>4, <2>3 DEF PostExpires
<1>5. ASSUME GetUpdates
      PROVE  ChannelsInv'
  <2>1. sync' = [pc |-> "find", todo |-> posts] /\ posts \in Seq(Post) /\ posts # << >>
    BY <1>1, <1>5 DEF GetUpdates, ChannelsTypeOK
  <2>2. ChannelsTypeOK'
    BY <1>1, <1>5, <2>1 DEF GetUpdates, ChannelsTypeOK
  <2> QED
    BY <1>2, <1>5, <2>1, <2>2 DEF GetUpdates
<1>6. ASSUME FindChannel
      PROVE  ChannelsInv'
  <2> DEFINE found == Unresolved(Head(sync.todo))
  <2>1. /\ sync.pc = "find" /\ sync.todo \in Seq(Post) /\ sync.todo # << >>
        /\ sync' = IF found = {} THEN Rest(sync.todo)
                   ELSE [pc |-> "save", todo |-> sync.todo, id |-> Min(found)]
        /\ UNCHANGED <<channels, lastId, posts, put, given, meddled>>
    BY <1>1, <1>6, ChannelFacts DEF FindChannel
  <2>2. \A i \in found : i \in DOMAIN channels /\ channels[i].resolved_id = NoChat
    BY DEF Unresolved
  <2>3. DOMAIN channels \subseteq Nat /\ DOMAIN channels \subseteq ChannelIds
    BY <1>1, ChannelFacts
  <2> HIDE DEF found
  <2>4. CASE found = {}
    <3>1. /\ sync' \in {NoSync} \cup [pc : {"find"}, todo : Seq(Post)] /\ sync'.pc # "save"
          /\ sync'.pc # "idle" => sync'.todo # << >>
      BY <2>1, <2>4, RestTypes
    <3>2. ChannelsTypeOK'
      BY <1>1, <2>1, <3>1 DEF ChannelsTypeOK
    <3> QED
      BY <1>2, <2>1, <3>1, <3>2
  <2>5. CASE found # {}
    <3>1. Min(found) \in found
      BY <2>2, <2>3, <2>5, MinOfNaturals
    <3> DEFINE m == Min(found)
    <3>2. m \in DOMAIN channels /\ channels[m].resolved_id = NoChat /\ m \in ChannelIds
      BY <2>2, <2>3, <3>1
    <3>3. sync' = [pc |-> "save", todo |-> sync.todo, id |-> m]
      BY <2>1, <2>5
    <3> HIDE DEF m
    <3>4. ChannelsTypeOK'
      BY <1>1, <2>1, <3>2, <3>3 DEF ChannelsTypeOK
    <3> QED
      BY <1>2, <2>1, <3>2, <3>3, <3>4
  <2> QED
    BY <2>4, <2>5
<1> QED
  BY <1>3, <1>4, <1>5, <1>6

\* The table changes and nothing that is given out.
LEMMA TableKeepsChannels ==
    ASSUME ChannelsInv, ChannelsTypeOK', UNCHANGED <<sync, given>>, lastId <= lastId',
           meddled \subseteq meddled',
           put' = NoPut \/ put' = put \/ (put'.id \in DOMAIN channels' /\ put'.row = channels'[put'.id]),
           \A i \in DOMAIN channels' \ meddled' : channels'[i].resolved_id = Expected(i),
           \A i \in DOMAIN channels \ meddled' :
              (put' # NoPut /\ put'.id = i) \/ (sync.pc = "save" /\ sync.id = i)
                => i \in DOMAIN channels' /\ channels'[i] = channels[i]
    PROVE  ChannelsInv'
<1>1. ChannelsTypeOK /\ IdsGivenOut /\ Undisturbed /\ ResolvedOnce
  BY DEF ChannelsInv
<1>2. lastId \in Nat /\ lastId' \in Nat /\ DOMAIN channels' \subseteq 1 .. lastId'
  BY <1>1, ChannelAssumption DEF ChannelsTypeOK
<1>3. put # NoPut => put.id \in Int
  BY <1>1, ChannelFacts DEF ChannelIds
<1>4. sync.pc = "save" => sync.id \in Int
  BY <1>1, ChannelFacts DEF ChannelIds
<1>5. IdsGivenOut'
  <2>1. put' # NoPut => put'.id <= lastId'
    BY <1>1, <1>2, <1>3 DEF IdsGivenOut
  <2>2. sync'.pc = "save" => sync'.id <= lastId'
    BY <1>1, <1>2, <1>4 DEF IdsGivenOut
  <2>3. DOMAIN given' \subseteq 1 .. lastId'
    BY <1>1, <1>2 DEF IdsGivenOut
  <2> QED
    BY <2>1, <2>2, <2>3 DEF IdsGivenOut
<1>6. Undisturbed'
  <2>1. ASSUME put' # NoPut, put'.id \notin meddled'
        PROVE  put'.id \in DOMAIN channels' /\ put'.row.resolved_id = channels'[put'.id].resolved_id
    <3>1. CASE put' = put
      BY <1>1, <2>1, <3>1 DEF Undisturbed
    <3>2. CASE put' # put
      BY <2>1, <3>2
    <3> QED
      BY <3>1, <3>2
  <2>2. ASSUME sync'.pc = "save", sync'.id \notin meddled'
        PROVE  sync'.id \in DOMAIN channels' /\ channels'[sync'.id].resolved_id = NoChat
    BY <1>1, <2>2 DEF Undisturbed
  <2> QED
    BY <2>1, <2>2 DEF Undisturbed
<1>7. ResolvedOnce'
  BY DEF ResolvedOnce, Expected
<1> QED
  BY <1>5, <1>6, <1>7 DEF ChannelsInv

\* A channel that nothing has overlapped has the chat it should have.
LEMMA ExpectedFacts ==
    ASSUME ChannelsInv
    PROVE  /\ \A i \in DOMAIN channels \ meddled : channels[i].resolved_id = Expected(i)
           /\ \A i : i > lastId /\ i \in Nat => i \notin DOMAIN channels /\ Expected(i) = NoChat
           /\ put # NoPut /\ put.id \notin meddled => put.row.resolved_id = Expected(put.id)
<1>1. \A i \in DOMAIN channels \ meddled : channels[i].resolved_id = Expected(i)
  BY DEF ChannelsInv, ResolvedOnce, Expected
<1>2. ASSUME NEW i \in Nat, i > lastId
      PROVE  i \notin DOMAIN channels /\ i \notin DOMAIN given
  BY <1>2, ChannelFacts DEF ChannelsInv, IdsGivenOut
<1>3. put # NoPut /\ put.id \notin meddled => put.row.resolved_id = Expected(put.id)
  BY <1>1 DEF ChannelsInv, Undisturbed
<1> QED
  BY <1>1, <1>2, <1>3 DEF Expected

\* Channels are created, edited and deleted.
LEMMA EditsKeepChannels ==
    ASSUME ChannelsInv
    PROVE  /\ \A name \in Names : CreateChannel(name) => ChannelsInv'
           /\ \A i \in DOMAIN channels : BeginPut(i) => ChannelsInv'
           /\ SavePut => ChannelsInv'
           /\ \A i \in DOMAIN channels : DeleteChannel(i) => ChannelsInv'
<1>1. ChannelsTypeOK /\ IdsGivenOut /\ Undisturbed
  BY DEF ChannelsInv
<1>2. /\ MaxChannels \in Nat /\ lastId \in Nat /\ lastId <= MaxChannels /\ DOMAIN channels \subseteq 1 .. lastId
      /\ DOMAIN channels \subseteq ChannelIds /\ \A i \in DOMAIN channels : channels[i] \in Channel
      /\ put # NoPut => put.id \in ChannelIds /\ put.id <= lastId /\ put.row \in Channel
      /\ meddled \subseteq ChannelIds
  BY <1>1, ChannelFacts DEF IdsGivenOut
<1>3. ASSUME NEW name \in Names, CreateChannel(name)
      PROVE  ChannelsInv'
  <2> DEFINE c == [name |-> name, resolved_id |-> NoChat]
             i == lastId + 1
  <2>1. /\ lastId < MaxChannels /\ lastId' = i /\ channels' = WithChannel(i, c)
        /\ UNCHANGED <<posts, sync, put, given, meddled>>
    BY <1>3 DEF CreateChannel
  <2>2. c \in Channel /\ c.resolved_id = NoChat /\ i \in ChannelIds /\ i > lastId /\ i \in Nat /\ i <= MaxChannels
    BY <1>2, <2>1 DEF Channel, ChannelIds
  <2> HIDE DEF c, i
  <2>3. /\ DOMAIN channels' = DOMAIN channels \cup {i} /\ channels'[i] = c
        /\ \A j \in DOMAIN channels : j # i => channels'[j] = channels[j]
        /\ channels' \in [DOMAIN channels' -> Channel]
    BY <1>1, <2>1, <2>2, TableTypes
  <2>4. i \notin DOMAIN channels /\ Expected(i) = NoChat
    BY <2>2, ExpectedFacts
  <2>5. ChannelsTypeOK'
    <3>1. DOMAIN channels' \subseteq 1 .. lastId' /\ lastId' \in 0 .. MaxChannels
      BY <1>2, <2>1, <2>2, <2>3
    <3> QED
      BY <1>1, <2>1, <2>3, <3>1 DEF ChannelsTypeOK
  <2>6. \A j \in DOMAIN channels' \ meddled' : channels'[j].resolved_id = Expected(j)
    BY <2>1, <2>2, <2>3, <2>4, ExpectedFacts
  <2>7. \A j \in DOMAIN channels : j \in DOMAIN channels' /\ channels'[j] = channels[j]
    BY <2>3, <2>4
  <2>8. lastId <= lastId'
    BY <1>2, <2>1, <2>2
  <2> QED
    BY <2>1, <2>5, <2>6, <2>7, <2>8, TableKeepsChannels
<1>4. ASSUME NEW i \in DOMAIN channels, BeginPut(i)
      PROVE  ChannelsInv'
  <2>1. /\ put' = [pc |-> "put", id |-> i, row |-> channels[i]]
        /\ meddled \subseteq meddled' /\ meddled' \subseteq meddled \cup {i}
        /\ UNCHANGED <<channels, lastId, posts, sync, given>>
    BY <1>4 DEF BeginPut
  <2>2. ChannelsTypeOK'
    <3>1. put' \in [pc : {"put"}, id : ChannelIds, row : Channel]
      BY <1>2, <2>1
    <3>2. meddled' \subseteq ChannelIds
      BY <1>2, <2>1
    <3> QED
      BY <1>1, <2>1, <3>1, <3>2 DEF ChannelsTypeOK
  <2>3. put'.id \in DOMAIN channels' /\ put'.row = channels'[put'.id]
    BY <2>1
  <2>4. \A j \in DOMAIN channels' \ meddled' : channels'[j].resolved_id = Expected(j)
    BY <2>1, ExpectedFacts
  <2> QED
    BY <1>2, <2>1, <2>2, <2>3, <2>4, TableKeepsChannels
<1>5. ASSUME SavePut
      PROVE  ChannelsInv'
  <2>1. /\ put # NoPut /\ put' = NoPut /\ UNCHANGED <<lastId, posts, sync, given>>
        /\ put.id \in ChannelIds /\ put.id <= lastId /\ put.row \in Channel
    BY <1>2, <1>5 DEF SavePut
  <2>2. PICK c \in Channel :
            /\ channels' = WithChannel(put.id, c)
            /\ meddled \subseteq meddled' /\ meddled' \subseteq meddled \cup {put.id}
            /\ put.id \notin meddled' => c.resolved_id = put.row.resolved_id /\ ~ Touched(put.id)
    <3>1. CASE \E name \in Names :
                  /\ channels' = WithChannel(put.id, [put.row EXCEPT !.name = name])
                  /\ meddled' = meddled \cup IF Touched(put.id) THEN {put.id} ELSE {}
      <4>1. PICK name \in Names :
                /\ channels' = WithChannel(put.id, [put.row EXCEPT !.name = name])
                /\ meddled' = meddled \cup IF Touched(put.id) THEN {put.id} ELSE {}
        BY <3>1
      <4> DEFINE c == [put.row EXCEPT !.name = name]
      <4>2. c \in Channel /\ c.resolved_id = put.row.resolved_id
        BY <2>1 DEF Channel
      <4> QED
        BY <4>1, <4>2
    <3>2. CASE \E chat \in Chats \cup {NoChat} :
                  /\ channels' = WithChannel(put.id, [put.row EXCEPT !.resolved_id = chat])
                  /\ meddled' = meddled \cup {put.id}
      <4>1. PICK chat \in Chats \cup {NoChat} :
                /\ channels' = WithChannel(put.id, [put.row EXCEPT !.resolved_id = chat])
                /\ meddled' = meddled \cup {put.id}
        BY <3>2
      <4> DEFINE c == [put.row EXCEPT !.resolved_id = chat]
      <4>2. c \in Channel
        BY <2>1 DEF Channel
      <4> QED
        BY <4>1, <4>2
    <3> QED
      BY <1>5, <3>1, <3>2 DEF SavePut
  <2>3. /\ DOMAIN channels' = DOMAIN channels \cup {put.id} /\ channels'[put.id] = c
        /\ \A j \in DOMAIN channels : j # put.id => channels'[j] = channels[j]
        /\ channels' \in [DOMAIN channels' -> Channel]
    BY <1>1, <2>1, <2>2, TableTypes
  <2>4. ChannelsTypeOK'
    <3>1. DOMAIN channels' \subseteq 1 .. lastId'
      BY <1>2, <2>1, <2>3 DEF ChannelIds
    <3>2. meddled' \subseteq ChannelIds
      BY <1>2, <2>1, <2>2
    <3> QED
      BY <1>1, <2>1, <2>3, <3>1, <3>2 DEF ChannelsTypeOK
  <2>5. \A j \in DOMAIN channels' \ meddled' : channels'[j].resolved_id = Expected(j)
    BY <2>1, <2>2, <2>3, ExpectedFacts
  <2>6. \A j \in DOMAIN channels \ meddled' :
            sync.pc = "save" /\ sync.id = j => j \in DOMAIN channels' /\ channels'[j] = channels[j]
    BY <2>2, <2>3 DEF Touched
  <2> QED
    BY <1>2, <2>1, <2>2, <2>4, <2>5, <2>6, TableKeepsChannels
<1>6. ASSUME NEW i \in DOMAIN channels, DeleteChannel(i)
      PROVE  ChannelsInv'
  <2>1. /\ channels' = [j \in DOMAIN channels \ {i} |-> channels[j]]
        /\ meddled' = meddled \cup IF Touched(i) \/ (put # NoPut /\ put.id = i) THEN {i} ELSE {}
        /\ UNCHANGED <<lastId, posts, sync, put, given>>
    BY <1>6 DEF DeleteChannel
  <2>2. DOMAIN channels' = DOMAIN channels \ {i} /\ \A j \in DOMAIN channels' : channels'[j] = channels[j]
    BY <2>1
  <2>3. ChannelsTypeOK'
    <3>1. channels' \in [DOMAIN channels' -> Channel]
      BY <1>2, <2>1
    <3>2. meddled' \subseteq ChannelIds /\ DOMAIN channels' \subseteq 1 .. lastId'
      BY <1>2, <2>1, <2>2
    <3> QED
      BY <1>1, <2>1, <3>1, <3>2 DEF ChannelsTypeOK
  <2>4. \A j \in DOMAIN channels' \ meddled' : channels'[j].resolved_id = Expected(j)
    BY <2>1, <2>2, ExpectedFacts
  <2>5. \A j \in DOMAIN channels \ meddled' :
            (put' # NoPut /\ put'.id = j) \/ (sync.pc = "save" /\ sync.id = j)
              => j \in DOMAIN channels' /\ channels'[j] = channels[j]
    BY <2>1, <2>2 DEF Touched
  <2>6. put' = put /\ meddled \subseteq meddled' /\ UNCHANGED <<sync, given>> /\ lastId <= lastId'
    BY <1>2, <2>1
  <2> QED
    BY <2>3, <2>4, <2>5, <2>6, TableKeepsChannels
<1> QED
  BY <1>3, <1>4, <1>5, <1>6

\* A channel gets the chat of a post.
LEMMA ResolutionKeepsChannels ==
    ASSUME ChannelsInv, ResolveChannel
    PROVE  ChannelsInv'
<1> DEFINE i == sync.id
           chat == Head(sync.todo).chat
<1>1. ChannelsTypeOK /\ IdsGivenOut /\ Undisturbed
  BY DEF ChannelsInv
<1>2. /\ sync.pc = "save" /\ sync.todo \in Seq(Post) /\ sync.todo # << >> /\ i \in ChannelIds /\ i <= lastId
      /\ lastId \in Nat /\ \A j \in DOMAIN channels : channels[j] \in Channel
      /\ \A j \in DOMAIN given : given[j] \in Chats
      /\ meddled \subseteq ChannelIds /\ NoChat \notin Chats
      /\ DOMAIN channels \subseteq 1 .. lastId
  BY <1>1, ChannelFacts DEF ResolveChannel, IdsGivenOut
<1>3. /\ meddled \subseteq meddled' /\ meddled' \subseteq meddled \cup {i} /\ UNCHANGED <<lastId, posts, put>>
      /\ put # NoPut /\ put.id = i => i \in meddled'
      /\ IF i \in DOMAIN channels
         THEN /\ channels' = [channels EXCEPT ![i].resolved_id = chat]
              /\ given' = IF i \in DOMAIN given THEN given
                          ELSE [j \in DOMAIN given \cup {i} |-> IF j = i THEN chat ELSE given[j]]
              /\ sync' = Rest(sync.todo)
         ELSE sync' = NoSync /\ UNCHANGED <<channels, given>>
  BY DEF ResolveChannel
<1>4. chat \in Chats
  <2>1. Head(sync.todo) \in Post
    BY <1>2
  <2> QED
    BY <2>1 DEF Post
<1>5. /\ sync' \in {NoSync} \cup [pc : {"find"}, todo : Seq(Post)] /\ sync'.pc # "save"
      /\ sync'.pc # "idle" => sync'.todo # << >>
  BY <1>2, <1>3, RestTypes DEF NoSync
<1>6. i \in 1 .. lastId
  BY <1>2 DEF ChannelIds
<1> HIDE DEF chat, i
<1>7. /\ DOMAIN channels' = DOMAIN channels
      /\ \A j \in DOMAIN channels : j # i => channels'[j] = channels[j]
      /\ i \in DOMAIN channels => channels'[i].resolved_id = chat /\ channels'[i] \in Channel
      /\ channels' \in [DOMAIN channels' -> Channel]
  <2>1. CASE i \in DOMAIN channels
    <3> DEFINE c == [channels[i] EXCEPT !.resolved_id = chat]
    <3>1. c \in Channel /\ c.resolved_id = chat
      BY <1>2, <1>4, <2>1 DEF Channel
    <3>2. channels' = [channels EXCEPT ![i] = c]
      BY <1>3, <2>1
    <3>3. channels = [j \in DOMAIN channels |-> channels[j]]
      BY <1>1, ChannelFacts
    <3> HIDE DEF c
    <3>4. /\ DOMAIN channels' = DOMAIN channels
          /\ \A j \in DOMAIN channels : channels'[j] = IF j = i THEN c ELSE channels[j]
          /\ channels' = [j \in DOMAIN channels' |-> channels'[j]]
      BY <3>2, <3>3
    <3>5. \A j \in DOMAIN channels' : channels'[j] \in Channel
      BY <1>2, <3>1, <3>4
    <3> QED
      BY <2>1, <3>1, <3>4, <3>5
  <2>2. CASE i \notin DOMAIN channels
    <3>1. channels \in [DOMAIN channels -> Channel]
      BY <1>1 DEF ChannelsTypeOK
    <3> QED
      BY <1>3, <2>2, <3>1
  <2> QED
    BY <2>1, <2>2
<1>8. /\ \A j : j # i => (j \in DOMAIN given' <=> j \in DOMAIN given)
      /\ \A j \in DOMAIN given : j \in DOMAIN given' /\ given'[j] = given[j]
      /\ i \in DOMAIN channels => i \in DOMAIN given'
      /\ i \in DOMAIN channels /\ i \notin DOMAIN given => given'[i] = chat
      /\ DOMAIN given' \subseteq DOMAIN given \cup {i}
      /\ given' \in [DOMAIN given' -> Chats]
  <2>1. CASE given' = given
    <3>1. given \in [DOMAIN given -> Chats]
      BY <1>1 DEF ChannelsTypeOK
    <3>2. i \in DOMAIN channels => i \in DOMAIN given
      BY <1>3, <2>1
    <3> QED
      BY <2>1, <3>1, <3>2
  <2>2. CASE given' # given
    <3>1. /\ i \notin DOMAIN given
          /\ given' = [j \in DOMAIN given \cup {i} |-> IF j = i THEN chat ELSE given[j]]
      BY <1>3, <2>2
    <3>2. /\ DOMAIN given' = DOMAIN given \cup {i} /\ given'[i] = chat
          /\ \A j \in DOMAIN given : given'[j] = given[j]
          /\ given' = [j \in DOMAIN given' |-> given'[j]]
      BY <3>1
    <3>3. \A j \in DOMAIN given' : given'[j] \in Chats
      BY <1>2, <1>4, <3>2
    <3> QED
      BY <3>1, <3>2, <3>3
  <2> QED
    BY <2>1, <2>2
<1>9. ChannelsTypeOK'
  <2>1. DOMAIN given' \subseteq ChannelIds /\ meddled' \subseteq ChannelIds
    BY <1>1, <1>2, <1>3, <1>8 DEF ChannelsTypeOK
  <2>2. DOMAIN channels' \subseteq 1 .. lastId'
    BY <1>2, <1>3, <1>7
  <2> QED
    BY <1>1, <1>3, <1>5, <1>7, <1>8, <2>1, <2>2 DEF ChannelsTypeOK
<1>10. IdsGivenOut'
  BY <1>1, <1>3, <1>5, <1>6, <1>8 DEF IdsGivenOut
<1>11. i \in DOMAIN channels /\ i \notin meddled => i \notin DOMAIN given
  <2>1. i \notin meddled => channels[i].resolved_id = NoChat
    BY <1>1, <1>2 DEF Undisturbed, i
  <2>2. i \in DOMAIN channels /\ i \notin meddled => channels[i].resolved_id = Expected(i)
    BY ExpectedFacts
  <2> QED
    BY <1>2, <2>1, <2>2 DEF Expected
<1>12. Undisturbed'
  <2>1. ASSUME put' # NoPut, put'.id \notin meddled'
        PROVE  put'.id \in DOMAIN channels' /\ put'.row.resolved_id = channels'[put'.id].resolved_id
    <3>1. put' = put /\ put.id # i /\ put.id \notin meddled
      BY <1>3, <2>1
    <3> QED
      BY <1>1, <1>7, <2>1, <3>1 DEF Undisturbed
  <2> QED
    BY <1>5, <2>1 DEF Undisturbed
<1>13. ResolvedOnce'
  <2> SUFFICES ASSUME NEW j \in DOMAIN channels', j \notin meddled'
               PROVE  channels'[j].resolved_id = IF j \in DOMAIN given' THEN given'[j] ELSE NoChat
    BY DEF ResolvedOnce
  <2>1. CASE j = i
    BY <1>3, <1>7, <1>8, <1>11, <2>1
  <2>2. CASE j # i
    <3>1. channels[j].resolved_id = IF j \in DOMAIN given THEN given[j] ELSE NoChat
      BY <1>3, <1>7, ExpectedFacts DEF Expected
    <3> QED
      BY <1>7, <1>8, <2>2, <3>1
  <2> QED
    BY <2>1, <2>2
<1> QED
  BY <1>9, <1>10, <1>12, <1>13 DEF ChannelsInv

\* The invariant holds at first.
LEMMA ChannelsInitially == ChannelsInit => ChannelsInv
<1> SUFFICES ASSUME ChannelsInit PROVE ChannelsInv
  OBVIOUS
<1>1. /\ channels = << >> /\ lastId = 0 /\ posts = << >> /\ sync = NoSync /\ put = NoPut
      /\ given = << >> /\ meddled = {} /\ sync.pc = "idle"
  BY DEF ChannelsInit, NoSync
<1>2. /\ DOMAIN channels = {} /\ channels \in [{} -> Channel] /\ given \in [{} -> Chats] /\ DOMAIN given = {}
      /\ posts \in Seq(Post) /\ Len(posts) = 0
  BY <1>1
<1>3. MaxChannels \in Nat /\ MaxPosts \in Nat
  BY ChannelAssumption
<1>4. ChannelsTypeOK
  BY <1>1, <1>2, <1>3 DEF ChannelsTypeOK
<1> QED
  BY <1>1, <1>2, <1>4 DEF ChannelsInv, IdsGivenOut, Undisturbed, ResolvedOnce

\* It holds after every step.
LEMMA ChannelsKept == ChannelsInv /\ [ChannelsNext]_channelVars => ChannelsInv'
<1> SUFFICES ASSUME ChannelsInv, [ChannelsNext]_channelVars PROVE ChannelsInv'
  OBVIOUS
<1>1. CASE UNCHANGED channelVars
  <2>1. UNCHANGED <<channels, lastId, posts, sync, put, given, meddled>>
    BY <1>1 DEF channelVars
  <2> QED
    BY <2>1 DEF ChannelsInv, ChannelsTypeOK, IdsGivenOut, Undisturbed, ResolvedOnce
<1>2. CASE ChannelsNext
  BY <1>2, PassKeepsChannels, EditsKeepChannels, ResolutionKeepsChannels DEF ChannelsNext
<1> QED
  BY <1>1, <1>2

\* Channels have their types however many there are.
THEOREM ChannelTypesCorrect == ChannelsSpec => []ChannelsTypeOK
<1>1. ChannelsInv => ChannelsTypeOK
  BY DEF ChannelsInv
<1> QED
  BY <1>1, ChannelsInitially, ChannelsKept, PTL DEF ChannelsSpec

\* A channel keeps the chat it was given first, unless a PUT has set another or
\* has overlapped the save.
THEOREM ResolutionCorrect == ChannelsSpec => []ResolvedOnce
<1>1. ChannelsInv => ResolvedOnce
  BY DEF ChannelsInv
<1> QED
  BY <1>1, ChannelsInitially, ChannelsKept, PTL DEF ChannelsSpec

-----------------------------------------------------------------------------
(* SignIn: the inductive invariant *)

Counting == {w \in Workers : At(w, "count")}
First == {w \in Workers : At(w, "count") /\ worker[w].attempts = 0}

\* As long as nothing has overlapped, one worker at a time is about to count,
\* and the key is as the worker has read it, unless it has gone.
OneCounts ==
    ~ raced =>
        /\ \A v, w \in Counting : v = w
        /\ \A w \in Counting : hits = worker[w].attempts \/ hits = 0
        /\ hits = admitted /\ admitted <= Limit

\* The key cannot run away from the limit by more than the workers that have
\* read it.
HitsBound == hits + Cardinality(Counting) + 1 <= Limit + Cardinality(Workers)

\* Attempts that the key does not show were let through before a worker set it
\* back to 1, which each of the workers that read no key can do once.
Losses(m) == m * (2 * (Limit - 1) + m + 1)
LossBound ==
    /\ hits = 0 => admitted = 0
    /\ hits > 0 => /\ Cardinality(First) <= Cardinality(Workers) - 1
                   /\ hits <= admitted
                   /\ 2 * (admitted - hits) <= Losses(Cardinality(Workers) - 1 - Cardinality(First))

\* An edit that nothing has overlapped has loaded the row as it still is.
OneEdits ==
    ~ editRaced =>
        /\ account = owed
        /\ \A v, w \in Workers : At(v, "edit") /\ At(w, "edit") => v = w
        /\ \A w \in Workers : At(w, "edit") => worker[w].row = account

SignInInv == SignInTypeOK /\ OneCounts /\ HitsBound /\ LossBound /\ OneEdits

\* Arithmetic: what one more worker may lose, and what all of them may.
LEMMA LossesGrow ==
    ASSUME NEW m \in Nat
    PROVE  /\ Losses(m) \in Nat
           /\ Losses(m + 1) = Losses(m) + 2 * (Limit - 1) + 2 * (m + 1)
           /\ \A n \in Nat : m < n =>
                 2 * Limit + 2 * m + Losses(m) <= 2 * (n * Limit) + n * (n - 1)
<1> DEFINE L == Limit
<1>1. L \in Nat /\ L >= 1
  BY SignInAssumption
<1>2. Losses(m) = m * (2 * (L - 1) + m + 1) /\ Losses(m + 1) = (m + 1) * (2 * (L - 1) + (m + 1) + 1)
  BY DEF Losses
<1>3. L = Limit
  OBVIOUS
<1> HIDE DEF L
<1>4. Losses(m) \in Nat
  <2>1. 2 * (L - 1) + m + 1 \in Nat
    BY <1>1
  <2> QED
    BY <1>2, <2>1
<1>5. m * (2 * (L - 1) + m + 1) = 2 * (m * L) - m + m * m
  BY <1>1
<1>6. (m + 1) * (2 * (L - 1) + (m + 1) + 1) = 2 * (m * L) + m * m + m + 2 * L
  BY <1>1
<1>7. Losses(m + 1) = Losses(m) + 2 * (L - 1) + 2 * (m + 1)
  BY <1>1, <1>2, <1>5, <1>6
<1>8. ASSUME NEW n \in Nat, m < n
      PROVE  2 * L + 2 * m + Losses(m) <= 2 * (n * L) + n * (n - 1)
  <2> DEFINE d == n - 1 - m
  <2>1. d \in Nat /\ n = m + 1 + d
    BY <1>8
  <2> HIDE DEF d
  <2>2. 2 * (n * L) + n * (n - 1) = 2 * (m * L) + 2 * L + m * m + m + 2 * (d * L) + d * (m + 1) + d * m + d * d
    BY <1>1, <2>1
  <2>3. d * L \in Nat /\ d * (m + 1) \in Nat /\ d * m \in Nat /\ d * d \in Nat /\ m * L \in Nat /\ m * m \in Nat
    BY <1>1, <2>1
  <2> QED
    BY <1>1, <1>2, <1>5, <2>2, <2>3
<1> QED
  BY <1>3, <1>4, <1>7, <1>8

\* Arithmetic: half of a sum, rounded down.
LEMMA HalfBound ==
    ASSUME NEW x \in Int, NEW a \in Int, NEW q \in Int, 2 * x <= 2 * a + q
    PROVE  x <= a + (q \div 2)
OBVIOUS

\* The workers that are about to count.
LEMMA CountingFacts ==
    /\ IsFiniteSet(Counting) /\ IsFiniteSet(First) /\ IsFiniteSet(Workers)
    /\ Cardinality(Counting) \in Nat /\ Cardinality(First) \in Nat /\ Cardinality(Workers) \in Nat
    /\ Cardinality(First) <= Cardinality(Counting)
    /\ Cardinality(Counting) <= Cardinality(Workers)
    /\ Limit \in Nat /\ Limit >= 1
<1>1. IsFiniteSet(Workers) /\ Limit \in Nat /\ Limit >= 1
  BY SignInAssumption
<1>2. Counting \subseteq Workers /\ First \subseteq Counting
  BY DEF Counting, First
<1>3. IsFiniteSet(Counting) /\ Cardinality(Counting) <= Cardinality(Workers)
  BY <1>1, <1>2, FS_Subset
<1>4. IsFiniteSet(First) /\ Cardinality(First) <= Cardinality(Counting)
  BY <1>2, <1>3, FS_Subset
<1> QED
  BY <1>1, <1>3, <1>4, FS_CardinalityType

\* The worker w goes on with r.
LEMMA WorkerMoves ==
    ASSUME SignInTypeOK, NEW w \in Workers, NEW r, To(w, r)
    PROVE  /\ worker'[w] = r
           /\ \A v \in Workers : v # w => worker'[v] = worker[v]
           /\ \A S : worker \in [Workers -> S] /\ r \in S => worker' \in [Workers -> S]
BY DEF SignInTypeOK, To

\* What its going on does to those sets.
LEMMA CountingMoves ==
    ASSUME SignInTypeOK, NEW w \in Workers, NEW r, To(w, r)
    PROVE  /\ r.pc # "count" /\ ~ At(w, "count") => Counting' = Counting /\ First' = First
           /\ r.pc = "count" /\ ~ At(w, "count") =>
                 /\ Counting' = Counting \cup {w} /\ w \notin Counting
                 /\ Cardinality(Counting') = Cardinality(Counting) + 1
                 /\ Cardinality(Counting') <= Cardinality(Workers)
                 /\ r.attempts # 0 => First' = First
           /\ r.pc # "count" /\ At(w, "count") =>
                 /\ Counting' = Counting \ {w} /\ w \in Counting
                 /\ Cardinality(Counting') = Cardinality(Counting) - 1
                 /\ worker[w].attempts # 0 => First' = First
                 /\ worker[w].attempts = 0 => Cardinality(First') = Cardinality(First) - 1
<1>1. worker'[w] = r /\ \A v \in Workers : v # w => worker'[v] = worker[v]
  BY WorkerMoves
<1>2. /\ Counting = {v \in Workers : worker[v].pc = "count"}
      /\ Counting' = {v \in Workers : worker'[v].pc = "count"}
      /\ First = {v \in Workers : worker[v].pc = "count" /\ worker[v].attempts = 0}
      /\ First' = {v \in Workers : worker'[v].pc = "count" /\ worker'[v].attempts = 0}
      /\ At(w, "count") <=> worker[w].pc = "count"
  BY DEF Counting, First, At
<1>3. IsFiniteSet(Counting) /\ IsFiniteSet(First) /\ IsFiniteSet(Workers)
  BY CountingFacts
<1>4. ASSUME r.pc # "count", ~ At(w, "count")
      PROVE  Counting' = Counting /\ First' = First
  BY <1>1, <1>2, <1>4
<1>5. ASSUME r.pc = "count", ~ At(w, "count")
      PROVE  /\ Counting' = Counting \cup {w} /\ w \notin Counting
             /\ Cardinality(Counting') = Cardinality(Counting) + 1
             /\ Cardinality(Counting') <= Cardinality(Workers)
             /\ r.attempts # 0 => First' = First
  <2>1. Counting' = Counting \cup {w} /\ w \notin Counting /\ Counting' \subseteq Workers
    BY <1>1, <1>2, <1>5
  <2>2. Cardinality(Counting') = Cardinality(Counting) + 1
    BY <1>3, <2>1, FS_AddElement
  <2>3. Cardinality(Counting') <= Cardinality(Workers)
    BY <1>3, <2>1, FS_Subset
  <2>4. r.attempts # 0 => First' = First
    BY <1>1, <1>2, <1>5
  <2> QED
    BY <2>1, <2>2, <2>3, <2>4
<1>6. ASSUME r.pc # "count", At(w, "count")
      PROVE  /\ Counting' = Counting \ {w} /\ w \in Counting
             /\ Cardinality(Counting') = Cardinality(Counting) - 1
             /\ worker[w].attempts # 0 => First' = First
             /\ worker[w].attempts = 0 => Cardinality(First') = Cardinality(First) - 1
  <2>1. Counting' = Counting \ {w} /\ w \in Counting
    BY <1>1, <1>2, <1>6
  <2>2. Cardinality(Counting') = Cardinality(Counting) - 1
    BY <1>3, <2>1, FS_RemoveElement
  <2>3. worker[w].attempts # 0 => First' = First
    BY <1>1, <1>2, <1>6
  <2>4. ASSUME worker[w].attempts = 0
        PROVE  Cardinality(First') = Cardinality(First) - 1
    <3>1. First' = First \ {w} /\ w \in First
      BY <1>1, <1>2, <1>6, <2>4
    <3> QED
      BY <1>3, <3>1, FS_RemoveElement
  <2> QED
    BY <2>1, <2>2, <2>3, <2>4
<1> QED
  BY <1>4, <1>5, <1>6

\* What a worker may be doing.
Tasks == {Idle} \cup [pc : {"count"}, attempts : 0 .. Limit - 1]
            \cup [pc : {"password", "reset"}] \cup [pc : {"edit"}, row : Account]

\* What the type invariant says of each worker and number.
LEMMA SignInFacts ==
    ASSUME SignInTypeOK
    PROVE  /\ worker \in [Workers -> Tasks]
           /\ hits \in Nat /\ admitted \in Nat /\ raced \in BOOLEAN /\ editRaced \in BOOLEAN
           /\ users \in Nat /\ users <= MaxUsers /\ MaxUsers \in Nat
           /\ \A w \in Workers :
                 /\ At(w, "count") => worker[w].attempts \in 0 .. Limit - 1 /\ worker[w].attempts \in Int
                 /\ At(w, "edit") => worker[w].row \in Account
           /\ account \in Account => account # NoAccount /\ account.pk \in Nat /\ account.pk >= 1
           /\ Idle \in Tasks /\ [pc |-> "password"] \in Tasks /\ [pc |-> "reset"] \in Tasks
<1>1. worker \in [Workers -> Tasks]
  BY DEF SignInTypeOK, Tasks
<1>2. hits \in Nat /\ users \in Nat /\ users <= MaxUsers /\ MaxUsers \in Nat
  <2>1. Limit + Cardinality(Workers) \in Nat
    BY CountingFacts
  <2> QED
    BY <2>1, SignInAssumption DEF SignInTypeOK
<1>3. ASSUME NEW w \in Workers
      PROVE  /\ At(w, "count") => worker[w].attempts \in 0 .. Limit - 1 /\ worker[w].attempts \in Int
             /\ At(w, "edit") => worker[w].row \in Account
  <2>1. worker[w] \in Tasks
    BY <1>1
  <2>2. /\ At(w, "count") => worker[w].attempts \in 0 .. Limit - 1
        /\ At(w, "edit") => worker[w].row \in Account
    BY <2>1 DEF Tasks, Idle, At
  <2> QED
    BY <2>2
<1>4. account \in Account => account # NoAccount /\ account.pk \in Nat /\ account.pk >= 1
  BY DEF Account, NoAccount
<1>5. Idle \in Tasks /\ [pc |-> "password"] \in Tasks /\ [pc |-> "reset"] \in Tasks
  BY DEF Tasks
<1> QED
  BY <1>1, <1>2, <1>3, <1>4, <1>5 DEF SignInTypeOK

\* Nobody begins to count or stops it, and the key stays.
LEMMA CountingStays ==
    ASSUME SignInInv, Counting' = Counting, First' = First, UNCHANGED <<hits, admitted, raced>>,
           \A w \in Counting : worker'[w] = worker[w]
    PROVE  OneCounts' /\ HitsBound' /\ LossBound'
<1>1. OneCounts'
  BY DEF SignInInv, OneCounts
<1>2. HitsBound'
  BY DEF SignInInv, HitsBound
<1>3. LossBound'
  <2>1. LossBound
    BY DEF SignInInv
  <2>2. Cardinality(First') = Cardinality(First)
    OBVIOUS
  <2> QED
    BY <2>1, <2>2 DEF LossBound, Losses
<1> QED
  BY <1>1, <1>2, <1>3

\* Nobody begins to edit, and the row stays.
LEMMA EditingStays ==
    ASSUME SignInInv, UNCHANGED <<account, owed, editRaced>>,
           \A w \in Workers : At(w, "edit")' => worker'[w] = worker[w]
    PROVE  OneEdits'
BY DEF SignInInv, OneEdits, At

\* The key goes while nobody begins to count or stops it.
LEMMA KeyGoesKeeps ==
    ASSUME SignInInv, KeyGoes, Counting' = Counting, First' = First,
           \A w \in Counting : worker'[w] = worker[w]
    PROVE  OneCounts' /\ HitsBound' /\ LossBound' /\ hits' \in Nat /\ admitted' \in Nat /\ raced' \in BOOLEAN
<1>1. /\ hits' = 0 /\ admitted' = 0 /\ (raced' <=> Cardinality(Counting) > 1) /\ raced' \in BOOLEAN
  <2>1. Counting = {w \in Workers : At(w, "count")}
    BY DEF Counting
  <2>2. hits' = 0 /\ admitted' = 0 /\ raced' = (Cardinality(Counting) > 1)
    BY <2>1, Zenon DEF KeyGoes
  <2>3. (raced' <=> Cardinality(Counting) > 1) /\ raced' \in BOOLEAN
    <3> DEFINE many == Cardinality(Counting) > 1
    <3>1. raced' = many /\ many \in BOOLEAN
      BY <2>2
    <3>2. (raced' <=> many) /\ raced' \in BOOLEAN
      <4> HIDE DEF many
      <4> QED
        BY <3>1, Zenon
    <3> QED
      BY <3>2
  <2> QED
    BY <2>2, <2>3
<1>2. OneCounts'
  <2> SUFFICES ASSUME ~ raced'
               PROVE  /\ \A v, w \in Counting' : v = w
                      /\ \A w \in Counting' : hits' = worker'[w].attempts \/ hits' = 0
                      /\ hits' = admitted' /\ admitted' <= Limit
    BY DEF OneCounts
  <2>1. Cardinality(Counting) \in Nat /\ Cardinality(Counting) <= 1 /\ IsFiniteSet(Counting)
    BY <1>1, CountingFacts
  <2>2. ASSUME NEW v \in Counting, NEW w \in Counting
        PROVE  v = w
    <3>1. Cardinality(Counting) # 0
      BY <2>1, <2>2, FS_EmptySet
    <3>2. Cardinality(Counting) = 1
      BY <2>1, <3>1
    <3>3. PICK x : Counting = {x}
      BY <2>1, <3>2, FS_Singleton
    <3> QED
      BY <2>2, <3>3
  <2> QED
    BY <1>1, <2>2, CountingFacts
<1>3. HitsBound'
  BY <1>1, CountingFacts DEF HitsBound
<1>4. LossBound'
  BY <1>1 DEF LossBound
<1> QED
  BY <1>1, <1>2, <1>3, <1>4

\* Reading the key: another worker is about to count.
LEMMA ReadKeeps ==
    ASSUME SignInInv, NEW w \in Workers, ReadAttempts(w)
    PROVE  SignInInv'
<1> DEFINE r == [pc |-> "count", attempts |-> hits]
<1>1. SignInTypeOK /\ OneCounts /\ HitsBound /\ LossBound /\ OneEdits
  BY DEF SignInInv
<1>2. /\ ~ At(w, "count") /\ At(w, "idle") /\ hits < Limit /\ To(w, r)
      /\ (raced' <=> raced \/ Others(w, "count") # {}) /\ raced' \in BOOLEAN
      /\ UNCHANGED <<hits, account, users, admitted, owed, editRaced>>
  BY DEF ReadAttempts, At
<1>3. hits \in Nat /\ Limit \in Nat /\ r \in Tasks /\ r.pc = "count" /\ r.attempts = hits
      /\ worker \in [Workers -> Tasks]
  <2>1. hits \in Nat /\ Limit \in Nat /\ worker \in [Workers -> Tasks]
    BY <1>1, SignInFacts, CountingFacts
  <2>2. hits \in 0 .. Limit - 1
    BY <1>2, <2>1
  <2> QED
    BY <2>1, <2>2 DEF Tasks
<1> HIDE DEF r
<1>4. /\ worker'[w] = r /\ \A v \in Workers : v # w => worker'[v] = worker[v]
      /\ worker' \in [Workers -> Tasks]
  BY <1>1, <1>2, <1>3, WorkerMoves
<1>5. /\ Counting' = Counting \cup {w} /\ w \notin Counting
      /\ Cardinality(Counting') = Cardinality(Counting) + 1
      /\ Cardinality(Counting') <= Cardinality(Workers)
      /\ hits # 0 => First' = First
  BY <1>1, <1>2, <1>3, CountingMoves
<1>6. SignInTypeOK'
  BY <1>1, <1>2, <1>4 DEF SignInTypeOK, Tasks
<1>7. OneCounts'
  <2> SUFFICES ASSUME ~ raced'
               PROVE  /\ \A v, x \in Counting' : v = x
                      /\ \A v \in Counting' : hits' = worker'[v].attempts \/ hits' = 0
                      /\ hits' = admitted' /\ admitted' <= Limit
    BY DEF OneCounts
  <2>1. Counting' = {w}
    BY <1>2, <1>5 DEF Others, Counting
  <2> QED
    BY <1>1, <1>2, <1>3, <1>4, <2>1 DEF OneCounts
<1>8. HitsBound'
  BY <1>2, <1>3, <1>5, CountingFacts DEF HitsBound
<1>9. LossBound'
  <2>1. hits > 0 => Cardinality(First') = Cardinality(First)
    BY <1>3, <1>5
  <2> QED
    BY <1>1, <1>2, <2>1 DEF LossBound, Losses
<1>10. OneEdits'
  <2>1. \A v \in Workers : At(v, "edit")' => worker'[v] = worker[v]
    BY <1>3, <1>4 DEF At
  <2> QED
    BY <1>2, <2>1, EditingStays
<1> QED
  BY <1>6, <1>7, <1>8, <1>9, <1>10 DEF SignInInv

\* Counting: the worker lets its attempt through, or the key is no longer there.
LEMMA CountKeeps ==
    ASSUME SignInInv, NEW w \in Workers, CountFirst(w) \/ CountNext(w) \/ CountFails(w)
    PROVE  SignInInv'
<1> DEFINE a == worker[w].attempts
           C == Cardinality(Counting)
           Z == Cardinality(First)
           N == Cardinality(Workers)
           C2 == Cardinality(Counting')
           Z2 == Cardinality(First')
<1>1. SignInTypeOK /\ OneCounts /\ HitsBound /\ LossBound /\ OneEdits
  BY DEF SignInInv
<1>2. PICK r \in {[pc |-> "password"], Idle} :
          /\ At(w, "count") /\ To(w, r) /\ UNCHANGED <<account, users, owed, editRaced, raced>>
          /\ \/ a = 0 /\ hits' = 1 /\ admitted' = admitted + 1
             \/ a > 0 /\ hits > 0 /\ hits' = hits + 1 /\ admitted' = admitted + 1
             \/ a > 0 /\ hits = 0 /\ UNCHANGED <<hits, admitted>>
  BY DEF CountFirst, CountNext, CountFails, Admit
<1>3. /\ hits \in Nat /\ admitted \in Nat /\ a \in 0 .. Limit - 1 /\ a \in Int /\ Limit \in Nat /\ Limit >= 1
      /\ r \in Tasks /\ r.pc # "count" /\ r.pc # "edit" /\ worker \in [Workers -> Tasks]
  BY <1>1, <1>2, SignInFacts, CountingFacts DEF Idle
<1>4. /\ worker'[w] = r /\ \A v \in Workers : v # w => worker'[v] = worker[v]
      /\ worker' \in [Workers -> Tasks]
  BY <1>1, <1>2, <1>3, WorkerMoves
<1>5. /\ Counting' = Counting \ {w} /\ w \in Counting /\ C2 = C - 1
      /\ a # 0 => First' = First
      /\ a = 0 => Z2 = Z - 1
  BY <1>1, <1>2, <1>3, CountingMoves
<1>6. C \in Nat /\ Z \in Nat /\ N \in Nat /\ Z <= C /\ C <= N
  BY CountingFacts
<1>7. a # 0 => Z2 = Z
  BY <1>5
<1>8. /\ C = Cardinality(Counting) /\ Z = Cardinality(First) /\ N = Cardinality(Workers)
      /\ C2 = Cardinality(Counting') /\ Z2 = Cardinality(First') /\ a = worker[w].attempts
  OBVIOUS
<1> HIDE DEF a, C, Z, N, C2, Z2
<1>9. hits + C + 1 <= Limit + N /\ hits' + C2 + 1 <= Limit + N /\ hits' \in Nat /\ admitted' \in Nat /\ C2 \in Nat
  <2>1. hits + C + 1 <= Limit + N
    BY <1>1, <1>8 DEF HitsBound
  <2>2. C # 0
    BY <1>5, <1>8, CountingFacts, FS_EmptySet
  <2>3. C2 = C - 1 /\ C2 \in Nat
    BY <1>5, <1>6, <2>2
  <2>4. hits' <= hits + 1 /\ hits' \in Nat /\ admitted' \in Nat
    BY <1>2, <1>3
  <2>5. hits' + C2 + 1 <= Limit + N
    <3>1. hits \in Nat /\ C \in Nat /\ N \in Nat /\ Limit \in Nat
      BY <1>3, <1>6
    <3>2. PICK h \in Nat : h = hits'
      BY <2>4
    <3>3. PICK d \in Nat : d = C2
      BY <2>3
    <3>4. h <= hits + 1
      BY <2>4, <3>2
    <3>5. d = C - 1
      BY <2>3, <3>3
    <3>6. h + d + 1 <= Limit + N
      BY <2>1, <3>1, <3>4, <3>5
    <3> QED
      BY <3>2, <3>3, <3>6
  <2> QED
    BY <2>1, <2>3, <2>4, <2>5
<1>10. HitsBound'
  BY <1>8, <1>9 DEF HitsBound
<1>11. OneCounts'
  <2> SUFFICES ASSUME ~ raced'
               PROVE  /\ \A v, x \in Counting' : v = x
                      /\ \A v \in Counting' : hits' = worker'[v].attempts \/ hits' = 0
                      /\ hits' = admitted' /\ admitted' <= Limit
    BY DEF OneCounts
  <2>1. /\ \A v, x \in Counting : v = x
        /\ hits = a \/ hits = 0
        /\ hits = admitted
    BY <1>1, <1>2, <1>5, <1>8 DEF OneCounts
  <2>2. Counting' = {}
    BY <1>5, <2>1
  <2>3. hits' = admitted' /\ admitted' <= Limit
    BY <1>2, <1>3, <2>1
  <2> QED
    BY <2>2, <2>3
<1>12. LossBound'
  <2>1. hits = 0 => admitted = 0
    BY <1>1 DEF LossBound
  <2>2. hits > 0 => Z <= N - 1 /\ hits <= admitted /\ 2 * (admitted - hits) <= Losses(N - 1 - Z)
    BY <1>1, <1>8 DEF LossBound
  <2> SUFFICES /\ hits' = 0 => admitted' = 0
               /\ hits' > 0 => Z2 <= N - 1 /\ hits' <= admitted' /\ 2 * (admitted' - hits') <= Losses(N - 1 - Z2)
    BY <1>8 DEF LossBound, Losses
  <2>3. CASE a > 0 /\ hits = 0
    BY <1>2, <1>3, <2>1, <2>3
  <2>4. CASE a > 0 /\ hits > 0
    <3>1. Z2 = Z /\ hits' = hits + 1 /\ admitted' = admitted + 1 /\ admitted' - hits' = admitted - hits
      BY <1>2, <1>3, <1>7, <2>4
    <3> QED
      BY <1>3, <2>2, <2>4, <3>1
  <2>5. CASE a = 0
    <3>1. Z2 = Z - 1 /\ hits' = 1 /\ admitted' = admitted + 1
      BY <1>2, <1>5, <2>5
    <3>2. CASE hits = 0
      <4> DEFINE m == N - Z
      <4>1. m \in Nat /\ N - 1 - Z2 = m
        BY <1>6, <3>1
      <4> HIDE DEF m
      <4>2. Losses(m) \in Nat
        BY <4>1, LossesGrow
      <4>3. admitted' - hits' = 0 /\ hits' > 0 /\ Z2 <= N - 1
        BY <1>3, <1>6, <2>1, <3>1, <3>2
      <4> QED
        BY <3>1, <4>1, <4>2, <4>3
    <3>3. CASE hits > 0
      <4> DEFINE m == N - 1 - Z
      <4>1. m \in Nat /\ N - 1 - Z2 = m + 1 /\ N - 1 - Z = m
        BY <1>6, <2>2, <3>1, <3>3
      <4> HIDE DEF m
      <4>2. Losses(m) \in Nat /\ Losses(m + 1) = Losses(m) + 2 * (Limit - 1) + 2 * (m + 1)
        BY <4>1, LossesGrow
      <4>3. 2 * (admitted - hits) <= Losses(m)
        BY <2>2, <3>3, <4>1
      <4>4. hits <= Limit + m
        BY <1>3, <1>6, <1>9, <4>1
      <4>5. 2 * (admitted' - hits') <= Losses(m + 1)
        BY <1>3, <3>1, <4>1, <4>2, <4>3, <4>4
      <4>6. Z2 <= N - 1 /\ hits' <= admitted'
        BY <1>3, <1>6, <3>1
      <4>7. Losses(N - 1 - Z2) = Losses(m + 1)
        BY <4>1
      <4> QED
        BY <3>1, <4>5, <4>6, <4>7
    <3> QED
      BY <1>3, <3>2, <3>3
  <2> QED
    BY <1>3, <2>3, <2>4, <2>5
<1>13. SignInTypeOK'
  <2>1. hits' \in 0 .. Limit + Cardinality(Workers)
    BY <1>3, <1>6, <1>8, <1>9
  <2> QED
    BY <1>1, <1>2, <1>4, <1>9, <2>1 DEF SignInTypeOK, Tasks
<1>14. OneEdits'
  <2>1. \A v \in Workers : At(v, "edit")' => worker'[v] = worker[v]
    BY <1>3, <1>4 DEF At
  <2> QED
    BY <1>2, <2>1, EditingStays
<1> QED
  BY <1>10, <1>11, <1>12, <1>13, <1>14 DEF SignInInv


\* A request that neither counts nor edits goes on to do something of the kind,
\* or an edit ends.
LEMMA GoesOn ==
    ASSUME SignInInv, NEW w \in Workers, NEW r \in Tasks, To(w, r),
           r.pc # "count", r.pc # "edit", ~ At(w, "count")
    PROVE  /\ Counting' = Counting /\ First' = First
           /\ \A v \in Counting : worker'[v] = worker[v]
           /\ \A v \in Workers : At(v, "edit")' => worker'[v] = worker[v] /\ At(v, "edit")
           /\ ~ At(w, "edit")'
           /\ worker' \in [Workers -> Tasks]
<1>1. SignInTypeOK /\ worker \in [Workers -> Tasks]
  BY SignInFacts DEF SignInInv
<1>2. /\ worker'[w] = r /\ \A v \in Workers : v # w => worker'[v] = worker[v]
      /\ worker' \in [Workers -> Tasks]
  BY <1>1, WorkerMoves
<1>3. Counting' = Counting /\ First' = First
  BY <1>1, CountingMoves
<1>4. \A v \in Counting : v \in Workers /\ v # w
  BY DEF Counting
<1>5. \A v \in Workers : At(v, "edit")' => v # w /\ worker'[v] = worker[v] /\ At(v, "edit")
  BY <1>2 DEF At
<1> QED
  BY <1>2, <1>3, <1>4, <1>5

\* Expiry of the key.
LEMMA ExpiryKeeps ==
    ASSUME SignInInv, KeyExpires
    PROVE  SignInInv'
<1>1. SignInTypeOK /\ KeyGoes /\ UNCHANGED <<account, worker, users, owed, editRaced>>
  BY DEF KeyExpires, SignInInv
<1>2. Counting' = Counting /\ First' = First /\ \A v \in Counting : worker'[v] = worker[v]
  BY <1>1 DEF Counting, First, At
<1>3. OneCounts' /\ HitsBound' /\ LossBound' /\ admitted' \in Nat /\ raced' \in BOOLEAN
  BY <1>1, <1>2, KeyGoesKeeps
<1>4. OneEdits'
  BY <1>1, EditingStays
<1>5. hits' \in 0 .. Limit + Cardinality(Workers)
  BY <1>1, CountingFacts DEF KeyGoes
<1>6. SignInTypeOK'
  BY <1>1, <1>3, <1>5 DEF SignInTypeOK
<1> QED
  BY <1>3, <1>4, <1>6 DEF SignInInv

\* The rest of an attempt.
LEMMA AttemptKeeps ==
    ASSUME SignInInv, NEW w \in Workers,
           (\E x \in Passwords : Authenticate(w, x) \/ Refuse(w, x)) \/ Reset(w)
    PROVE  SignInInv'
<1>1. PICK r \in {[pc |-> "reset"], Idle} :
          /\ ~ At(w, "count") /\ To(w, r) /\ UNCHANGED <<account, users, owed, editRaced>>
          /\ KeyGoes \/ UNCHANGED <<hits, admitted, raced>>
  BY DEF Authenticate, Refuse, Reset, At
<1>2. SignInTypeOK /\ r \in Tasks /\ r.pc # "count" /\ r.pc # "edit"
  BY <1>1, SignInFacts DEF SignInInv, Idle
<1>3. /\ Counting' = Counting /\ First' = First
      /\ \A v \in Counting : worker'[v] = worker[v]
      /\ \A v \in Workers : At(v, "edit")' => worker'[v] = worker[v]
      /\ worker' \in [Workers -> Tasks]
  BY <1>1, <1>2, GoesOn
<1>4. OneEdits'
  BY <1>1, <1>3, EditingStays
<1>5. CASE KeyGoes
  <2>1. OneCounts' /\ HitsBound' /\ LossBound' /\ admitted' \in Nat /\ raced' \in BOOLEAN
    BY <1>3, <1>5, KeyGoesKeeps
  <2>2. hits' \in 0 .. Limit + Cardinality(Workers)
    BY <1>5, CountingFacts DEF KeyGoes
  <2>3. SignInTypeOK'
    BY <1>1, <1>2, <1>3, <2>1, <2>2 DEF SignInTypeOK, Tasks
  <2> QED
    BY <1>4, <2>1, <2>3 DEF SignInInv
<1>6. CASE UNCHANGED <<hits, admitted, raced>>
  <2>1. OneCounts' /\ HitsBound' /\ LossBound'
    BY <1>3, <1>6, CountingStays
  <2>2. SignInTypeOK'
    BY <1>1, <1>2, <1>3, <1>6 DEF SignInTypeOK, Tasks
  <2> QED
    BY <1>4, <2>1, <2>2 DEF SignInInv
<1> QED
  BY <1>1, <1>5, <1>6

\* A change of a row is a row of the same user.
LEMMA ChangedFits ==
    ASSUME NEW row \in Account, NEW c \in Changes
    PROVE  Changed(row, c) \in Account /\ Changed(row, c).pk = row.pk
<1>1. /\ row = [pk |-> row.pk, password |-> row.password, is_active |-> row.is_active]
      /\ row.password \in Passwords /\ row.is_active \in BOOLEAN
  BY DEF Account
<1>2. DOMAIN row = {"pk", "password", "is_active"}
  BY <1>1
<1>3. CASE c[1] = "password" /\ c[2] \in Passwords
  <2>1. Changed(row, c) = [pk |-> row.pk, password |-> c[2], is_active |-> row.is_active]
    BY <1>2, <1>3 DEF Changed
  <2> QED
    BY <1>3, <2>1 DEF Account
<1>4. CASE c[1] = "is_active" /\ c[2] \in BOOLEAN
  <2>1. Changed(row, c) = [pk |-> row.pk, password |-> row.password, is_active |-> c[2]]
    BY <1>2, <1>4 DEF Changed
  <2> QED
    BY <1>4, <2>1 DEF Account
<1> QED
  BY <1>3, <1>4 DEF Changes

\* Loading the row for an edit.
LEMMA LoadKeeps ==
    ASSUME SignInInv, NEW w \in Workers, BeginEdit(w)
    PROVE  SignInInv'
<1> DEFINE r == [pc |-> "edit", row |-> account]
<1>1. /\ ~ At(w, "count") /\ To(w, r) /\ account # NoAccount
      /\ editRaced' = (editRaced \/ Others(w, "edit") # {})
      /\ UNCHANGED <<hits, account, users, admitted, raced, owed>>
  BY DEF BeginEdit, At
<1>2. SignInTypeOK /\ account \in Account /\ worker \in [Workers -> Tasks] /\ OneEdits
  BY <1>1, SignInFacts DEF SignInInv, SignInTypeOK
<1>3. r \in Tasks /\ r.pc = "edit" /\ r.row = account
  BY <1>2 DEF Tasks
<1> HIDE DEF r
<1>4. /\ worker'[w] = r /\ \A v \in Workers : v # w => worker'[v] = worker[v]
      /\ worker' \in [Workers -> Tasks]
  BY <1>1, <1>2, <1>3, WorkerMoves
<1>5. Counting' = Counting /\ First' = First /\ \A v \in Counting : worker'[v] = worker[v]
  <2>1. Counting' = Counting /\ First' = First
    BY <1>1, <1>2, <1>3, CountingMoves
  <2>2. \A v \in Counting : v \in Workers /\ v # w
    BY <1>1 DEF Counting
  <2> QED
    BY <1>4, <2>1, <2>2
<1>6. OneCounts' /\ HitsBound' /\ LossBound'
  BY <1>1, <1>5, CountingStays
<1>7. OneEdits'
  <2> SUFFICES ASSUME ~ editRaced'
               PROVE  /\ account' = owed'
                      /\ \A v, x \in Workers : At(v, "edit")' /\ At(x, "edit")' => v = x
                      /\ \A v \in Workers : At(v, "edit")' => worker'[v].row = account'
    BY DEF OneEdits
  <2>1. ~ editRaced /\ Others(w, "edit") = {}
    BY <1>1
  <2>2. \A v \in Workers : v # w => ~ At(v, "edit")'
    BY <1>4, <2>1 DEF Others, At
  <2> QED
    BY <1>1, <1>2, <1>3, <1>4, <2>1, <2>2 DEF OneEdits
<1>8. SignInTypeOK'
  <2>1. editRaced' \in BOOLEAN
    BY <1>1, <1>2 DEF SignInTypeOK
  <2> QED
    BY <1>1, <1>2, <1>4, <2>1 DEF SignInTypeOK, Tasks
<1> QED
  BY <1>6, <1>7, <1>8 DEF SignInInv

\* Saving it.
LEMMA SaveKeeps ==
    ASSUME SignInInv, NEW w \in Workers, NEW c \in Changes, SaveEdit(w, c)
    PROVE  SignInInv'
<1> DEFINE row == Changed(worker[w].row, c)
<1>1. /\ At(w, "edit") /\ ~ At(w, "count") /\ To(w, Idle)
      /\ account' = IF account = NoAccount \/ account.pk = row.pk THEN row ELSE account
      /\ owed' = IF owed.pk = row.pk THEN Changed(owed, c) ELSE owed
      /\ UNCHANGED <<hits, users, admitted, raced, editRaced>>
  BY DEF SaveEdit, At
<1>2. SignInTypeOK /\ worker[w].row \in Account /\ OneEdits /\ Idle \in Tasks /\ Idle.pc = "idle"
  BY <1>1, SignInFacts DEF SignInInv, Idle
<1>3. row \in Account /\ row.pk = worker[w].row.pk /\ (owed \in Account => Changed(owed, c) \in Account)
  BY <1>2, ChangedFits
<1>4. row = Changed(worker[w].row, c)
  OBVIOUS
<1> HIDE DEF row
<1>5. /\ Counting' = Counting /\ First' = First
      /\ \A v \in Counting : worker'[v] = worker[v]
      /\ \A v \in Workers : At(v, "edit")' => worker'[v] = worker[v] /\ At(v, "edit")
      /\ ~ At(w, "edit")' /\ worker' \in [Workers -> Tasks]
  BY <1>1, <1>2, GoesOn
<1>6. OneCounts' /\ HitsBound' /\ LossBound'
  BY <1>1, <1>5, CountingStays
<1>7. OneEdits'
  <2> SUFFICES ASSUME ~ editRaced'
               PROVE  /\ account' = owed'
                      /\ \A v, x \in Workers : At(v, "edit")' /\ At(x, "edit")' => v = x
                      /\ \A v \in Workers : At(v, "edit")' => worker'[v].row = account'
    BY DEF OneEdits
  <2>1. /\ account = owed /\ worker[w].row = account
        /\ \A v \in Workers : At(v, "edit") => v = w
    BY <1>1, <1>2 DEF OneEdits
  <2>2. account' = owed'
    BY <1>1, <1>3, <1>4, <2>1
  <2>3. \A v \in Workers : ~ At(v, "edit")'
    BY <1>5, <2>1
  <2> QED
    BY <2>2, <2>3
<1>8. SignInTypeOK'
  <2>1. account' \in Account \cup {NoAccount}
    BY <1>1, <1>2, <1>3 DEF SignInTypeOK
  <2>2. owed' \in Account \cup {NoAccount}
    <3>1. row.pk \in Nat /\ row.pk >= 1 /\ NoAccount.pk = 0
      BY <1>3, SignInAssumption DEF Account, NoAccount
    <3>2. owed.pk = row.pk => owed # NoAccount
      BY <3>1
    <3> QED
      BY <1>1, <1>2, <1>3, <3>2 DEF SignInTypeOK
  <2> QED
    BY <1>1, <1>2, <1>5, <2>1, <2>2 DEF SignInTypeOK, Tasks
<1> QED
  BY <1>6, <1>7, <1>8 DEF SignInInv

\* A user is created or deleted.
LEMMA RowComesOrGoes ==
    ASSUME SignInInv, (\E x \in Passwords : CreateUser(x)) \/ DeleteUser
    PROVE  SignInInv'
<1>1. /\ account' = owed' /\ editRaced' = (editRaced \/ \E w \in Workers : At(w, "edit"))
      /\ UNCHANGED <<hits, worker, admitted, raced>>
      /\ \/ /\ users < MaxUsers /\ users' = users + 1
            /\ \E x \in Passwords : account' = [pk |-> users + 1, password |-> x, is_active |-> TRUE]
         \/ users' = users /\ account' = NoAccount
  BY DEF CreateUser, DeleteUser
<1>2. SignInTypeOK /\ users \in Nat /\ users <= MaxUsers /\ MaxUsers \in Nat
  BY SignInFacts DEF SignInInv
<1>3. account' \in Account \cup {NoAccount} /\ users' \in 0 .. MaxUsers
  <2>1. users < MaxUsers => users + 1 \in 1 .. MaxUsers
    BY <1>2
  <2>2. users \in 0 .. MaxUsers /\ 1 .. MaxUsers \subseteq 0 .. MaxUsers
    BY <1>2
  <2>3. ASSUME NEW x \in Passwords, users < MaxUsers
        PROVE  [pk |-> users + 1, password |-> x, is_active |-> TRUE] \in Account
    BY <2>1, <2>3 DEF Account
  <2>4. CASE users' = users /\ account' = NoAccount
    BY <2>2, <2>4
  <2> QED
    BY <1>1, <2>1, <2>2, <2>3, <2>4
<1>4. Counting' = Counting /\ First' = First /\ \A v \in Counting : worker'[v] = worker[v]
  BY <1>1 DEF Counting, First, At
<1>5. OneCounts' /\ HitsBound' /\ LossBound'
  BY <1>1, <1>4, CountingStays
<1>6. editRaced' \in BOOLEAN /\ (~ editRaced' => \A w \in Workers : ~ At(w, "edit"))
  BY <1>1, <1>2 DEF SignInTypeOK
<1>7. OneEdits'
  BY <1>1, <1>6 DEF OneEdits, At
<1>8. SignInTypeOK'
  BY <1>1, <1>2, <1>3, <1>6 DEF SignInTypeOK
<1> QED
  BY <1>5, <1>7, <1>8 DEF SignInInv

\* At the start nothing has been counted and nobody edits.
LEMMA SignInInitially ==
    ASSUME SignInInit
    PROVE  SignInInv
<1>1. Counting = {} /\ First = {} /\ \A w \in Workers : ~ At(w, "edit")
  BY DEF SignInInit, Counting, First, At, Idle
<1>2. Cardinality({}) = 0 /\ Cardinality(Workers) \in Nat /\ Limit \in Nat /\ Limit >= 1
  BY CountingFacts, FS_EmptySet
<1>3. SignInTypeOK
  <2>1. 0 \in 0 .. Limit + Cardinality(Workers) /\ 0 \in 0 .. MaxUsers
    BY <1>2, SignInAssumption
  <2>2. worker \in [Workers -> {Idle}]
    BY DEF SignInInit
  <2> QED
    BY <2>1, <2>2 DEF SignInInit, SignInTypeOK
<1>4. OneCounts /\ OneEdits
  BY <1>1, <1>2 DEF SignInInit, OneCounts, OneEdits
<1>5. HitsBound /\ LossBound
  BY <1>1, <1>2 DEF SignInInit, HitsBound, LossBound
<1> QED
  BY <1>3, <1>4, <1>5 DEF SignInInv

\* Every step keeps the invariant.
LEMMA SignInKept ==
    ASSUME SignInInv, [SignInNext]_signInVars
    PROVE  SignInInv'
<1>1. CASE UNCHANGED signInVars
  <2>1. /\ UNCHANGED <<hits, account, worker, users, admitted, raced, owed, editRaced>>
        /\ Counting' = Counting /\ First' = First
    BY <1>1 DEF signInVars, Counting, First, At
  <2>2. OneCounts' /\ HitsBound' /\ LossBound'
    BY <2>1, CountingStays
  <2>3. OneEdits'
    BY <2>1, EditingStays
  <2> QED
    BY <2>1, <2>2, <2>3 DEF SignInInv, SignInTypeOK
<1>2. ASSUME NEW w \in Workers, ReadAttempts(w)
      PROVE  SignInInv'
  BY <1>2, ReadKeeps
<1>3. ASSUME NEW w \in Workers, CountFirst(w) \/ CountNext(w) \/ CountFails(w)
      PROVE  SignInInv'
  BY <1>3, CountKeeps
<1>4. ASSUME NEW w \in Workers, (\E x \in Passwords : Authenticate(w, x) \/ Refuse(w, x)) \/ Reset(w)
      PROVE  SignInInv'
  BY <1>4, AttemptKeeps
<1>5. ASSUME NEW w \in Workers, BeginEdit(w)
      PROVE  SignInInv'
  BY <1>5, LoadKeeps
<1>6. ASSUME NEW w \in Workers, NEW c \in Changes, SaveEdit(w, c)
      PROVE  SignInInv'
  BY <1>6, SaveKeeps
<1>7. CASE KeyExpires
  BY <1>7, ExpiryKeeps
<1>8. CASE (\E x \in Passwords : CreateUser(x)) \/ DeleteUser
  BY <1>8, RowComesOrGoes
<1> QED
  BY <1>1, <1>2, <1>3, <1>4, <1>5, <1>6, <1>7, <1>8 DEF SignInNext

\* The key, the row and what the workers do have their types at every moment:
\* in particular the number under the key stays bounded, however the attempts
\* of the workers overlap.
THEOREM SignInTypeCorrect == SignInSpec => []SignInTypeOK
<1>1. SignInInit => SignInInv
  BY SignInInitially
<1>2. SignInInv /\ [SignInNext]_signInVars => SignInInv'
  BY SignInKept
<1>3. SignInInv => SignInTypeOK
  BY DEF SignInInv
<1> QED
  BY <1>1, <1>2, <1>3, PTL DEF SignInSpec

\* The login limit: without overlapping attempts no more than Limit of them get
\* through and each is counted; with any overlapping at most MostAdmitted, for
\* every number of workers and every limit.
THEOREM LimitCorrect == SignInSpec => []LimitCounts
<1>1. SignInInit => SignInInv
  BY SignInInitially
<1>2. SignInInv /\ [SignInNext]_signInVars => SignInInv'
  BY SignInKept
<1>3. ASSUME SignInInv
      PROVE  LimitCounts
  <2> DEFINE n == Cardinality(Workers)
             z == Cardinality(First)
             L == Limit
  <2>1. n \in Nat /\ z \in Nat /\ L \in Nat /\ L >= 1 /\ hits \in Nat /\ admitted \in Nat
    BY <1>3, CountingFacts, SignInFacts DEF SignInInv
  <2>2. ~ raced => hits = admitted /\ admitted <= Limit
    BY <1>3 DEF SignInInv, OneCounts
  <2>3. /\ hits = 0 => admitted = 0
        /\ hits > 0 => z <= n - 1 /\ hits <= admitted /\ 2 * (admitted - hits) <= Losses(n - 1 - z)
    BY <1>3 DEF SignInInv, LossBound
  <2>4. hits + z + 1 <= L + n
    <3> DEFINE c == Cardinality(Counting)
    <3>1. hits + c + 1 <= L + n /\ z <= c /\ c \in Nat
      BY <1>3, CountingFacts DEF SignInInv, HitsBound
    <3> HIDE DEF c, n, z, L
    <3> QED
      BY <2>1, <3>1
  <2>5. MostAdmitted = n * L + (n * (n - 1)) \div 2
    BY DEF MostAdmitted
  <2>6. L = Limit
    OBVIOUS
  <2> HIDE DEF n, z, L
  <2>7. n * L \in Nat /\ n * (n - 1) \in Nat
    <3>1. CASE n = 0
      BY <2>1, <3>1
    <3>2. CASE n # 0
      <4>1. n - 1 \in Nat
        BY <2>1, <3>2
      <4> QED
        BY <2>1, <4>1
    <3> QED
      BY <3>1, <3>2
  <2>8. 2 * admitted <= 2 * (n * L) + n * (n - 1)
    <3>1. CASE hits = 0
      BY <2>3, <2>7, <3>1
    <3>2. CASE hits > 0
      <4> DEFINE m == n - 1 - z
      <4>1. m \in Nat /\ m < n /\ hits <= L + m
        BY <2>1, <2>3, <2>4, <3>2
      <4>2. 2 * (admitted - hits) <= Losses(m)
        BY <2>3, <3>2
      <4> HIDE DEF m
      <4>3. Losses(m) \in Nat /\ 2 * L + 2 * m + Losses(m) <= 2 * (n * L) + n * (n - 1)
        BY <2>1, <2>6, <4>1, LossesGrow
      <4> DEFINE rest == Losses(m)
                 all == 2 * (n * L) + n * (n - 1)
      <4>4. rest \in Nat /\ 2 * L + 2 * m + rest <= all /\ 2 * (admitted - hits) <= rest /\ all \in Int
        BY <2>7, <4>2, <4>3
      <4> HIDE DEF rest, all
      <4>5. 2 * admitted <= all
        BY <2>1, <4>1, <4>4
      <4> QED
        BY <4>5 DEF all
    <3> QED
      BY <2>1, <3>1, <3>2
  <2>9. admitted <= MostAdmitted
    BY <2>1, <2>5, <2>7, <2>8, HalfBound
  <2>10. hits <= admitted
    BY <2>1, <2>3
  <2> QED
    BY <2>2, <2>9, <2>10 DEF LimitCounts
<1> QED
  BY <1>1, <1>2, <1>3, PTL DEF SignInSpec

\* Edits of the account that do not overlap lose nothing, whatever the attempts
\* to sign in do meanwhile.
THEOREM EditsCorrect == SignInSpec => []EditsKept
<1>1. SignInInit => SignInInv
  BY SignInInitially
<1>2. SignInInv /\ [SignInNext]_signInVars => SignInInv'
  BY SignInKept
<1>3. SignInInv => EditsKept
  BY DEF SignInInv, OneEdits, EditsKept
<1> QED
  BY <1>1, <1>2, <1>3, PTL DEF SignInSpec
-----------------------------------------------------------------------------
(* Subscriptions: the inductive invariant *)

Subscribing(p) == proc[p].pc \in {"deactivate", "save"}
Editing(p) == proc[p].pc = "edit"
Makers == {p \in Procs : Subscribing(p)}

\* The ids of the subscriptions that will be made are within bounds, and those
\* of edits have been given out.
RowsFit ==
    /\ made + Cardinality(Makers) <= MaxRows
    /\ \A p \in Procs : Editing(p) => proc[p].id <= made

\* The owner and the end of a subscription never change, so that every copy that
\* an edit has loaded agrees on them with the row, if that is still there, and
\* with the other copies.
CopiesAgree ==
    \A p \in Procs : Editing(p) =>
        /\ proc[p].row.user = proc[p].user
        /\ proc[p].id \in DOMAIN rows =>
              rows[proc[p].id].user = proc[p].user /\ rows[proc[p].id].end = proc[p].row.end
        /\ \A q \in Procs : Editing(q) /\ proc[q].id = proc[p].id =>
              proc[q].user = proc[p].user /\ proc[q].row.end = proc[p].row.end

\* A user whose requests have not overlapped has one request at a time; the one
\* that makes a subscription has ended the others, the one that edits has the
\* row as it is.
OneAtATime ==
    \A u \in Users \ mixed :
        /\ \A p, q \in Procs : proc[p] # Ready /\ proc[q] # Ready /\ proc[p].user = u /\ proc[q].user = u => p = q
        /\ \A p \in Procs :
              /\ proc[p].pc = "save" /\ proc[p].user = u => last[u] = 0
              /\ Editing(p) /\ proc[p].user = u =>
                    /\ proc[p].id \in DOMAIN rows
                    /\ rows[proc[p].id].active = proc[p].row.active
                    /\ rows[proc[p].id].end = proc[p].row.end
              /\ Editing(p) /\ proc[p].id = last[u] => proc[p].user = u
        /\ Active(u) = {last[u]} \cap DOMAIN rows

\* A request began today or yesterday, the command today or before; a
\* subscription that is being made ends long after.
DaysFit ==
    /\ \A p \in Procs : proc[p] # Ready => proc[p].day <= today /\ today <= proc[p].day + 1
    /\ \A p \in Procs : Subscribing(p) => proc[p].day + Notice + 2 <= proc[p].end
    /\ command # Ready => /\ command.day <= today
                          /\ ran[command.day] < MaxRuns
                          /\ \A i \in command.ids : i <= made
    /\ \A d \in Days : ran[d] > 0 => d <= today
    /\ \A i \in Ids : i > made => told[i] = 0

\* How often the command ran on the day that is Notice days before end.
RunsFor(end) == IF end - Notice \in Days THEN ran[end - Notice] ELSE 0

\* What is announced of subscription i, of which r is the row or a copy that an
\* edit has loaded.
CopyOK(i, r) ==
    /\ told[i] <= RunsFor(r.end)
    /\ command # Ready /\ i \in command.ids => r.end = command.day + Notice
Announced ==
    /\ \A i \in DOMAIN rows : CopyOK(i, rows[i])
    /\ \A p \in Procs : Editing(p) => CopyOK(proc[p].id, proc[p].row)
    /\ \A i \in DOMAIN rows : rows[i].user \notin mixed /\ rows[i].active =>
          /\ told[i] = RunsFor(rows[i].end)
          /\ command # Ready /\ rows[i].end = command.day + Notice => i \in command.ids

SubInv == SubTypeOK /\ RowsFit /\ CopiesAgree /\ OneAtATime /\ DaysFit /\ Announced


-----------------------------------------------------------------------------
(* Subscriptions: the proof *)

\* What a request may be doing.
Jobs == {Ready}
            \cup [pc : {"deactivate", "save"}, day : Days, user : Users, plan : Plans, end : Nat]
            \cup [pc : {"edit"}, day : Days, user : Users, id : Ids, row : Row]

\* What the type invariant says of each row, request and number.
LEMMA SubFacts ==
    ASSUME SubTypeOK
    PROVE  /\ proc \in [Procs -> Jobs] /\ Ready \in Jobs
           /\ today \in Nat /\ today <= MaxDay /\ MaxDay \in Nat /\ Notice \in Nat
           /\ made \in Nat /\ made <= MaxRows /\ MaxRows \in Nat /\ MaxRuns \in Nat
           /\ \A i \in DOMAIN rows :
                 /\ i \in Nat /\ 1 <= i /\ i <= made /\ i \in Ids
                 /\ rows[i] \in Row /\ rows[i].end \in Int /\ rows[i].user \in Users
                 /\ rows[i].active \in BOOLEAN
           /\ \A p \in Procs :
                 /\ proc[p] # Ready => proc[p].day \in Days /\ proc[p].day \in Int /\ proc[p].user \in Users
                 /\ proc[p] # Ready => Subscribing(p) \/ Editing(p)
                 /\ Subscribing(p) => proc[p] # Ready /\ ~ Editing(p) /\ proc[p].plan \in Plans /\ proc[p].end \in Nat
                 /\ Editing(p) => /\ proc[p] # Ready /\ ~ Subscribing(p)
                                  /\ proc[p].id \in Ids /\ proc[p].id \in Nat /\ proc[p].id >= 1
                                  /\ proc[p].row \in Row /\ proc[p].row.end \in Int
           /\ command # Ready => /\ command.pc = "notify" /\ command.day \in Days /\ command.day \in Int
                                 /\ command.ids \subseteq Ids
           /\ \A i \in Ids : told[i] \in Nat /\ i \in Nat
           /\ \A d \in Days : ran[d] \in Nat /\ ran[d] <= MaxRuns
<1>1. proc \in [Procs -> Jobs] /\ Ready \in Jobs
  BY DEF SubTypeOK, Jobs
<1>2. MaxDay \in Nat /\ Notice \in Nat /\ MaxRows \in Nat /\ MaxRuns \in Nat
  BY SubscriptionAssumption
<1>3. today \in Nat /\ today <= MaxDay /\ made \in Nat /\ made <= MaxRows
  BY <1>2 DEF SubTypeOK, Days
<1>4. ASSUME NEW i \in DOMAIN rows
      PROVE  /\ i \in Nat /\ 1 <= i /\ i <= made /\ i \in Ids
             /\ rows[i] \in Row /\ rows[i].end \in Int /\ rows[i].user \in Users
             /\ rows[i].active \in BOOLEAN
  <2>1. i \in 1 .. made /\ rows[i] \in Row
    BY DEF SubTypeOK
  <2>2. i \in Ids
    BY <1>2, <1>3, <2>1 DEF Ids
  <2>3. rows[i].end \in Int /\ rows[i].user \in Users /\ rows[i].active \in BOOLEAN
    BY <2>1 DEF Row
  <2> QED
    BY <1>3, <2>1, <2>2, <2>3
<1>5. ASSUME NEW p \in Procs
      PROVE  /\ proc[p] # Ready => proc[p].day \in Days /\ proc[p].day \in Int /\ proc[p].user \in Users
             /\ proc[p] # Ready => Subscribing(p) \/ Editing(p)
             /\ Subscribing(p) => proc[p] # Ready /\ ~ Editing(p) /\ proc[p].plan \in Plans /\ proc[p].end \in Nat
             /\ Editing(p) => /\ proc[p] # Ready /\ ~ Subscribing(p)
                              /\ proc[p].id \in Ids /\ proc[p].id \in Nat /\ proc[p].id >= 1
                              /\ proc[p].row \in Row /\ proc[p].row.end \in Int
  <2>1. proc[p] \in Jobs
    BY <1>1
  <2>2. CASE proc[p] = Ready
    BY <2>2 DEF Ready, Subscribing, Editing
  <2>3. CASE proc[p] \in [pc : {"deactivate", "save"}, day : Days, user : Users, plan : Plans, end : Nat]
    BY <1>2, <2>3 DEF Ready, Subscribing, Editing, Days
  <2>4. CASE proc[p] \in [pc : {"edit"}, day : Days, user : Users, id : Ids, row : Row]
    <3>1. /\ proc[p].pc = "edit" /\ proc[p].day \in Days /\ proc[p].user \in Users
          /\ proc[p].id \in Ids /\ proc[p].row \in Row
      BY <2>4
    <3>2. proc[p].day \in Int /\ proc[p].id \in Nat /\ proc[p].id >= 1
      BY <1>2, <3>1 DEF Days, Ids
    <3>3. proc[p].row.end \in Int
      BY <3>1 DEF Row
    <3> QED
      BY <3>1, <3>2, <3>3 DEF Ready, Subscribing, Editing
  <2> QED
    BY <2>1, <2>2, <2>3, <2>4 DEF Jobs
<1>6. command # Ready => /\ command.pc = "notify" /\ command.day \in Days /\ command.day \in Int
                         /\ command.ids \subseteq Ids
  BY DEF SubTypeOK, Days
<1>7. ASSUME NEW i \in Ids
      PROVE  told[i] \in Nat /\ i \in Nat
  BY <1>2 DEF SubTypeOK, Ids
<1>8. ASSUME NEW d \in Days
      PROVE  ran[d] \in Nat /\ ran[d] <= MaxRuns
  BY <1>2 DEF SubTypeOK
<1> QED
  BY <1>1, <1>2, <1>3, <1>4, <1>5, <1>6, <1>7, <1>8

\* The request of p goes on with r.
LEMMA JobMoves ==
    ASSUME SubTypeOK, NEW p \in Procs, NEW r \in Jobs, Set(p, r)
    PROVE  /\ proc'[p] = r
           /\ \A q \in Procs : q # p => /\ proc'[q] = proc[q]
                                        /\ (Editing(q)' <=> Editing(q)) /\ (Subscribing(q)' <=> Subscribing(q))
           /\ proc' \in [Procs -> Jobs]
           /\ (Editing(p)' <=> r.pc = "edit") /\ (Subscribing(p)' <=> r.pc \in {"deactivate", "save"})
           /\ IsFiniteSet(Makers) /\ Cardinality(Makers) \in Nat /\ Cardinality(Makers') \in Nat
           /\ ~ Subscribing(p)' => Cardinality(Makers') <= Cardinality(Makers)
           /\ Subscribing(p)' /\ Subscribing(p) => Makers' = Makers
           /\ Subscribing(p) /\ ~ Subscribing(p)' => Cardinality(Makers') = Cardinality(Makers) - 1
           /\ Subscribing(p)' /\ ~ Subscribing(p) => Cardinality(Makers') = Cardinality(Makers) + 1
<1>1. proc \in [Procs -> Jobs] /\ IsFiniteSet(Procs)
  BY SubFacts, SubscriptionAssumption
<1>2. proc'[p] = r /\ proc' \in [Procs -> Jobs] /\ \A q \in Procs : q # p => proc'[q] = proc[q]
  BY <1>1 DEF Set
<1>3. \A q \in Procs : q # p => (Editing(q)' <=> Editing(q)) /\ (Subscribing(q)' <=> Subscribing(q))
  BY <1>2 DEF Editing, Subscribing
<1>4. (Editing(p)' <=> r.pc = "edit") /\ (Subscribing(p)' <=> r.pc \in {"deactivate", "save"})
  BY <1>2 DEF Editing, Subscribing
<1>5. Makers \subseteq Procs /\ Makers' \subseteq Procs
  BY DEF Makers
<1>6. IsFiniteSet(Makers) /\ Cardinality(Makers) \in Nat /\ Cardinality(Makers') \in Nat
  BY <1>1, <1>5, FS_Subset, FS_CardinalityType
<1>7. (p \in Makers <=> Subscribing(p)) /\ (p \in Makers' <=> Subscribing(p)')
  BY DEF Makers
<1>8. \A q : q # p => (q \in Makers' <=> q \in Makers)
  BY <1>3 DEF Makers
<1>9. ASSUME Subscribing(p), ~ Subscribing(p)'
      PROVE  Cardinality(Makers') = Cardinality(Makers) - 1
  <2>1. Makers' = Makers \ {p} /\ p \in Makers
    BY <1>7, <1>8, <1>9
  <2> QED
    BY <1>6, <2>1, FS_RemoveElement
<1>10. ASSUME ~ Subscribing(p), Subscribing(p)'
       PROVE  Cardinality(Makers') = Cardinality(Makers) + 1
  <2>1. Makers' = Makers \cup {p} /\ p \notin Makers
    BY <1>7, <1>8, <1>10
  <2> QED
    BY <1>6, <2>1, FS_AddElement
<1>11. (Subscribing(p)' <=> Subscribing(p)) => Makers' = Makers
  BY <1>7, <1>8
<1>12. ~ Subscribing(p)' => Cardinality(Makers') <= Cardinality(Makers)
  <2>1. CASE Subscribing(p)
    BY <1>6, <1>9, <2>1
  <2>2. CASE ~ Subscribing(p)
    BY <1>6, <1>11, <2>2
  <2> QED
    BY <2>1, <2>2
<1> QED
  BY <1>2, <1>3, <1>4, <1>6, <1>9, <1>10, <1>11, <1>12

\* A request is over and has changed nothing: its plan is gone, or its worker died.
LEMMA GivingUpKeeps ==
    ASSUME SubInv, NEW p \in Procs, SaveFails(p) \/ Crash(p)
    PROVE  SubInv'
<1>1. SubTypeOK /\ RowsFit /\ CopiesAgree /\ OneAtATime /\ DaysFit /\ Announced
  BY DEF SubInv
<1>2. Set(p, Ready) /\ UNCHANGED <<today, plans, rows, made, command, told, ran, last, mixed>>
  BY DEF SaveFails, Crash
<1>3. Ready \in Jobs /\ Ready.pc = "ready"
  BY <1>1, SubFacts DEF Ready
<1>4. /\ proc'[p] = Ready /\ proc' \in [Procs -> Jobs] /\ ~ Editing(p)' /\ ~ Subscribing(p)'
      /\ \A q \in Procs : q # p => /\ proc'[q] = proc[q]
                                   /\ (Editing(q)' <=> Editing(q)) /\ (Subscribing(q)' <=> Subscribing(q))
      /\ Cardinality(Makers') <= Cardinality(Makers)
      /\ Cardinality(Makers') \in Nat /\ Cardinality(Makers) \in Nat
  BY <1>1, <1>2, <1>3, JobMoves
<1>5. SubTypeOK'
  BY <1>1, <1>2, <1>4 DEF SubTypeOK, Jobs
<1>6. RowsFit'
  <2>1. made + Cardinality(Makers') <= MaxRows
    <3> DEFINE a == Cardinality(Makers')
               b == Cardinality(Makers)
    <3>1. made + b <= MaxRows /\ a <= b /\ a \in Nat /\ b \in Nat /\ made \in Nat /\ MaxRows \in Nat
      BY <1>1, <1>4, SubFacts DEF RowsFit
    <3> HIDE DEF a, b
    <3>2. made + a <= MaxRows
      BY <3>1
    <3> QED
      BY <3>2 DEF a
  <2> QED
    BY <1>1, <1>2, <1>4, <2>1 DEF RowsFit
<1>7. CopiesAgree'
  BY <1>1, <1>2, <1>4 DEF CopiesAgree
<1>8. OneAtATime'
  <2> SUFFICES ASSUME NEW u \in Users \ mixed
               PROVE  /\ \A a, b \in Procs : proc'[a] # Ready /\ proc'[b] # Ready /\ proc'[a].user = u /\ proc'[b].user = u => a = b
                      /\ \A q \in Procs :
                            /\ proc'[q].pc = "save" /\ proc'[q].user = u => last[u] = 0
                            /\ Editing(q)' /\ proc'[q].user = u =>
                                  /\ proc'[q].id \in DOMAIN rows
                                  /\ rows[proc'[q].id].active = proc'[q].row.active
                                  /\ rows[proc'[q].id].end = proc'[q].row.end
                            /\ Editing(q)' /\ proc'[q].id = last[u] => proc'[q].user = u
                      /\ Active(u) = {last[u]} \cap DOMAIN rows
    BY <1>2 DEF OneAtATime, Active, Owned
  <2> QED
    BY <1>1, <1>3, <1>4 DEF OneAtATime
<1>9. DaysFit'
  BY <1>1, <1>2, <1>4 DEF DaysFit
<1>10. Announced'
  BY <1>1, <1>2, <1>4 DEF Announced, CopyOK, RunsFor
<1> QED
  BY <1>5, <1>6, <1>7, <1>8, <1>9, <1>10 DEF SubInv

\* A subscription is asked for.
LEMMA AskingKeeps ==
    ASSUME SubInv, NEW p \in Procs, NEW u \in Users, NEW k \in Plans, NEW n \in Lengths,
           BeginSubscribe(p, u, k, n)
    PROVE  SubInv'
<1> DEFINE r == [pc |-> "deactivate", day |-> today, user |-> u, plan |-> k, end |-> today + n]
<1>1. SubTypeOK /\ RowsFit /\ CopiesAgree /\ OneAtATime /\ DaysFit /\ Announced
  BY DEF SubInv
<1>2. /\ proc[p] = Ready /\ Set(p, r) /\ made + Cardinality(Makers) < MaxRows
      /\ mixed' = IF Busy(u, p) = {} THEN mixed ELSE mixed \cup {u}
      /\ UNCHANGED <<today, plans, rows, made, command, told, ran, last>>
  <2>1. Makers = {q \in Procs : proc[q].pc \in {"deactivate", "save"}}
    BY DEF Makers, Subscribing
  <2> QED
    BY <2>1 DEF BeginSubscribe, Begin
<1>3. /\ today \in Nat /\ made \in Nat /\ MaxRows \in Nat /\ Notice \in Nat /\ n \in Nat /\ n >= Notice + 2
      /\ today \in Days
  BY <1>1, SubFacts, SubscriptionAssumption DEF SubTypeOK
<1>4. /\ r \in Jobs /\ r.pc = "deactivate" /\ r # Ready /\ r.user = u
      /\ r.day = today /\ r.end = today + n
  BY <1>3 DEF Jobs, Ready
<1> HIDE DEF r
<1>5. /\ proc'[p] = r /\ proc' \in [Procs -> Jobs] /\ ~ Editing(p)' /\ Subscribing(p)'
      /\ \A q \in Procs : q # p => /\ proc'[q] = proc[q]
                                   /\ (Editing(q)' <=> Editing(q)) /\ (Subscribing(q)' <=> Subscribing(q))
      /\ Cardinality(Makers) \in Nat /\ Cardinality(Makers') \in Nat
  BY <1>1, <1>2, <1>4, JobMoves
<1>6. Cardinality(Makers') = Cardinality(Makers) + 1
  <2>1. ~ Subscribing(p)
    BY <1>2 DEF Subscribing, Ready
  <2> QED
    BY <1>1, <1>2, <1>4, <1>5, <2>1, JobMoves
<1>7. SubTypeOK'
  BY <1>1, <1>2, <1>5 DEF SubTypeOK, Jobs
<1>8. RowsFit'
  <2>1. made + Cardinality(Makers') <= MaxRows
    <3> DEFINE a == Cardinality(Makers')
               b == Cardinality(Makers)
    <3>1. made + b < MaxRows /\ a = b + 1 /\ a \in Nat /\ b \in Nat
      BY <1>2, <1>5, <1>6
    <3> HIDE DEF a, b
    <3>2. made + a <= MaxRows
      BY <1>3, <3>1
    <3> QED
      BY <3>2 DEF a
  <2> QED
    BY <1>1, <1>2, <1>5, <2>1 DEF RowsFit
<1>9. CopiesAgree'
  BY <1>1, <1>2, <1>5 DEF CopiesAgree
<1>10. OneAtATime'
  <2>1. \A v \in Users \ mixed' : v \in Users \ mixed /\ (v = u => Busy(u, p) = {})
    BY <1>2
  <2> SUFFICES ASSUME NEW v \in Users \ mixed, v = u => Busy(u, p) = {}
               PROVE  /\ \A a, b \in Procs : proc'[a] # Ready /\ proc'[b] # Ready /\ proc'[a].user = v /\ proc'[b].user = v => a = b
                      /\ \A q \in Procs :
                            /\ proc'[q].pc = "save" /\ proc'[q].user = v => last[v] = 0
                            /\ Editing(q)' /\ proc'[q].user = v =>
                                  /\ proc'[q].id \in DOMAIN rows
                                  /\ rows[proc'[q].id].active = proc'[q].row.active
                                  /\ rows[proc'[q].id].end = proc'[q].row.end
                            /\ Editing(q)' /\ proc'[q].id = last[v] => proc'[q].user = v
                      /\ Active(v) = {last[v]} \cap DOMAIN rows
    BY <1>2, <2>1 DEF OneAtATime, Active, Owned
  <2>2. \A q \in Procs : q # p /\ proc'[q] # Ready /\ proc'[q].user = v => v # u
    BY <1>5 DEF Busy
  <2>3. \A a, b \in Procs : proc'[a] # Ready /\ proc'[b] # Ready /\ proc'[a].user = v /\ proc'[b].user = v => a = b
    BY <1>1, <1>4, <1>5, <2>2 DEF OneAtATime
  <2> QED
    BY <1>1, <1>4, <1>5, <2>3 DEF OneAtATime
<1>11. DaysFit'
  BY <1>1, <1>2, <1>3, <1>4, <1>5 DEF DaysFit
<1>12. Announced'
  <2>1. \A i \in DOMAIN rows : rows[i].user \notin mixed' => rows[i].user \notin mixed
    BY <1>2
  <2> QED
    BY <1>1, <1>2, <1>5, <2>1 DEF Announced, CopyOK, RunsFor
<1> QED
  BY <1>7, <1>8, <1>9, <1>10, <1>11, <1>12 DEF SubInv

\* A subscription is loaded for an edit.
LEMMA LoadingKeeps ==
    ASSUME SubInv, NEW p \in Procs, NEW i \in DOMAIN rows, NEW k \in Plans, LoadSubscription(p, i, k)
    PROVE  SubInv'
<1> DEFINE copy == [rows[i] EXCEPT !.plan = k]
           u == rows[i].user
           r == [pc |-> "edit", day |-> today, user |-> u, id |-> i, row |-> copy]
<1>1. SubTypeOK /\ RowsFit /\ CopiesAgree /\ OneAtATime /\ DaysFit /\ Announced
  BY DEF SubInv
<1>2. /\ proc[p] = Ready /\ Set(p, r)
      /\ mixed' = IF Busy(u, p) = {} THEN mixed ELSE mixed \cup {u}
      /\ UNCHANGED <<today, plans, rows, made, command, told, ran, last>>
  BY DEF LoadSubscription, Begin
<1>3. /\ today \in Nat /\ today \in Days /\ rows[i] \in Row /\ i \in Ids /\ i <= made /\ made \in Nat /\ i \in Nat
      /\ u \in Users
  BY <1>1, SubFacts DEF SubTypeOK
<1>4. copy \in Row /\ copy.user = u /\ copy.end = rows[i].end /\ copy.active = rows[i].active
  BY <1>3 DEF Row
<1>5. u = rows[i].user
  OBVIOUS
<1> HIDE DEF copy, u
<1>6. /\ r \in Jobs /\ r.pc = "edit" /\ r # Ready /\ r.user = u
      /\ r.day = today /\ r.id = i /\ r.row = copy
  BY <1>3, <1>4 DEF Jobs, Ready
<1> HIDE DEF r
<1>7. /\ proc'[p] = r /\ proc' \in [Procs -> Jobs] /\ Editing(p)' /\ ~ Subscribing(p)'
      /\ \A q \in Procs : q # p => /\ proc'[q] = proc[q]
                                   /\ (Editing(q)' <=> Editing(q)) /\ (Subscribing(q)' <=> Subscribing(q))
      /\ Cardinality(Makers) \in Nat /\ Cardinality(Makers') \in Nat
      /\ Cardinality(Makers') <= Cardinality(Makers)
  BY <1>1, <1>2, <1>6, JobMoves
<1>8. SubTypeOK'
  <2>1. mixed' \subseteq Users
    BY <1>1, <1>2, <1>3 DEF SubTypeOK
  <2> QED
    BY <1>1, <1>2, <1>7, <2>1 DEF SubTypeOK, Jobs
<1>9. RowsFit'
  <2>1. made + Cardinality(Makers') <= MaxRows
    <3> DEFINE a == Cardinality(Makers')
               b == Cardinality(Makers)
    <3>1. made + b <= MaxRows /\ a <= b /\ a \in Nat /\ b \in Nat /\ MaxRows \in Nat
      BY <1>1, <1>7, SubFacts DEF RowsFit
    <3> HIDE DEF a, b
    <3>2. made + a <= MaxRows
      BY <1>3, <3>1
    <3> QED
      BY <3>2 DEF a
  <2> QED
    BY <1>1, <1>2, <1>3, <1>6, <1>7, <2>1 DEF RowsFit
<1>10. CopiesAgree'
  BY <1>1, <1>2, <1>4, <1>5, <1>6, <1>7 DEF CopiesAgree
<1>11. OneAtATime'
  <2>1. \A v \in Users \ mixed' : v \in Users \ mixed /\ (v = u => Busy(u, p) = {})
    BY <1>2
  <2> SUFFICES ASSUME NEW v \in Users \ mixed, v = u => Busy(u, p) = {}
               PROVE  /\ \A a, b \in Procs : proc'[a] # Ready /\ proc'[b] # Ready /\ proc'[a].user = v /\ proc'[b].user = v => a = b
                      /\ \A q \in Procs :
                            /\ proc'[q].pc = "save" /\ proc'[q].user = v => last[v] = 0
                            /\ Editing(q)' /\ proc'[q].user = v =>
                                  /\ proc'[q].id \in DOMAIN rows
                                  /\ rows[proc'[q].id].active = proc'[q].row.active
                                  /\ rows[proc'[q].id].end = proc'[q].row.end
                            /\ Editing(q)' /\ proc'[q].id = last[v] => proc'[q].user = v
                      /\ Active(v) = {last[v]} \cap DOMAIN rows
    BY <1>2, <2>1 DEF OneAtATime, Active, Owned
  <2>2. \A q \in Procs : q # p /\ proc'[q] # Ready /\ proc'[q].user = v => v # u
    BY <1>7 DEF Busy
  <2>3. \A a, b \in Procs : proc'[a] # Ready /\ proc'[b] # Ready /\ proc'[a].user = v /\ proc'[b].user = v => a = b
    BY <1>1, <1>6, <1>7, <2>2 DEF OneAtATime
  <2>4. Active(v) = {last[v]} \cap DOMAIN rows
    BY <1>1 DEF OneAtATime
  <2>5. i = last[v] => v = u
    BY <1>5, <2>4 DEF Active, Owned
  <2> QED
    BY <1>1, <1>4, <1>6, <1>7, <2>3, <2>4, <2>5 DEF OneAtATime
<1>12. DaysFit'
  BY <1>1, <1>2, <1>3, <1>6, <1>7 DEF DaysFit
<1>13. Announced'
  <2>1. \A j \in DOMAIN rows : rows[j].user \notin mixed' => rows[j].user \notin mixed
    BY <1>2
  <2>2. CopyOK(i, copy)
    BY <1>1, <1>4 DEF Announced, CopyOK
  <2> QED
    BY <1>1, <1>2, <1>6, <1>7, <2>1, <2>2 DEF Announced, CopyOK, RunsFor
<1> QED
  BY <1>8, <1>9, <1>10, <1>11, <1>12, <1>13 DEF SubInv

\* The user's other subscriptions are ended.
LEMMA DeactivatingKeeps ==
    ASSUME SubInv, NEW p \in Procs, DeactivatePrevious(p)
    PROVE  SubInv'
<1> DEFINE r == [proc[p] EXCEPT !.pc = "save"]
           u == proc[p].user
<1>1. SubTypeOK /\ RowsFit /\ CopiesAgree /\ OneAtATime /\ DaysFit /\ Announced
  BY DEF SubInv
<1>2. /\ proc[p].pc = "deactivate" /\ Set(p, r)
      /\ rows' = [i \in DOMAIN rows |->
                     IF rows[i].user = u THEN [rows[i] EXCEPT !.active = FALSE] ELSE rows[i]]
      /\ last' = [last EXCEPT ![u] = 0]
      /\ UNCHANGED <<today, plans, made, command, told, ran, mixed>>
  BY DEF DeactivatePrevious
<1>3. /\ Subscribing(p) /\ proc[p] # Ready /\ u \in Users /\ proc[p] \in Jobs
      /\ ~ Editing(p)
  <2>1. Subscribing(p)
    BY <1>2 DEF Subscribing
  <2> QED
    BY <1>1, <2>1, SubFacts
<1>4. /\ r \in Jobs /\ r.pc = "save" /\ r # Ready /\ r.user = u
      /\ r.day = proc[p].day /\ r.end = proc[p].end
  <2>1. proc[p] \in [pc : {"deactivate", "save"}, day : Days, user : Users, plan : Plans, end : Nat]
    BY <1>2, <1>3 DEF Jobs, Ready
  <2> QED
    BY <2>1 DEF Jobs, Ready
<1>5. u = proc[p].user
  OBVIOUS
<1> HIDE DEF r, u
<1>6. /\ proc'[p] = r /\ proc' \in [Procs -> Jobs] /\ ~ Editing(p)' /\ Subscribing(p)'
      /\ \A q \in Procs : q # p => /\ proc'[q] = proc[q]
                                   /\ (Editing(q)' <=> Editing(q)) /\ (Subscribing(q)' <=> Subscribing(q))
      /\ Makers' = Makers
  BY <1>1, <1>2, <1>3, <1>4, JobMoves
<1>7. /\ DOMAIN rows' = DOMAIN rows
      /\ \A i \in DOMAIN rows :
            /\ rows'[i] \in Row /\ rows'[i].user = rows[i].user /\ rows'[i].end = rows[i].end
            /\ rows'[i].plan = rows[i].plan
            /\ rows[i].user = u => ~ rows'[i].active
            /\ rows[i].user # u => rows'[i] = rows[i]
            /\ rows'[i].active => rows[i].active
  <2>1. ASSUME NEW i \in DOMAIN rows
        PROVE  /\ rows'[i] \in Row /\ rows'[i].user = rows[i].user /\ rows'[i].end = rows[i].end
               /\ rows'[i].plan = rows[i].plan
               /\ rows[i].user = u => ~ rows'[i].active
               /\ rows[i].user # u => rows'[i] = rows[i]
               /\ rows'[i].active => rows[i].active
    <3>1. rows[i] \in Row
      BY <1>1, SubFacts
    <3>2. rows'[i] = IF rows[i].user = u THEN [rows[i] EXCEPT !.active = FALSE] ELSE rows[i]
      BY <1>2
    <3> QED
      BY <3>1, <3>2 DEF Row
  <2> QED
    BY <1>2, <2>1
<1>8. SubTypeOK'
  <2>1. rows' \in [DOMAIN rows' -> Row]
    BY <1>2, <1>7
  <2>2. last' \in [Users -> 0 .. made] /\ \A i \in DOMAIN rows' : rows'[i].plan \in plans
    BY <1>1, <1>2, <1>3, <1>7, SubFacts DEF SubTypeOK
  <2>3. proc' \in [Procs -> Jobs] /\ DOMAIN rows' \subseteq 1 .. made
    BY <1>1, <1>6, <1>7 DEF SubTypeOK
  <2>4. /\ today \in Days /\ plans \subseteq Plans /\ made \in 0 .. MaxRows
        /\ command \in {Ready} \cup [pc : {"notify"}, day : Days, ids : SUBSET Ids]
        /\ told \in [Ids -> Nat] /\ ran \in [Days -> 0 .. MaxRuns] /\ mixed \subseteq Users
    BY <1>1 DEF SubTypeOK
  <2> QED
    BY <1>2, <2>1, <2>2, <2>3, <2>4 DEF SubTypeOK, Jobs
<1>9. RowsFit'
  <2>1. made + Cardinality(Makers') <= MaxRows
    BY <1>1, <1>6 DEF RowsFit
  <2> QED
    BY <1>1, <1>2, <1>6, <2>1 DEF RowsFit
<1>10. CopiesAgree'
  <2> SUFFICES ASSUME NEW q \in Procs, Editing(q)'
               PROVE  /\ proc'[q].row.user = proc'[q].user
                      /\ proc'[q].id \in DOMAIN rows' =>
                            rows'[proc'[q].id].user = proc'[q].user /\ rows'[proc'[q].id].end = proc'[q].row.end
                      /\ \A s \in Procs : Editing(s)' /\ proc'[s].id = proc'[q].id =>
                            proc'[s].user = proc'[q].user /\ proc'[s].row.end = proc'[q].row.end
    BY DEF CopiesAgree
  <2>1. Editing(q) /\ q # p /\ proc'[q] = proc[q]
    BY <1>6
  <2>2. \A s \in Procs : Editing(s)' => Editing(s) /\ proc'[s] = proc[s]
    BY <1>6
  <2> QED
    BY <1>1, <1>7, <2>1, <2>2 DEF CopiesAgree
<1>11. OneAtATime'
  <2> SUFFICES ASSUME NEW v \in Users \ mixed
               PROVE  /\ \A a, b \in Procs : proc'[a] # Ready /\ proc'[b] # Ready /\ proc'[a].user = v /\ proc'[b].user = v => a = b
                      /\ \A q \in Procs :
                            /\ proc'[q].pc = "save" /\ proc'[q].user = v => last'[v] = 0
                            /\ Editing(q)' /\ proc'[q].user = v =>
                                  /\ proc'[q].id \in DOMAIN rows'
                                  /\ rows'[proc'[q].id].active = proc'[q].row.active
                                  /\ rows'[proc'[q].id].end = proc'[q].row.end
                            /\ Editing(q)' /\ proc'[q].id = last'[v] => proc'[q].user = v
                      /\ Active(v)' = {last'[v]} \cap DOMAIN rows'
    BY <1>2 DEF OneAtATime
  <2>1. last'[v] = IF v = u THEN 0 ELSE last[v]
    BY <1>1, <1>2 DEF SubTypeOK
  <2>2. \A a, b \in Procs : proc'[a] # Ready /\ proc'[b] # Ready /\ proc'[a].user = v /\ proc'[b].user = v => a = b
    BY <1>1, <1>3, <1>4, <1>5, <1>6 DEF OneAtATime
  <2>3. Active(v)' = {i \in DOMAIN rows' : rows'[i].user = v /\ rows'[i].active}
    BY DEF Active, Owned
  <2>4. {i \in DOMAIN rows : rows[i].user = v /\ rows[i].active} = {last[v]} \cap DOMAIN rows
    BY <1>1 DEF OneAtATime, Active, Owned
  <2>5. CASE v = u
    <3>1. \A q \in Procs : Editing(q)' => proc'[q].user # v
      BY <1>3, <1>4, <1>5, <1>6, <2>2, <2>5 DEF Editing, Ready
    <3>2. \A q \in Procs : Editing(q)' => proc'[q].id # 0
      BY <1>1, <1>6, SubFacts
    <3>3. Active(v)' = {} /\ 0 \notin DOMAIN rows'
      BY <1>1, <1>7, <2>3, <2>5, SubFacts
    <3> QED
      BY <2>1, <2>2, <2>5, <3>1, <3>2, <3>3
  <2>6. CASE v # u
    <3>1. Active(v)' = {last'[v]} \cap DOMAIN rows'
      BY <1>7, <2>1, <2>3, <2>4, <2>6
    <3>2. ASSUME NEW q \in Procs
          PROVE  /\ proc'[q].pc = "save" /\ proc'[q].user = v => last'[v] = 0
                 /\ Editing(q)' /\ proc'[q].id = last'[v] => proc'[q].user = v
      BY <1>1, <1>4, <1>6, <2>1, <2>6 DEF OneAtATime
    <3>3. ASSUME NEW q \in Procs, Editing(q)', proc'[q].user = v
          PROVE  /\ proc'[q].id \in DOMAIN rows'
                 /\ rows'[proc'[q].id].active = proc'[q].row.active
                 /\ rows'[proc'[q].id].end = proc'[q].row.end
      <4>1. Editing(q) /\ proc'[q] = proc[q] /\ proc[q].user = v
        BY <1>6, <3>3
      <4>2. /\ proc[q].id \in DOMAIN rows /\ rows[proc[q].id].active = proc[q].row.active
            /\ rows[proc[q].id].end = proc[q].row.end /\ rows[proc[q].id].user = v
        BY <1>1, <4>1 DEF OneAtATime, CopiesAgree
      <4> QED
        BY <1>7, <2>6, <4>1, <4>2
    <3> QED
      BY <2>2, <3>1, <3>2, <3>3
  <2> QED
    BY <2>5, <2>6
<1>12. DaysFit'
  BY <1>1, <1>2, <1>3, <1>4, <1>6 DEF DaysFit
<1>13. Announced'
  <2>1. \A i \in DOMAIN rows : CopyOK(i, rows[i])
    BY <1>1 DEF Announced
  <2>2. \A i \in DOMAIN rows' : CopyOK(i, rows[i]) /\ rows'[i].end = rows[i].end
    BY <1>7, <2>1
  <2>3. \A i \in DOMAIN rows' : CopyOK(i, rows[i])'
    BY <1>2, <1>7, <2>2 DEF CopyOK, RunsFor
  <2>4. \A q \in Procs : Editing(q)' => CopyOK(proc[q].id, proc[q].row)'
    BY <1>1, <1>2, <1>6 DEF Announced, CopyOK, RunsFor
  <2>5. \A i \in DOMAIN rows' : rows'[i].user \notin mixed /\ rows'[i].active =>
          /\ told[i] = RunsFor(rows[i].end)
          /\ command # Ready /\ rows'[i].end = command.day + Notice => i \in command.ids
    BY <1>1, <1>7 DEF Announced
  <2>6. \A i \in DOMAIN rows' : RunsFor(rows[i].end)' = RunsFor(rows[i].end)
    BY <1>2, <1>7 DEF RunsFor
  <2> QED
    BY <1>2, <2>3, <2>4, <2>5, <2>6 DEF Announced
<1> QED
  BY <1>8, <1>9, <1>10, <1>11, <1>12, <1>13 DEF SubInv

\* The new subscription is saved.
LEMMA SavingKeeps ==
    ASSUME SubInv, NEW p \in Procs, SaveSubscription(p)
    PROVE  SubInv'
<1> DEFINE u == proc[p].user
           new == [user |-> u, plan |-> proc[p].plan, end |-> proc[p].end, active |-> TRUE]
           n == made + 1
<1>1. SubTypeOK /\ RowsFit /\ CopiesAgree /\ OneAtATime /\ DaysFit /\ Announced
  BY DEF SubInv
<1>2. /\ proc[p].pc = "save" /\ proc[p].plan \in plans /\ Set(p, Ready)
      /\ rows' = [j \in DOMAIN rows \cup {n} |-> IF j = n THEN new ELSE rows[j]]
      /\ made' = n /\ last' = [last EXCEPT ![u] = n]
      /\ UNCHANGED <<today, plans, command, told, ran, mixed>>
  BY DEF SaveSubscription
<1>3. /\ Subscribing(p) /\ proc[p] # Ready /\ u \in Users /\ ~ Editing(p)
      /\ proc[p].plan \in Plans /\ proc[p].end \in Nat
  <2>1. Subscribing(p)
    BY <1>2 DEF Subscribing
  <2> QED
    BY <1>1, <2>1, SubFacts
<1>4. new \in Row /\ new.user = u /\ new.plan \in plans /\ new.end = proc[p].end /\ new.active
  BY <1>2, <1>3 DEF Row
<1>5. u = proc[p].user /\ n = made + 1
  OBVIOUS
<1> HIDE DEF u, new, n
<1>6. made \in Nat /\ n \in Nat /\ n > made /\ n \notin DOMAIN rows /\ MaxRows \in Nat
  BY <1>1, <1>5, SubFacts
<1>7. /\ proc'[p] = Ready /\ proc' \in [Procs -> Jobs] /\ ~ Editing(p)' /\ ~ Subscribing(p)'
      /\ \A q \in Procs : q # p => /\ proc'[q] = proc[q]
                                   /\ (Editing(q)' <=> Editing(q)) /\ (Subscribing(q)' <=> Subscribing(q))
      /\ Cardinality(Makers') \in Nat /\ Cardinality(Makers) \in Nat
      /\ Cardinality(Makers') = Cardinality(Makers) - 1
  <2>1. Ready \in Jobs /\ Ready.pc = "ready"
    BY <1>1, SubFacts DEF Ready
  <2> QED
    BY <1>1, <1>2, <1>3, <2>1, JobMoves
<1>8. /\ DOMAIN rows' = DOMAIN rows \cup {n} /\ rows'[n] = new
      /\ \A i \in DOMAIN rows : i # n /\ rows'[i] = rows[i]
  BY <1>2, <1>6
<1>9. \A v \in Users : last'[v] = IF v = u THEN n ELSE last[v]
  BY <1>1, <1>2 DEF SubTypeOK
<1>10. made' + Cardinality(Makers') <= MaxRows /\ n <= MaxRows
  <2> DEFINE a == Cardinality(Makers')
             b == Cardinality(Makers)
  <2>1. made + b <= MaxRows /\ a = b - 1 /\ a \in Nat /\ b \in Nat
    BY <1>1, <1>7 DEF RowsFit
  <2> HIDE DEF a, b
  <2>2. made' + a <= MaxRows /\ n <= MaxRows
    BY <1>2, <1>5, <1>6, <2>1
  <2> QED
    BY <2>2 DEF a
<1>11. \A q \in Procs : Editing(q)' => /\ q # p /\ Editing(q) /\ proc'[q] = proc[q]
                                       /\ proc'[q].id # n /\ proc'[q].id <= made /\ proc'[q].id \in Nat
  <2> SUFFICES ASSUME NEW q \in Procs, Editing(q)'
               PROVE  /\ q # p /\ Editing(q) /\ proc'[q] = proc[q]
                      /\ proc'[q].id # n /\ proc'[q].id <= made /\ proc'[q].id \in Nat
    OBVIOUS
  <2>1. q # p /\ Editing(q) /\ proc'[q] = proc[q]
    BY <1>7
  <2>2. proc[q].id <= made /\ proc[q].id \in Nat
    BY <1>1, <2>1, SubFacts DEF RowsFit
  <2> QED
    BY <1>6, <2>1, <2>2
<1>12. SubTypeOK'
  <2>1. DOMAIN rows' \subseteq 1 .. made'
    <3>1. DOMAIN rows \subseteq 1 .. made
      BY <1>1 DEF SubTypeOK
    <3>2. n \in 1 .. n /\ 1 .. made \subseteq 1 .. n
      BY <1>5, <1>6
    <3> QED
      BY <1>2, <1>8, <3>1, <3>2
  <2>2. rows' \in [DOMAIN rows' -> Row] /\ \A i \in DOMAIN rows' : rows'[i].plan \in plans
    <3>1. \A i \in DOMAIN rows' : rows'[i] \in Row /\ rows'[i].plan \in plans
      BY <1>1, <1>4, <1>8 DEF SubTypeOK
    <3> QED
      BY <1>2, <3>1
  <2>3. last' \in [Users -> 0 .. made'] /\ made' \in 0 .. MaxRows
    <3>1. last \in [Users -> 0 .. made]
      BY <1>1 DEF SubTypeOK
    <3>2. n \in 0 .. n /\ 0 .. made \subseteq 0 .. n /\ n \in 0 .. MaxRows
      BY <1>5, <1>6, <1>10
    <3> QED
      BY <1>2, <3>1, <3>2
  <2>4. /\ today \in Days /\ plans \subseteq Plans
        /\ command \in {Ready} \cup [pc : {"notify"}, day : Days, ids : SUBSET Ids]
        /\ told \in [Ids -> Nat] /\ ran \in [Days -> 0 .. MaxRuns] /\ mixed \subseteq Users
    BY <1>1 DEF SubTypeOK
  <2> QED
    BY <1>2, <1>7, <2>1, <2>2, <2>3, <2>4 DEF SubTypeOK, Jobs
<1>13. RowsFit'
  <2>1. \A q \in Procs : Editing(q)' => proc'[q].id <= made'
    BY <1>2, <1>5, <1>6, <1>11
  <2> QED
    BY <1>10, <2>1 DEF RowsFit
<1>14. CopiesAgree'
  <2> SUFFICES ASSUME NEW q \in Procs, Editing(q)'
               PROVE  /\ proc'[q].row.user = proc'[q].user
                      /\ proc'[q].id \in DOMAIN rows' =>
                            rows'[proc'[q].id].user = proc'[q].user /\ rows'[proc'[q].id].end = proc'[q].row.end
                      /\ \A s \in Procs : Editing(s)' /\ proc'[s].id = proc'[q].id =>
                            proc'[s].user = proc'[q].user /\ proc'[s].row.end = proc'[q].row.end
    BY DEF CopiesAgree
  <2>1. Editing(q) /\ proc'[q] = proc[q] /\ proc'[q].id # n
    BY <1>11
  <2>2. \A s \in Procs : Editing(s)' => Editing(s) /\ proc'[s] = proc[s]
    BY <1>11
  <2> QED
    BY <1>1, <1>8, <2>1, <2>2 DEF CopiesAgree
<1>15. OneAtATime'
  <2> SUFFICES ASSUME NEW v \in Users \ mixed
               PROVE  /\ \A a, b \in Procs : proc'[a] # Ready /\ proc'[b] # Ready /\ proc'[a].user = v /\ proc'[b].user = v => a = b
                      /\ \A q \in Procs :
                            /\ proc'[q].pc = "save" /\ proc'[q].user = v => last'[v] = 0
                            /\ Editing(q)' /\ proc'[q].user = v =>
                                  /\ proc'[q].id \in DOMAIN rows'
                                  /\ rows'[proc'[q].id].active = proc'[q].row.active
                                  /\ rows'[proc'[q].id].end = proc'[q].row.end
                            /\ Editing(q)' /\ proc'[q].id = last'[v] => proc'[q].user = v
                      /\ Active(v)' = {last'[v]} \cap DOMAIN rows'
    BY <1>2 DEF OneAtATime
  <2>1. \A a, b \in Procs : proc'[a] # Ready /\ proc'[b] # Ready /\ proc'[a].user = v /\ proc'[b].user = v => a = b
    BY <1>1, <1>7 DEF OneAtATime
  <2>2. Active(v)' = {i \in DOMAIN rows' : rows'[i].user = v /\ rows'[i].active}
    BY DEF Active, Owned
  <2>3. {i \in DOMAIN rows : rows[i].user = v /\ rows[i].active} = {last[v]} \cap DOMAIN rows
    BY <1>1 DEF OneAtATime, Active, Owned
  <2>4. CASE v = u
    <3>1. \A q \in Procs : q # p /\ proc[q] # Ready => proc[q].user # v
      BY <1>1, <1>3, <1>5, <2>4 DEF OneAtATime
    <3>2. \A q \in Procs : proc'[q] = Ready \/ proc'[q].user # v
      BY <1>7, <3>1
    <3>3. \A q \in Procs : Editing(q)' => proc'[q].id # last'[v] /\ proc'[q] # Ready
      BY <1>9, <1>11, <2>4 DEF Editing, Ready
    <3>4. last[v] = 0 /\ 0 \notin DOMAIN rows
      BY <1>1, <1>2, <1>5, <2>4, SubFacts DEF OneAtATime
    <3>5. {i \in DOMAIN rows : rows[i].user = v /\ rows[i].active} = {}
      BY <2>3, <3>4
    <3>6. Active(v)' = {n}
      BY <1>4, <1>8, <2>2, <2>4, <3>5
    <3>7. \A q \in Procs : proc'[q].pc = "save" => proc'[q] # Ready
      BY DEF Ready
    <3> QED
      BY <1>8, <1>9, <2>1, <2>4, <3>2, <3>3, <3>6, <3>7
  <2>5. CASE v # u
    <3>1. last'[v] = last[v] /\ last[v] # n
      BY <1>1, <1>5, <1>6, <1>9, <2>5 DEF SubTypeOK
    <3>2. Active(v)' = {last'[v]} \cap DOMAIN rows'
      BY <1>4, <1>8, <2>2, <2>3, <2>5, <3>1
    <3>3. ASSUME NEW q \in Procs
          PROVE  /\ proc'[q].pc = "save" /\ proc'[q].user = v => last'[v] = 0
                 /\ Editing(q)' /\ proc'[q].id = last'[v] => proc'[q].user = v
      <4>1. CASE q = p
        BY <1>7, <4>1 DEF Ready
      <4>2. CASE q # p
        BY <1>1, <1>7, <3>1, <4>2 DEF OneAtATime
      <4> QED
        BY <4>1, <4>2
    <3>4. ASSUME NEW q \in Procs, Editing(q)', proc'[q].user = v
          PROVE  /\ proc'[q].id \in DOMAIN rows'
                 /\ rows'[proc'[q].id].active = proc'[q].row.active
                 /\ rows'[proc'[q].id].end = proc'[q].row.end
      <4>1. Editing(q) /\ proc'[q] = proc[q] /\ proc[q].user = v
        BY <1>11, <3>4
      <4>2. /\ proc[q].id \in DOMAIN rows /\ rows[proc[q].id].active = proc[q].row.active
            /\ rows[proc[q].id].end = proc[q].row.end
        BY <1>1, <4>1 DEF OneAtATime
      <4> QED
        BY <1>8, <4>1, <4>2
    <3> QED
      BY <2>1, <3>2, <3>3, <3>4
  <2> QED
    BY <2>4, <2>5
<1>16. DaysFit'
  <2>1. command # Ready => \A i \in command.ids : i <= made'
    <3>1. command # Ready => command.ids \subseteq Nat /\ \A i \in command.ids : i <= made
      BY <1>1, SubFacts DEF DaysFit
    <3> QED
      BY <1>2, <1>5, <1>6, <3>1
  <2>2. \A i \in Ids : i > made' => told[i] = 0
    <3>1. \A i \in Ids : i \in Nat
      BY <1>1, SubFacts
    <3>2. \A i \in Ids : i > made => told[i] = 0
      BY <1>1 DEF DaysFit
    <3> QED
      BY <1>2, <1>5, <1>6, <3>1, <3>2
  <2> QED
    BY <1>1, <1>2, <1>7, <2>1, <2>2 DEF DaysFit
<1>17. Announced'
  <2>1. told[n] = 0 /\ (command # Ready => n \notin command.ids)
    <3>1. n \in Ids
      BY <1>5, <1>6, <1>10 DEF Ids
    <3> QED
      BY <1>1, <1>6, <3>1 DEF DaysFit
  <2>2. RunsFor(new.end) = 0 /\ (command # Ready => new.end # command.day + Notice)
    <3>1. /\ proc[p].day <= today /\ today <= proc[p].day + 1 /\ proc[p].day + Notice + 2 <= proc[p].end
          /\ command # Ready => command.day <= today
          /\ \A d \in Days : ran[d] > 0 => d <= today
      BY <1>1, <1>3 DEF DaysFit
    <3>2. proc[p].day \in Int /\ today \in Nat /\ Notice \in Nat /\ new.end \in Int /\ (command # Ready => command.day \in Int)
      BY <1>1, <1>3, <1>4, SubFacts
    <3>3. new.end - Notice > today
      BY <1>4, <3>1, <3>2
    <3>4. new.end - Notice \in Days => ran[new.end - Notice] = 0
      <4> SUFFICES ASSUME new.end - Notice \in Days
                   PROVE  ran[new.end - Notice] = 0
        OBVIOUS
      <4>1. ran[new.end - Notice] \in Nat
        BY <1>1, SubFacts
      <4>2. ~ (new.end - Notice <= today)
        BY <3>2, <3>3
      <4>3. ~ (ran[new.end - Notice] > 0)
        BY <3>1, <4>2
      <4> QED
        BY <4>1, <4>3
    <3>5. command # Ready => new.end # command.day + Notice
      BY <3>1, <3>2, <3>3
    <3> QED
      BY <3>4, <3>5 DEF RunsFor
  <2>3. \A i \in DOMAIN rows : CopyOK(i, rows[i])
    BY <1>1 DEF Announced
  <2>4. \A i \in DOMAIN rows' : CopyOK(i, rows[i])'
    <3>1. ASSUME NEW i \in DOMAIN rows
          PROVE  CopyOK(i, rows[i])'
      BY <1>2, <1>8, <2>3 DEF CopyOK, RunsFor
    <3>2. CopyOK(n, new)
      BY <2>1, <2>2 DEF CopyOK
    <3>3. ASSUME NEW i \in {n}
          PROVE  CopyOK(i, rows[i])'
      BY <1>2, <1>8, <3>2, <3>3 DEF CopyOK, RunsFor
    <3> QED
      BY <1>8, <3>1, <3>3
  <2>5. \A q \in Procs : Editing(q)' => CopyOK(proc[q].id, proc[q].row)'
    BY <1>1, <1>2, <1>11 DEF Announced, CopyOK, RunsFor
  <2>6. \A i \in DOMAIN rows' : rows'[i].user \notin mixed /\ rows'[i].active =>
          /\ told[i] = RunsFor(rows'[i].end)
          /\ command # Ready /\ rows'[i].end = command.day + Notice => i \in command.ids
    BY <1>1, <1>8, <2>1, <2>2 DEF Announced
  <2>7. \A i \in DOMAIN rows' : RunsFor(rows[i].end)' = RunsFor(rows'[i].end)
    BY <1>2 DEF RunsFor
  <2> QED
    BY <1>2, <2>4, <2>5, <2>6, <2>7 DEF Announced
<1> QED
  BY <1>12, <1>13, <1>14, <1>15, <1>16, <1>17 DEF SubInv

\* An edit saves the row that it has loaded, or fails with its plan.
LEMMA StoringKeeps ==
    ASSUME SubInv, NEW p \in Procs, StoreSubscription(p)
    PROVE  SubInv'
<1> DEFINE u == proc[p].user
           new == proc[p].row
           n == proc[p].id
<1>1. SubTypeOK /\ RowsFit /\ CopiesAgree /\ OneAtATime /\ DaysFit /\ Announced
  BY DEF SubInv
<1>2. /\ Editing(p) /\ Set(p, Ready)
      /\ rows' = IF new.plan \in plans
                 THEN [j \in DOMAIN rows \cup {n} |-> IF j = n THEN new ELSE rows[j]]
                 ELSE rows
      /\ UNCHANGED <<today, plans, made, command, told, ran, last, mixed>>
  BY DEF StoreSubscription, Editing
<1>3. /\ proc[p] # Ready /\ ~ Subscribing(p) /\ u \in Users /\ new \in Row /\ n \in Ids /\ n \in Nat /\ n >= 1
      /\ n <= made /\ made \in Nat /\ MaxRows \in Nat
  BY <1>1, <1>2, SubFacts DEF RowsFit
<1>4. /\ new.user = u
      /\ n \in DOMAIN rows => rows[n].user = u /\ rows[n].end = new.end
      /\ CopyOK(n, new)
  BY <1>1, <1>2 DEF CopiesAgree, Announced
<1>5. u = proc[p].user /\ n = proc[p].id /\ new = proc[p].row
  OBVIOUS
<1> HIDE DEF u, new, n
<1>6. /\ proc'[p] = Ready /\ proc' \in [Procs -> Jobs] /\ ~ Editing(p)' /\ ~ Subscribing(p)'
      /\ \A q \in Procs : q # p => /\ proc'[q] = proc[q]
                                   /\ (Editing(q)' <=> Editing(q)) /\ (Subscribing(q)' <=> Subscribing(q))
      /\ Cardinality(Makers') \in Nat /\ Cardinality(Makers) \in Nat
      /\ Cardinality(Makers') <= Cardinality(Makers)
  <2>1. Ready \in Jobs /\ Ready.pc = "ready"
    BY <1>1, SubFacts DEF Ready
  <2> QED
    BY <1>1, <1>2, <2>1, JobMoves
<1>7. \A q \in Procs : Editing(q)' => q # p /\ Editing(q) /\ proc'[q] = proc[q]
  BY <1>6
<1>8. /\ rows' = rows
      \/ /\ new.plan \in plans /\ DOMAIN rows' = DOMAIN rows \cup {n} /\ rows'[n] = new
         /\ \A i \in DOMAIN rows : i # n => rows'[i] = rows[i]
         /\ rows' = [j \in DOMAIN rows' |-> rows'[j]]
  BY <1>2
<1>9. SubTypeOK'
  <2>1. /\ DOMAIN rows' \subseteq 1 .. made /\ rows' \in [DOMAIN rows' -> Row]
        /\ \A i \in DOMAIN rows' : rows'[i].plan \in plans
    <3>1. CASE rows' = rows
      BY <1>1, <3>1 DEF SubTypeOK
    <3>2. CASE /\ new.plan \in plans /\ DOMAIN rows' = DOMAIN rows \cup {n} /\ rows'[n] = new
               /\ \A i \in DOMAIN rows : i # n => rows'[i] = rows[i]
               /\ rows' = [j \in DOMAIN rows' |-> rows'[j]]
      <4>1. n \in 1 .. made /\ DOMAIN rows \subseteq 1 .. made
        BY <1>1, <1>3 DEF SubTypeOK
      <4>2. \A i \in DOMAIN rows' : rows'[i] \in Row /\ rows'[i].plan \in plans
        BY <1>1, <1>3, <3>2 DEF SubTypeOK
      <4> QED
        BY <3>2, <4>1, <4>2
    <3> QED
      BY <1>8, <3>1, <3>2
  <2>2. /\ today \in Days /\ plans \subseteq Plans /\ made \in 0 .. MaxRows
        /\ command \in {Ready} \cup [pc : {"notify"}, day : Days, ids : SUBSET Ids]
        /\ told \in [Ids -> Nat] /\ ran \in [Days -> 0 .. MaxRuns] /\ mixed \subseteq Users
        /\ last \in [Users -> 0 .. made]
    BY <1>1 DEF SubTypeOK
  <2> QED
    BY <1>2, <1>6, <2>1, <2>2 DEF SubTypeOK, Jobs
<1>10. RowsFit'
  <2>1. made + Cardinality(Makers') <= MaxRows
    <3> DEFINE a == Cardinality(Makers')
               b == Cardinality(Makers)
    <3>1. made + b <= MaxRows /\ a <= b /\ a \in Nat /\ b \in Nat
      BY <1>1, <1>6 DEF RowsFit
    <3> HIDE DEF a, b
    <3>2. made + a <= MaxRows
      BY <1>3, <3>1
    <3> QED
      BY <3>2 DEF a
  <2> QED
    BY <1>1, <1>2, <1>7, <2>1 DEF RowsFit
<1>11. CopiesAgree'
  <2> SUFFICES ASSUME NEW q \in Procs, Editing(q)'
               PROVE  /\ proc'[q].row.user = proc'[q].user
                      /\ proc'[q].id \in DOMAIN rows' =>
                            rows'[proc'[q].id].user = proc'[q].user /\ rows'[proc'[q].id].end = proc'[q].row.end
                      /\ \A s \in Procs : Editing(s)' /\ proc'[s].id = proc'[q].id =>
                            proc'[s].user = proc'[q].user /\ proc'[s].row.end = proc'[q].row.end
    BY DEF CopiesAgree
  <2>1. Editing(q) /\ proc'[q] = proc[q]
    BY <1>7
  <2>2. \A s \in Procs : Editing(s)' => Editing(s) /\ proc'[s] = proc[s]
    BY <1>7
  <2>3. /\ proc[q].row.user = proc[q].user
        /\ proc[q].id \in DOMAIN rows =>
              rows[proc[q].id].user = proc[q].user /\ rows[proc[q].id].end = proc[q].row.end
        /\ \A s \in Procs : Editing(s) /\ proc[s].id = proc[q].id =>
              proc[s].user = proc[q].user /\ proc[s].row.end = proc[q].row.end
    BY <1>1, <2>1 DEF CopiesAgree
  <2>4. proc[q].id = n => proc[q].user = u /\ proc[q].row.end = new.end
    BY <1>2, <1>5, <2>3
  <2> QED
    BY <1>4, <1>8, <2>1, <2>2, <2>3, <2>4
<1>12. OneAtATime'
  <2> SUFFICES ASSUME NEW v \in Users \ mixed
               PROVE  /\ \A a, b \in Procs : proc'[a] # Ready /\ proc'[b] # Ready /\ proc'[a].user = v /\ proc'[b].user = v => a = b
                      /\ \A q \in Procs :
                            /\ proc'[q].pc = "save" /\ proc'[q].user = v => last[v] = 0
                            /\ Editing(q)' /\ proc'[q].user = v =>
                                  /\ proc'[q].id \in DOMAIN rows'
                                  /\ rows'[proc'[q].id].active = proc'[q].row.active
                                  /\ rows'[proc'[q].id].end = proc'[q].row.end
                            /\ Editing(q)' /\ proc'[q].id = last[v] => proc'[q].user = v
                      /\ Active(v)' = {last[v]} \cap DOMAIN rows'
    BY <1>2 DEF OneAtATime
  <2>1. \A a, b \in Procs : proc'[a] # Ready /\ proc'[b] # Ready /\ proc'[a].user = v /\ proc'[b].user = v => a = b
    BY <1>1, <1>6 DEF OneAtATime
  <2>2. Active(v)' = {i \in DOMAIN rows' : rows'[i].user = v /\ rows'[i].active}
    BY DEF Active, Owned
  <2>3. {i \in DOMAIN rows : rows[i].user = v /\ rows[i].active} = {last[v]} \cap DOMAIN rows
    BY <1>1 DEF OneAtATime, Active, Owned
  <2>4. v = u => n \in DOMAIN rows /\ rows[n].active = new.active
    BY <1>1, <1>2, <1>5 DEF OneAtATime
  <2>5. n = last[v] => v = u
    BY <1>1, <1>2, <1>5 DEF OneAtATime
  <2>6. Active(v)' = {last[v]} \cap DOMAIN rows'
    <3>1. CASE v = u
      <4>1. \A i \in DOMAIN rows : rows'[i].user = rows[i].user /\ rows'[i].active = rows[i].active
        BY <1>4, <1>8, <2>4, <3>1
      <4>2. DOMAIN rows' = DOMAIN rows
        BY <1>8, <2>4, <3>1
      <4> QED
        BY <2>2, <2>3, <4>1, <4>2
    <3>2. CASE v # u
      <4>1. n # last[v]
        BY <2>5, <3>2
      <4> QED
        BY <1>4, <1>8, <2>2, <2>3, <3>2, <4>1
    <3> QED
      BY <3>1, <3>2
  <2>7. ASSUME NEW q \in Procs
        PROVE  /\ proc'[q].pc = "save" /\ proc'[q].user = v => last[v] = 0
               /\ Editing(q)' /\ proc'[q].id = last[v] => proc'[q].user = v
    <3>1. CASE q = p
      BY <1>6, <3>1 DEF Ready
    <3>2. CASE q # p
      BY <1>1, <1>6, <3>2 DEF OneAtATime
    <3> QED
      BY <3>1, <3>2
  <2>8. ASSUME NEW q \in Procs, Editing(q)', proc'[q].user = v
        PROVE  /\ proc'[q].id \in DOMAIN rows'
               /\ rows'[proc'[q].id].active = proc'[q].row.active
               /\ rows'[proc'[q].id].end = proc'[q].row.end
    <3>1. Editing(q) /\ proc'[q] = proc[q] /\ proc[q].user = v /\ q # p /\ proc[q] # Ready
      BY <1>1, <1>7, <2>8, SubFacts
    <3>2. v # u
      BY <1>1, <1>3, <1>5, <3>1 DEF OneAtATime
    <3>3. proc[q].id # n
      BY <1>1, <1>2, <1>5, <3>1, <3>2 DEF CopiesAgree
    <3>4. /\ proc[q].id \in DOMAIN rows /\ rows[proc[q].id].active = proc[q].row.active
          /\ rows[proc[q].id].end = proc[q].row.end
      BY <1>1, <3>1 DEF OneAtATime
    <3> QED
      BY <1>8, <3>1, <3>3, <3>4
  <2> QED
    BY <2>1, <2>6, <2>7, <2>8
<1>13. DaysFit'
  BY <1>1, <1>2, <1>6 DEF DaysFit
<1>14. Announced'
  <2>1. \A i \in DOMAIN rows : CopyOK(i, rows[i])
    BY <1>1 DEF Announced
  <2>2. \A i \in DOMAIN rows' : CopyOK(i, rows'[i])
    BY <1>4, <1>8, <2>1
  <2>3. \A i \in DOMAIN rows' : CopyOK(i, rows[i])'
    BY <1>2, <2>2 DEF CopyOK, RunsFor
  <2>4. \A q \in Procs : Editing(q)' => CopyOK(proc[q].id, proc[q].row)'
    BY <1>1, <1>2, <1>7 DEF Announced, CopyOK, RunsFor
  <2>5. \A i \in DOMAIN rows' : rows'[i].user \notin mixed /\ rows'[i].active =>
          /\ told[i] = RunsFor(rows'[i].end)
          /\ command # Ready /\ rows'[i].end = command.day + Notice => i \in command.ids
    <3> SUFFICES ASSUME NEW i \in DOMAIN rows', rows'[i].user \notin mixed, rows'[i].active
                 PROVE  /\ told[i] = RunsFor(rows'[i].end)
                        /\ command # Ready /\ rows'[i].end = command.day + Notice => i \in command.ids
      OBVIOUS
    <3>1. u \notin mixed => n \in DOMAIN rows /\ rows[n].active = new.active
      BY <1>1, <1>2, <1>3, <1>5 DEF OneAtATime
    <3>2. i \in DOMAIN rows /\ rows[i].user \notin mixed /\ rows[i].active /\ rows'[i].end = rows[i].end
      BY <1>4, <1>8, <3>1
    <3> QED
      BY <1>1, <3>2 DEF Announced
  <2>6. \A i \in DOMAIN rows' : RunsFor(rows[i].end)' = RunsFor(rows'[i].end)
    BY <1>2 DEF RunsFor
  <2>7. (\A i \in DOMAIN rows : rows[i].user \notin mixed /\ rows[i].active =>
            /\ told[i] = RunsFor(rows[i].end)
            /\ command # Ready /\ rows[i].end = command.day + Notice => i \in command.ids)'
    BY <1>2, <2>5, <2>6
  <2> QED
    BY <2>3, <2>4, <2>7 DEF Announced
<1> QED
  BY <1>9, <1>10, <1>11, <1>12, <1>13, <1>14 DEF SubInv

\* A subscription, or all those of a plan, are deleted.
LEMMA DeletingKeeps ==
    ASSUME SubInv, NEW S, Delete(S), plans' \subseteq plans, \A i \in DOMAIN rows \ S : rows[i].plan \in plans',
           UNCHANGED <<today, made, proc, command, told, ran, last>>
    PROVE  SubInv'
<1>1. SubTypeOK /\ RowsFit /\ CopiesAgree /\ OneAtATime /\ DaysFit /\ Announced
  BY DEF SubInv
<1>2. /\ DOMAIN rows' = DOMAIN rows \ S /\ \A i \in DOMAIN rows' : rows'[i] = rows[i]
      /\ rows' = [i \in DOMAIN rows' |-> rows'[i]]
      /\ mixed' = mixed \cup {u \in Users : \E p \in Procs :
                                proc[p].pc = "edit" /\ proc[p].user = u /\ proc[p].id \in S}
  BY DEF Delete
<1>3. /\ \A p \in Procs : (Editing(p)' <=> Editing(p)) /\ (Subscribing(p)' <=> Subscribing(p))
      /\ Makers' = Makers
  BY DEF Editing, Subscribing, Makers
<1>4. SubTypeOK'
  <2>1. rows' \in [DOMAIN rows' -> Row]
    <3>1. \A i \in DOMAIN rows' : rows'[i] \in Row
      BY <1>1, <1>2 DEF SubTypeOK
    <3> QED
      BY <1>2, <3>1
  <2>2. /\ DOMAIN rows' \subseteq 1 .. made /\ \A i \in DOMAIN rows' : rows'[i].plan \in plans'
        /\ plans' \subseteq Plans /\ mixed' \subseteq Users
    BY <1>1, <1>2 DEF SubTypeOK
  <2> QED
    BY <1>1, <2>1, <2>2 DEF SubTypeOK
<1>5. RowsFit'
  <2>1. Cardinality(Makers') = Cardinality(Makers)
    BY <1>3
  <2> QED
    BY <1>1, <1>3, <2>1 DEF RowsFit
<1>6. CopiesAgree'
  BY <1>1, <1>2, <1>3 DEF CopiesAgree
<1>7. OneAtATime'
  <2> SUFFICES ASSUME NEW v \in Users \ mixed'
               PROVE  /\ \A a, b \in Procs : proc[a] # Ready /\ proc[b] # Ready /\ proc[a].user = v /\ proc[b].user = v => a = b
                      /\ \A q \in Procs :
                            /\ proc[q].pc = "save" /\ proc[q].user = v => last[v] = 0
                            /\ Editing(q) /\ proc[q].user = v =>
                                  /\ proc[q].id \in DOMAIN rows'
                                  /\ rows'[proc[q].id].active = proc[q].row.active
                                  /\ rows'[proc[q].id].end = proc[q].row.end
                            /\ Editing(q) /\ proc[q].id = last[v] => proc[q].user = v
                      /\ Active(v)' = {last[v]} \cap DOMAIN rows'
    BY <1>3 DEF OneAtATime
  <2>1. v \in Users \ mixed /\ \A q \in Procs : Editing(q) /\ proc[q].user = v => proc[q].id \notin S
    BY <1>2 DEF Editing
  <2>2. Active(v)' = {i \in DOMAIN rows' : rows'[i].user = v /\ rows'[i].active}
    BY DEF Active, Owned
  <2>3. {i \in DOMAIN rows : rows[i].user = v /\ rows[i].active} = {last[v]} \cap DOMAIN rows
    BY <1>1, <2>1 DEF OneAtATime, Active, Owned
  <2>4. Active(v)' = {last[v]} \cap DOMAIN rows'
    BY <1>2, <2>2, <2>3
  <2> QED
    BY <1>1, <1>2, <2>1, <2>4 DEF OneAtATime
<1>8. DaysFit'
  BY <1>1, <1>3 DEF DaysFit
<1>9. Announced'
  BY <1>1, <1>2, <1>3 DEF Announced, CopyOK, RunsFor
<1> QED
  BY <1>4, <1>5, <1>6, <1>7, <1>8, <1>9 DEF SubInv

\* A run on each of the days is one of the runs that are counted.
LEMMA RunsOfADay ==
    ASSUME SubTypeOK, MapThenSumSet(LAMBDA d : ran[d], Days) < MaxRuns, NEW d \in Days
    PROVE  ran[d] < MaxRuns
<1>1. IsFiniteSet(Days) /\ MaxRuns \in Nat
  <2>1. 0 \in Int /\ MaxDay \in Int
    BY SubscriptionAssumption
  <2> QED
    BY <2>1, SubscriptionAssumption, FS_Interval DEF Days
<1>2. MapThenSumSet(LAMBDA x : ran[x], Days) = SumOver(ran, Days)
  BY DEF SumOver
<1>3. \A x \in Days : ran[x] \in Nat /\ ran[x] \in Int
  BY SubFacts
<1>4. SumOver(ran, Days) = ran[d] + SumOver(ran, Days \ {d})
  BY <1>1, <1>3, SumTakesAny
<1>5. SumOver(ran, Days \ {d}) \in Nat
  <2>1. IsFiniteSet(Days \ {d}) /\ \A x \in Days \ {d} : ran[x] \in Nat /\ ran[x] \in Int
    BY <1>1, <1>3, FS_Subset
  <2> QED
    BY <2>1, SumType
<1>6. ran[d] \in Nat
  BY <1>3
<1> DEFINE a == SumOver(ran, Days)
           b == SumOver(ran, Days \ {d})
<1>7. a < MaxRuns /\ a = ran[d] + b /\ b \in Nat
  BY <1>2, <1>4, <1>5
<1> HIDE DEF a, b
<1> QED
  BY <1>1, <1>6, <1>7

\* The command looks for the subscriptions that end in a week.
LEMMA SelectKeeps ==
    ASSUME SubInv, Select
    PROVE  SubInv'
<1>1. SubTypeOK /\ RowsFit /\ CopiesAgree /\ OneAtATime /\ DaysFit /\ Announced
  BY DEF SubInv
<1>2. /\ command = Ready /\ MapThenSumSet(LAMBDA d : ran[d], Days) < MaxRuns
      /\ command' = [pc |-> "notify", day |-> today, ids |-> EndingOn(today + Notice)]
      /\ UNCHANGED <<today, plans, rows, made, proc, told, ran, last, mixed>>
  BY DEF Select
<1>3. /\ EndingOn(today + Notice) \subseteq DOMAIN rows /\ today \in Days /\ today \in Nat
      /\ DOMAIN rows \subseteq Ids
      /\ \A i \in DOMAIN rows : i \in EndingOn(today + Notice) <=> rows[i].active /\ rows[i].end = today + Notice
  BY <1>1, SubFacts DEF EndingOn, SubTypeOK
<1>4. command'.day = today /\ command'.ids = EndingOn(today + Notice) /\ command' # Ready
  BY <1>2 DEF Ready
<1>5. \A p \in Procs : (Editing(p)' <=> Editing(p)) /\ (Subscribing(p)' <=> Subscribing(p))
  BY <1>2 DEF Editing, Subscribing
<1>6. SubTypeOK'
  <2>1. command' \in [pc : {"notify"}, day : Days, ids : SUBSET Ids]
    BY <1>2, <1>3
  <2> QED
    BY <1>1, <1>2, <2>1 DEF SubTypeOK
<1>7. RowsFit' /\ CopiesAgree' /\ OneAtATime'
  <2>1. Makers' = Makers /\ Cardinality(Makers') = Cardinality(Makers)
    BY <1>2 DEF Makers, Subscribing
  <2>2. RowsFit'
    BY <1>1, <1>2, <1>5, <2>1 DEF RowsFit
  <2>3. CopiesAgree'
    BY <1>1, <1>2, <1>5 DEF CopiesAgree
  <2>4. OneAtATime'
    BY <1>1, <1>2, <1>5 DEF OneAtATime, Active, Owned
  <2> QED
    BY <2>2, <2>3, <2>4
<1>8. DaysFit'
  <2>1. ran[today] < MaxRuns
    BY <1>1, <1>2, <1>3, RunsOfADay
  <2>2. \A i \in command'.ids : i <= made
    BY <1>1, <1>3, <1>4, SubFacts
  <2>3. \A p \in Procs : Subscribing(p)' => proc[p].day + Notice + 2 <= proc[p].end
    BY <1>1, <1>5 DEF DaysFit
  <2>4. /\ \A p \in Procs : proc[p] # Ready => proc[p].day <= today /\ today <= proc[p].day + 1
        /\ \A d \in Days : ran[d] > 0 => d <= today
        /\ \A i \in Ids : i > made => told[i] = 0
    BY <1>1 DEF DaysFit
  <2> QED
    BY <1>2, <1>3, <1>4, <2>1, <2>2, <2>3, <2>4 DEF DaysFit
<1>9. Announced'
  <2>1. \A i \in DOMAIN rows : CopyOK(i, rows[i])'
    <3> SUFFICES ASSUME NEW i \in DOMAIN rows
                 PROVE  CopyOK(i, rows[i])'
      OBVIOUS
    <3>1. told[i] <= RunsFor(rows[i].end)
      BY <1>1 DEF Announced, CopyOK
    <3>2. i \in command'.ids => rows[i].end = command'.day + Notice
      BY <1>3, <1>4
    <3> QED
      BY <1>2, <3>1, <3>2 DEF CopyOK, RunsFor
  <2>2. \A p \in Procs : Editing(p) => CopyOK(proc[p].id, proc[p].row)'
    <3> SUFFICES ASSUME NEW p \in Procs, Editing(p)
                 PROVE  CopyOK(proc[p].id, proc[p].row)'
      OBVIOUS
    <3>1. told[proc[p].id] <= RunsFor(proc[p].row.end)
      BY <1>1 DEF Announced, CopyOK
    <3>2. proc[p].id \in command'.ids => proc[p].row.end = command'.day + Notice
      BY <1>1, <1>3, <1>4 DEF CopiesAgree
    <3> QED
      BY <1>2, <3>1, <3>2 DEF CopyOK, RunsFor
  <2>3. \A i \in DOMAIN rows : rows[i].user \notin mixed /\ rows[i].active =>
          /\ told[i] = RunsFor(rows[i].end)
          /\ rows[i].end = command'.day + Notice => i \in command'.ids
    BY <1>1, <1>3, <1>4 DEF Announced
  <2>4. \A i \in DOMAIN rows : RunsFor(rows[i].end)' = RunsFor(rows[i].end)
    BY <1>2 DEF RunsFor
  <2> QED
    BY <1>2, <1>5, <2>1, <2>2, <2>3, <2>4 DEF Announced
<1> QED
  BY <1>6, <1>7, <1>8, <1>9 DEF SubInv

\* The command notifies of them.
LEMMA NotifyKeeps ==
    ASSUME SubInv, Notify
    PROVE  SubInv'
<1> DEFINE After(end) == IF end - Notice \in Days THEN ran'[end - Notice] ELSE 0
<1>1. SubTypeOK /\ RowsFit /\ CopiesAgree /\ OneAtATime /\ DaysFit /\ Announced
  BY DEF SubInv
<1>2. /\ command.pc = "notify" /\ command # Ready
      /\ told' = [i \in Ids |-> told[i] + IF i \in command.ids THEN 1 ELSE 0]
      /\ ran' = [ran EXCEPT ![command.day] = @ + 1]
      /\ command' = Ready
      /\ UNCHANGED <<today, plans, rows, made, proc, last, mixed>>
  BY DEF Notify, Ready
<1>3. /\ command.day \in Days /\ command.day \in Int /\ command.ids \subseteq Ids
      /\ command.day <= today /\ ran[command.day] < MaxRuns /\ MaxRuns \in Nat
      /\ \A i \in command.ids : i <= made
  BY <1>1, <1>2, SubFacts DEF DaysFit
<1>4. /\ \A i \in Ids : /\ told[i] \in Nat /\ told'[i] = told[i] + IF i \in command.ids THEN 1 ELSE 0
      /\ \A d \in Days : ran[d] \in Nat /\ ran'[d] = IF d = command.day THEN ran[d] + 1 ELSE ran[d]
  BY <1>1, <1>2, <1>3, SubFacts DEF SubTypeOK
<1>5. \A p \in Procs : (Editing(p)' <=> Editing(p)) /\ (Subscribing(p)' <=> Subscribing(p))
  BY <1>2 DEF Editing, Subscribing
<1>6. SubTypeOK'
  <2>1. told' \in [Ids -> Nat]
    BY <1>2, <1>4
  <2>2. ran' \in [Days -> 0 .. MaxRuns]
    <3>1. ran[command.day] + 1 \in 0 .. MaxRuns
      BY <1>3, <1>4
    <3>2. ran \in [Days -> 0 .. MaxRuns]
      BY <1>1 DEF SubTypeOK
    <3> QED
      BY <1>2, <1>3, <3>1, <3>2
  <2> QED
    BY <1>1, <1>2, <2>1, <2>2 DEF SubTypeOK
<1>7. RowsFit' /\ CopiesAgree' /\ OneAtATime'
  <2>1. Makers' = Makers /\ Cardinality(Makers') = Cardinality(Makers)
    BY <1>2 DEF Makers, Subscribing
  <2>2. RowsFit'
    BY <1>1, <1>2, <1>5, <2>1 DEF RowsFit
  <2>3. CopiesAgree'
    BY <1>1, <1>2, <1>5 DEF CopiesAgree
  <2>4. OneAtATime'
    BY <1>1, <1>2, <1>5 DEF OneAtATime, Active, Owned
  <2> QED
    BY <2>2, <2>3, <2>4
<1>8. DaysFit'
  <2>1. \A d \in Days : ran'[d] > 0 => d <= today
    BY <1>1, <1>3, <1>4 DEF DaysFit
  <2>2. \A i \in Ids : i > made => told'[i] = 0
    <3> SUFFICES ASSUME NEW i \in Ids, i > made
                 PROVE  told'[i] = 0
      OBVIOUS
    <3>1. told[i] = 0
      BY <1>1 DEF DaysFit
    <3>2. i \notin command.ids
      <4>1. i \in Nat /\ made \in Nat
        BY <1>1, SubFacts
      <4>2. ~ (i <= made)
        BY <4>1
      <4> QED
        BY <1>3, <4>2
    <3> QED
      BY <1>4, <3>1, <3>2
  <2> QED
    BY <1>1, <1>2, <1>5, <2>1, <2>2 DEF DaysFit
<1>9. ASSUME NEW end \in Int
      PROVE  After(end) = RunsFor(end) + IF end = command.day + Notice THEN 1 ELSE 0
  <2>1. Notice \in Nat
    BY SubscriptionAssumption
  <2>2. end = command.day + Notice <=> end - Notice = command.day
    BY <1>3, <2>1
  <2>3. CASE end - Notice \in Days
    BY <1>4, <2>2, <2>3 DEF RunsFor
  <2>4. CASE end - Notice \notin Days
    BY <1>3, <2>2, <2>4 DEF RunsFor
  <2> QED
    BY <2>3, <2>4
<1>10. ASSUME NEW end \in Int
       PROVE  RunsFor(end) \in Nat
  BY <1>4 DEF RunsFor
<1>11. ASSUME NEW i \in Ids, NEW r \in Row, CopyOK(i, r)
       PROVE  told'[i] <= After(r.end)
  <2>1. r.end \in Int
    BY DEF Row
  <2> DEFINE a == RunsFor(r.end)
             b == After(r.end)
  <2>2. /\ told[i] <= a /\ a \in Nat /\ b = a + IF r.end = command.day + Notice THEN 1 ELSE 0
        /\ i \in command.ids => r.end = command.day + Notice
    BY <1>2, <1>9, <1>10, <1>11, <2>1 DEF CopyOK
  <2>3. told[i] \in Nat /\ told'[i] = told[i] + IF i \in command.ids THEN 1 ELSE 0
    BY <1>4
  <2> HIDE DEF a, b
  <2>4. told'[i] <= b
    BY <2>2, <2>3
  <2> QED
    BY <2>4 DEF b
<1>12. Announced'
  <2>1. \A i \in DOMAIN rows : CopyOK(i, rows[i])'
    <3> SUFFICES ASSUME NEW i \in DOMAIN rows
                 PROVE  CopyOK(i, rows[i])'
      OBVIOUS
    <3>1. i \in Ids /\ rows[i] \in Row /\ CopyOK(i, rows[i])
      BY <1>1, SubFacts DEF Announced
    <3>2. told'[i] <= After(rows[i].end)
      BY <1>11, <3>1
    <3> QED
      BY <1>2, <3>2 DEF CopyOK, RunsFor
  <2>2. \A p \in Procs : Editing(p) => CopyOK(proc[p].id, proc[p].row)'
    <3> SUFFICES ASSUME NEW p \in Procs, Editing(p)
                 PROVE  CopyOK(proc[p].id, proc[p].row)'
      OBVIOUS
    <3>1. proc[p].id \in Ids /\ proc[p].row \in Row /\ CopyOK(proc[p].id, proc[p].row)
      BY <1>1, SubFacts DEF Announced
    <3>2. told'[proc[p].id] <= After(proc[p].row.end)
      BY <1>11, <3>1
    <3> QED
      BY <1>2, <3>2 DEF CopyOK, RunsFor
  <2>3. \A i \in DOMAIN rows : rows[i].user \notin mixed /\ rows[i].active => told'[i] = After(rows[i].end)
    <3> SUFFICES ASSUME NEW i \in DOMAIN rows, rows[i].user \notin mixed, rows[i].active
                 PROVE  told'[i] = After(rows[i].end)
      OBVIOUS
    <3>1. i \in Ids /\ rows[i].end \in Int
      BY <1>1, SubFacts
    <3>2. told[i] = RunsFor(rows[i].end) /\ (i \in command.ids <=> rows[i].end = command.day + Notice)
      BY <1>1, <1>2 DEF Announced, CopyOK
    <3> QED
      BY <1>4, <1>9, <3>1, <3>2
  <2> QED
    BY <1>2, <1>5, <2>1, <2>2, <2>3 DEF Announced, RunsFor
<1> QED
  BY <1>6, <1>7, <1>8, <1>12 DEF SubInv

\* A midnight.
LEMMA MidnightKeeps ==
    ASSUME SubInv, DayPasses
    PROVE  SubInv'
<1>1. SubTypeOK /\ RowsFit /\ CopiesAgree /\ OneAtATime /\ DaysFit /\ Announced
  BY DEF SubInv
<1>2. /\ today < MaxDay /\ \A p \in Procs : proc[p] # Ready => proc[p].day = today
      /\ today' = today + 1
      /\ UNCHANGED <<plans, rows, made, proc, command, told, ran, last, mixed>>
  BY DEF DayPasses
<1>3. today \in Nat /\ MaxDay \in Nat /\ Days \subseteq Int /\ (command # Ready => command.day \in Int)
  BY <1>1, SubFacts DEF Days
<1>4. \A p \in Procs : (Editing(p)' <=> Editing(p)) /\ (Subscribing(p)' <=> Subscribing(p))
  BY <1>2 DEF Editing, Subscribing
<1>5. SubTypeOK'
  <2>1. today' \in Days
    BY <1>2, <1>3 DEF Days
  <2> QED
    BY <1>1, <1>2, <2>1 DEF SubTypeOK
<1>6. RowsFit' /\ CopiesAgree' /\ OneAtATime'
  <2>1. Makers' = Makers /\ Cardinality(Makers') = Cardinality(Makers)
    BY <1>2 DEF Makers, Subscribing
  <2>2. RowsFit'
    BY <1>1, <1>2, <1>4, <2>1 DEF RowsFit
  <2>3. CopiesAgree'
    BY <1>1, <1>2, <1>4 DEF CopiesAgree
  <2>4. OneAtATime'
    BY <1>1, <1>2, <1>4 DEF OneAtATime, Active, Owned
  <2> QED
    BY <2>2, <2>3, <2>4
<1>7. DaysFit'
  <2>1. \A p \in Procs : proc[p] # Ready => proc[p].day <= today' /\ today' <= proc[p].day + 1
    BY <1>2, <1>3
  <2>2. \A d \in Days : ran[d] > 0 => d <= today'
    BY <1>1, <1>2, <1>3 DEF DaysFit
  <2>3. command # Ready => command.day <= today' /\ ran[command.day] < MaxRuns /\ \A i \in command.ids : i <= made
    BY <1>1, <1>2, <1>3 DEF DaysFit
  <2>4. /\ \A p \in Procs : Subscribing(p)' => proc[p].day + Notice + 2 <= proc[p].end
        /\ \A i \in Ids : i > made => told[i] = 0
    BY <1>1, <1>4 DEF DaysFit
  <2> QED
    BY <1>2, <2>1, <2>2, <2>3, <2>4 DEF DaysFit
<1>8. Announced'
  BY <1>1, <1>2, <1>4 DEF Announced, CopyOK, RunsFor
<1> QED
  BY <1>5, <1>6, <1>7, <1>8 DEF SubInv

\* Nothing has been made yet.
LEMMA SubInitially ==
    ASSUME SubInit
    PROVE  SubInv
<1>1. /\ today = 0 /\ plans = Plans /\ rows = << >> /\ made = 0 /\ command = Ready /\ mixed = {}
      /\ proc = [p \in Procs |-> Ready] /\ told = [i \in Ids |-> 0]
      /\ ran = [d \in Days |-> 0] /\ last = [u \in Users |-> 0]
  BY DEF SubInit
<1>2. MaxRows \in Nat /\ MaxDay \in Nat /\ MaxRuns \in Nat
  BY SubscriptionAssumption
<1>3. DOMAIN rows = {} /\ rows \in [DOMAIN rows -> Row]
  BY <1>1
<1>4. \A p \in Procs : proc[p] = Ready /\ ~ Subscribing(p) /\ ~ Editing(p) /\ proc[p].pc # "save"
  BY <1>1 DEF Ready, Subscribing, Editing
<1>5. SubTypeOK
  <2>1. 0 \in Days /\ 0 \in 0 .. MaxRows /\ 0 \in 0 .. MaxRuns /\ 0 \in 0 .. made
    BY <1>1, <1>2 DEF Days
  <2>2. ran \in [Days -> 0 .. MaxRuns] /\ last \in [Users -> 0 .. made] /\ told \in [Ids -> Nat]
    BY <1>1, <2>1
  <2> QED
    BY <1>1, <1>3, <2>1, <2>2 DEF SubTypeOK
<1>6. RowsFit
  <2>1. Makers = {}
    BY <1>4 DEF Makers
  <2>2. Cardinality(Makers) = 0
    BY <2>1, FS_EmptySet
  <2> QED
    BY <1>1, <1>2, <1>4, <2>2 DEF RowsFit
<1>7. CopiesAgree /\ OneAtATime
  <2>1. \A u : Active(u) = {}
    BY <1>3 DEF Active, Owned
  <2> QED
    BY <1>3, <1>4, <2>1 DEF CopiesAgree, OneAtATime
<1>8. DaysFit /\ Announced
  BY <1>1, <1>3, <1>4 DEF DaysFit, Announced
<1> QED
  BY <1>5, <1>6, <1>7, <1>8 DEF SubInv

\* Every step keeps the invariant.
LEMMA SubKept ==
    ASSUME SubInv, [SubNext]_subVars
    PROVE  SubInv'
<1>1. CASE UNCHANGED subVars
  <2>1. /\ UNCHANGED <<today, plans, rows, made, proc, command, told, ran, last, mixed>>
        /\ \A p \in Procs : (Editing(p)' <=> Editing(p)) /\ (Subscribing(p)' <=> Subscribing(p))
        /\ Makers' = Makers
    BY <1>1 DEF subVars, Editing, Subscribing, Makers
  <2>2. Cardinality(Makers') = Cardinality(Makers)
    BY <2>1
  <2>3. SubTypeOK' /\ RowsFit' /\ CopiesAgree'
    BY <2>1, <2>2 DEF SubInv, SubTypeOK, RowsFit, CopiesAgree
  <2>4. OneAtATime'
    BY <2>1 DEF SubInv, OneAtATime, Active, Owned
  <2>5. DaysFit'
    BY <2>1 DEF SubInv, DaysFit
  <2>6. Announced'
    BY <2>1 DEF SubInv, Announced, CopyOK, RunsFor
  <2> QED
    BY <2>3, <2>4, <2>5, <2>6 DEF SubInv
<1>2. ASSUME NEW p \in Procs, NEW u \in Users, NEW k \in Plans, NEW n \in Lengths, BeginSubscribe(p, u, k, n)
      PROVE  SubInv'
  BY <1>2, AskingKeeps
<1>3. ASSUME NEW p \in Procs, DeactivatePrevious(p)
      PROVE  SubInv'
  BY <1>3, DeactivatingKeeps
<1>4. ASSUME NEW p \in Procs, SaveSubscription(p)
      PROVE  SubInv'
  BY <1>4, SavingKeeps
<1>5. ASSUME NEW p \in Procs, SaveFails(p) \/ Crash(p)
      PROVE  SubInv'
  BY <1>5, GivingUpKeeps
<1>6. ASSUME NEW p \in Procs, NEW i \in DOMAIN rows, NEW k \in Plans, LoadSubscription(p, i, k)
      PROVE  SubInv'
  BY <1>6, LoadingKeeps
<1>7. ASSUME NEW p \in Procs, StoreSubscription(p)
      PROVE  SubInv'
  BY <1>7, StoringKeeps
<1>8. ASSUME NEW i \in DOMAIN rows, DeleteSubscription(i)
      PROVE  SubInv'
  <2>1. /\ Delete({i}) /\ UNCHANGED <<today, plans, made, proc, command, told, ran, last>>
    BY <1>8 DEF DeleteSubscription
  <2>2. \A j \in DOMAIN rows : rows[j].plan \in plans
    BY DEF SubInv, SubTypeOK
  <2>3. plans' \subseteq plans /\ \A j \in DOMAIN rows \ {i} : rows[j].plan \in plans'
    BY <2>1, <2>2
  <2> QED
    BY <2>1, <2>3, DeletingKeeps
<1>9. ASSUME NEW k \in Plans, DeletePlan(k)
      PROVE  SubInv'
  <2> DEFINE S == {i \in DOMAIN rows : rows[i].plan = k}
  <2>1. /\ Delete(S) /\ plans' = plans \ {k} /\ UNCHANGED <<today, made, proc, command, told, ran, last>>
    BY <1>9 DEF DeletePlan
  <2>2. \A j \in DOMAIN rows \ S : rows[j].plan \in plans /\ rows[j].plan # k
    BY DEF SubInv, SubTypeOK
  <2> HIDE DEF S
  <2>3. plans' \subseteq plans /\ \A j \in DOMAIN rows \ S : rows[j].plan \in plans'
    BY <2>1, <2>2
  <2> QED
    BY <2>1, <2>3, DeletingKeeps
<1>10. CASE Select
  BY <1>10, SelectKeeps
<1>11. CASE Notify
  BY <1>11, NotifyKeeps
<1>12. CASE DayPasses
  BY <1>12, MidnightKeeps
<1> QED
  BY <1>1, <1>2, <1>3, <1>4, <1>5, <1>6, <1>7, <1>8, <1>9, <1>10, <1>11, <1>12 DEF SubNext

\* The tables and what requests and the command hold have their types at every
\* moment; in particular no subscription outlives its plan, although an edit may
\* bring one back that was deleted.
THEOREM SubscriptionTypesCorrect == SubSpec => []SubTypeOK
<1>1. SubInit => SubInv
  BY SubInitially
<1>2. SubInv /\ [SubNext]_subVars => SubInv'
  BY SubKept
<1>3. SubInv => SubTypeOK
  BY DEF SubInv
<1> QED
  BY <1>1, <1>2, <1>3, PTL DEF SubSpec

\* A user whose requests have not overlapped has the latest subscription active
\* and no other, for any number of users, plans and requests at a time, whatever
\* the requests of other users, deletions and the command do in between.
THEOREM LatestCorrect == SubSpec => []LatestIsActive
<1>1. SubInit => SubInv
  BY SubInitially
<1>2. SubInv /\ [SubNext]_subVars => SubInv'
  BY SubKept
<1>3. ASSUME SubInv
      PROVE  LatestIsActive
  <2> SUFFICES ASSUME NEW u \in Users \ mixed
               PROVE  /\ Active(u) = {last[u]} \cap DOMAIN rows
                      /\ Current(u) # 0 => Current(u) = last[u]
                      /\ Active(u) # {} /\ Current(u) = 0 => rows[last[u]].end <= today
    BY DEF LatestIsActive
  <2>1. SubTypeOK /\ Active(u) = {last[u]} \cap DOMAIN rows
    BY <1>3 DEF SubInv, OneAtATime
  <2>2. Running(u) = {i \in Active(u) : rows[i].end > today}
    BY DEF Running
  <2>3. \A i \in Active(u) : i = last[u] /\ i \in Nat /\ i # 0 /\ rows[i].end \in Int /\ today \in Int
    BY <2>1, SubFacts
  <2>4. CASE Running(u) = {}
    <3>1. Current(u) = 0
      BY <2>4 DEF Current
    <3>2. Active(u) # {} => rows[last[u]].end <= today
      BY <2>2, <2>3, <2>4
    <3> QED
      BY <2>1, <3>1, <3>2
  <2>5. CASE Running(u) # {}
    <3>1. Min(Running(u)) \in Running(u)
      BY <2>2, <2>3, <2>5, MinOfNaturals
    <3>2. Current(u) \in Active(u)
      BY <2>2, <2>5, <3>1 DEF Current
    <3> QED
      BY <2>1, <2>3, <3>2
  <2> QED
    BY <2>4, <2>5
<1> QED
  BY <1>1, <1>2, <1>3, PTL DEF SubSpec

\* Subscriptions are announced on the one right day, once in every run of the
\* command on that day: whatever is made, edited or deleted during the run, and
\* whenever midnight falls.
THEOREM AnnouncedCorrect == SubSpec => []AnnouncedPerRun
<1>1. SubInit => SubInv
  BY SubInitially
<1>2. SubInv /\ [SubNext]_subVars => SubInv'
  BY SubKept
<1>3. SubInv => AnnouncedPerRun
  BY DEF SubInv, Announced, CopyOK, RunsFor, AnnouncedPerRun
<1> QED
  BY <1>1, <1>2, <1>3, PTL DEF SubSpec

-----------------------------------------------------------------------------
(* Side by side *)

\* Running side by side disturbs none of the three: all their invariants hold in
\* MCAccounts, which the runs of TLC explore.
THEOREM AccountsCorrect ==
    MCSpec => [](AccountsTypeOK /\ LimitCounts /\ EditsKept /\ LatestIsActive /\ AnnouncedPerRun /\ ResolvedOnce)
<1>1. MCSpec => SignInSpec
  <2>1. MCInit => SignInInit
    BY DEF MCInit
  <2>2. [MCNext]_<<signInVars, subVars, channelVars, focus>> => [SignInNext]_signInVars
    BY DEF MCNext
  <2> QED
    BY <2>1, <2>2, PTL DEF MCSpec, SignInSpec
<1>2. MCSpec => SubSpec
  <2>1. MCInit => SubInit
    BY DEF MCInit
  <2>2. [MCNext]_<<signInVars, subVars, channelVars, focus>> => [SubNext]_subVars
    BY DEF MCNext
  <2> QED
    BY <2>1, <2>2, PTL DEF MCSpec, SubSpec
<1>3. MCSpec => ChannelsSpec
  <2>1. MCInit => ChannelsInit
    BY DEF MCInit
  <2>2. [MCNext]_<<signInVars, subVars, channelVars, focus>> => [ChannelsNext]_channelVars
    BY DEF MCNext
  <2> QED
    BY <2>1, <2>2, PTL DEF MCSpec, ChannelsSpec
<1>4. SignInTypeOK /\ SubTypeOK /\ ChannelsTypeOK => AccountsTypeOK
  BY DEF AccountsTypeOK
<1> QED
  BY <1>1, <1>2, <1>3, <1>4, SignInTypeCorrect, LimitCorrect, EditsCorrect, SubscriptionTypesCorrect,
     LatestCorrect, AnnouncedCorrect, ChannelTypesCorrect, ResolutionCorrect, PTL
=============================================================================
