----------------------- MODULE TelegramSettingsProofs -----------------------
(***************************************************************************)
(* Proofs about TelegramSettings, for every set of requests, senders,      *)
(* bodies and values, every bound and every length of the limiter's        *)
(* period.                                                                 *)
(***************************************************************************)
EXTENDS TelegramSettings, NumberLemmas, FiniteSetTheorems

-----------------------------------------------------------------------------
(* The inductive invariant. *)

Row == [token : Tokens \union {None}, chat : Chats \union {None},
        enabled : BOOLEAN \union {None}, limit : Nat \union {None}]

Message == [at : {"idle", "chat", "token", "posting"}, chat : Chats,
            token : Tokens, stale : BOOLEAN, off : BOOLEAN]

\* The records TypeOK speaks of, in full.
Typed ==
  /\ config \in Config /\ settings \in Row
  /\ limiter \in [last_reset : Nat, count : Nat, limit : Nat]
  /\ update \in [Updates -> [at : 0..6, new : Config]]
  /\ send \in [Senders -> Message]
  /\ now \in Nat /\ restarts \in Nat /\ updates \in Nat
  /\ posts \in Seq([time : Nat, off : BOOLEAN, limit : Nat, run : Nat])
  /\ promised \in Config \union {None} /\ partial \in BOOLEAN
  /\ limiter.last_reset <= now

\* A request that is not under way holds nothing, and a bot without a token
\* was started without one.
Requests ==
  /\ \A u \in Updates : update[u].at = 0 => update[u] = NoUpdate
  /\ config.token = Empty => Base.token = Empty
  /\ \A u \in Updates : update[u].new.token = Empty => Base.token = Empty

\* What a message on its way has read: with the bot disabled all the time it
\* does not come past the switch, and what it read is what is configured
\* unless something was applied meanwhile.
MessageOK(m) ==
  /\ m.at # "chat" => ~m.off
  /\ m.at = "chat" /\ m.off => ~config.enabled
  /\ m.at # "idle" /\ ~m.stale => m.chat = config.chat
  /\ m.at \in {"token", "posting"} /\ ~m.stale => m.token = config.token

Messages ==
  /\ \A s \in Senders : MessageOK(send[s])
  /\ \A i \in DOMAIN posts : ~posts[i].off

\* What a start that can read every row loads.
Saved == Loaded(ToSet(Fields))

\* The rows hold what the updates ask for, and so does the memory unless the last
\* start could not read them all.
Settled ==
  /\ SameSwitches(Saved, promised)
  /\ settings.chat # Empty => Saved.chat = promised.chat
  /\ limiter.limit = config.limit
  /\ ~partial => /\ SameSwitches(config, promised)
                 /\ settings.chat # Empty => config.chat = promised.chat

\* An update that overlaps with no other has written the rows before the one
\* it is at, and then the configuration.
Halfway(r) ==
  /\ r.at >= 1 /\ r.new = promised
  /\ r.at > 1 => settings.token = r.new.token
  /\ r.at > 2 => settings.chat = r.new.chat
  /\ r.at > 3 => settings.enabled = r.new.enabled
  /\ r.at > 4 => settings.limit = r.new.limit
  /\ r.at > 5 => config = r.new

AllIdle == \A u \in Updates : update[u] = NoUpdate

Promise ==
  promised # None =>
    /\ \A u, v \in Updates : update[u] # NoUpdate /\ update[v] # NoUpdate => u = v
    /\ AllIdle => Settled
    /\ \A u \in Updates : update[u] # NoUpdate => Halfway(update[u])

IInv == Typed /\ Requests /\ Messages /\ Promise

-----------------------------------------------------------------------------
(* Types. *)

\* What the constants are.
LEMMA Constants ==
  /\ Empty \in Tokens /\ Empty \in Chats /\ Base \in Config
  /\ None \notin Tokens /\ None \notin Chats /\ None \notin BOOLEAN /\ None \notin Nat
  /\ Minute \in Nat /\ Testers \subseteq Senders
  /\ \A body \in Bodies : /\ body.token \in Tokens \union {None}
                          /\ body.chat \in Chats /\ body.enabled \in BOOLEAN
                          /\ body.limit \in Nat \union {None}
BY TelegramAssumption DEF TelegramAssumption

\* The fields in the order in which they are written.
LEMMA FieldsAre ==
  /\ Len(Fields) = 4 /\ DOMAIN Fields = 1..4
  /\ Fields[1] = "token" /\ Fields[2] = "chat"
  /\ Fields[3] = "enabled" /\ Fields[4] = "limit"
BY DEF Fields

\* A configuration, changed or loaded, is one.
LEMMA MutatedType ==
  ASSUME NEW current \in Config, NEW body \in Bodies
  PROVE  Mutated(current, body) \in Config
BY Constants DEF Mutated, Config

LEMMA LoadedType ==
  ASSUME settings \in Row, NEW read
  PROVE  Loaded(read) \in Config
BY Constants DEF Loaded, Found, Config, Row

\* What every row that can be read comes to.
LEMMA SavedIs ==
  Saved = [token |-> IF settings.token \in {None, Empty} THEN Base.token ELSE settings.token,
           chat |-> IF settings.chat \in {None, Empty} THEN Base.chat ELSE settings.chat,
           enabled |-> IF settings.enabled = None THEN Base.enabled ELSE settings.enabled,
           limit |-> IF settings.limit = None THEN Base.limit ELSE settings.limit]
<1>1. ToSet(Fields) = {"token", "chat", "enabled", "limit"}
  BY FieldsAre DEF ToSet
<1> QED BY <1>1 DEF Saved, Loaded, Found

\* Writing a row keeps their types.
LEMMA PersistType ==
  ASSUME Typed, NEW u \in Updates, Persist(u)
  PROVE  /\ settings' \in Row /\ update[u].at \in 1..4
         /\ update'[u] = [update[u] EXCEPT !.at = @ + 1]
         /\ update[u].at = 1 => settings' = [settings EXCEPT !.token = update[u].new.token]
         /\ update[u].at = 2 => settings' = [settings EXCEPT !.chat = update[u].new.chat]
         /\ update[u].at = 3 => settings' = [settings EXCEPT !.enabled = update[u].new.enabled]
         /\ update[u].at = 4 => settings' = [settings EXCEPT !.limit = update[u].new.limit]
<1>1. update[u].at \in 1..4 /\ update[u].new \in Config
  BY FieldsAre DEF Persist, Typed
<1>2. settings' = [settings EXCEPT ![Fields[update[u].at]] =
                     update[u].new[Fields[update[u].at]]]
  BY DEF Persist
<1>3. /\ update[u].at = 1 => settings' = [settings EXCEPT !.token = update[u].new.token]
      /\ update[u].at = 2 => settings' = [settings EXCEPT !.chat = update[u].new.chat]
      /\ update[u].at = 3 => settings' = [settings EXCEPT !.enabled = update[u].new.enabled]
      /\ update[u].at = 4 => settings' = [settings EXCEPT !.limit = update[u].new.limit]
  BY <1>2, FieldsAre
<1>4. settings \in Row
  BY DEF Typed
<1>5. settings' \in Row
  <2>1. CASE update[u].at = 1
    BY <1>1, <1>3, <1>4, <2>1 DEF Row, Config
  <2>2. CASE update[u].at = 2
    BY <1>1, <1>3, <1>4, <2>2 DEF Row, Config
  <2>3. CASE update[u].at = 3
    BY <1>1, <1>3, <1>4, <2>3 DEF Row, Config
  <2>4. CASE update[u].at = 4
    BY <1>1, <1>3, <1>4, <2>4 DEF Row, Config
  <2> QED BY <1>1, <2>1, <2>2, <2>3, <2>4
<1>6. update'[u] = [update[u] EXCEPT !.at = @ + 1]
  BY DEF Persist, Typed
<1> QED BY <1>1, <1>3, <1>5, <1>6

\* Every step keeps the types.
LEMMA TypedStep ==
  ASSUME Typed, [Next]_vars
  PROVE  Typed'
<1>1. ASSUME NEW u \in Updates, Begin(u)
      PROVE  Typed'
  <2>1. PICK body \in Bodies :
          /\ update' = [update EXCEPT ![u] = [at |-> 1, new |-> Mutated(config, body)]]
          /\ promised' = IF promised # None /\ ~partial
                              /\ \A v \in Updates : update[v] = NoUpdate
                         THEN Mutated(promised, body) ELSE None
    BY <1>1 DEF Begin
  <2>2. Mutated(config, body) \in Config
    BY MutatedType DEF Typed
  <2>3. promised # None => Mutated(promised, body) \in Config
    BY MutatedType DEF Typed
  <2>4. update' \in [Updates -> [at : 0..6, new : Config]]
    BY <2>1, <2>2 DEF Typed
  <2>5. promised' \in Config \union {None}
    BY <2>1, <2>3
  <2> QED BY <1>1, <2>4, <2>5 DEF Begin, Typed
<1>2. ASSUME NEW u \in Updates, Persist(u)
      PROVE  Typed'
  <2>1. settings' \in Row /\ update[u].at \in 1..4
    BY <1>2, PersistType
  <2>2. update' = [update EXCEPT ![u].at = @ + 1]
    BY <1>2 DEF Persist
  <2>3. update' \in [Updates -> [at : 0..6, new : Config]]
    <3>1. update \in [Updates -> [at : 0..6, new : Config]]
      BY DEF Typed
    <3> QED BY <2>1, <2>2, <3>1
  <2> QED BY <1>2, <2>1, <2>3 DEF Persist, Typed
<1>3. ASSUME NEW u \in Updates, Abandon(u)
      PROVE  Typed'
  <2>1. NoUpdate \in [at : 0..6, new : Config]
    BY Constants DEF NoUpdate
  <2>2. update' \in [Updates -> [at : 0..6, new : Config]]
    <3>1. update' = [update EXCEPT ![u] = NoUpdate]
      BY <1>3 DEF Abandon
    <3>2. update \in [Updates -> [at : 0..6, new : Config]]
      BY DEF Typed
    <3> QED BY <2>1, <3>1, <3>2
  <2> QED BY <1>3, <2>2 DEF Abandon, Typed
<1>4. ASSUME NEW u \in Updates, ApplyConfig(u)
      PROVE  Typed'
  <2>1. update[u].at = 5 /\ config' = update[u].new
    <3>1. update[u].at = Len(Fields) + 1 /\ config' = update[u].new
      BY <1>4 DEF ApplyConfig
    <3> QED BY <3>1, FieldsAre
  <2>2. update' \in [Updates -> [at : 0..6, new : Config]]
    <3>1. update' = [update EXCEPT ![u].at = @ + 1]
      BY <1>4 DEF ApplyConfig
    <3>2. update \in [Updates -> [at : 0..6, new : Config]]
      BY DEF Typed
    <3> QED BY <2>1, <3>1, <3>2
  <2>3. send' \in [Senders -> Message]
    <3>1. ASSUME NEW s \in Senders
          PROVE  [send[s] EXCEPT !.stale = TRUE, !.off = @ /\ ~update[u].new.enabled]
                   \in Message
      <4>1. send[s] \in Message
        BY DEF Typed
      <4>2. (send[s].off /\ ~update[u].new.enabled) \in BOOLEAN
        OBVIOUS
      <4> QED BY <4>1, <4>2 DEF Message
    <3> QED BY <1>4, <3>1 DEF ApplyConfig
  <2> QED BY <1>4, <2>1, <2>2, <2>3 DEF ApplyConfig, Typed
<1>5. ASSUME NEW u \in Updates, ApplyLimit(u)
      PROVE  Typed'
  <2>1. NoUpdate \in [at : 0..6, new : Config]
    BY Constants DEF NoUpdate
  <2>2. update' \in [Updates -> [at : 0..6, new : Config]]
    <3>1. update' = [update EXCEPT ![u] = NoUpdate]
      BY <1>5 DEF ApplyLimit
    <3>2. update \in [Updates -> [at : 0..6, new : Config]]
      BY DEF Typed
    <3> QED BY <2>1, <3>1, <3>2
  <2>3. /\ limiter' \in [last_reset : Nat, count : Nat, limit : Nat]
        /\ limiter'.last_reset = limiter.last_reset
    BY <1>5 DEF ApplyLimit, Typed, Config
  <2> QED BY <1>5, <2>2, <2>3 DEF ApplyLimit, Typed
<1>6. NoSend \in Message
  BY Constants DEF NoSend, Message
<1>7. ASSUME NEW s \in Senders, ReadChat(s)
      PROVE  Typed'
  <2>1. [NoSend EXCEPT !.at = "chat", !.chat = config.chat, !.off = ~config.enabled]
          \in Message
    BY <1>6 DEF Message, NoSend, Typed, Config
  <2>2. send' \in [Senders -> Message]
    BY <1>7, <2>1 DEF ReadChat, Sender, Typed
  <2> QED BY <1>7, <2>2 DEF ReadChat, Typed
<1>8. ASSUME NEW s \in Senders, ReadToken(s)
      PROVE  Typed'
  <2>1. [send[s] EXCEPT !.at = "token", !.token = config.token] \in Message
    BY DEF Message, Typed, Config
  <2>2. send' \in [Senders -> Message]
    BY <1>6, <1>8, <2>1 DEF ReadToken, Sender, Typed
  <2> QED BY <1>8, <2>2 DEF ReadToken, Typed
<1>9. Renewed \in [last_reset : Nat, count : Nat, limit : Nat] /\ Renewed.last_reset <= now
  BY DEF Renewed, Limiter, Typed
<1>10. ASSUME NEW s \in Senders, Check(s)
       PROVE  Typed'
  <2>1. /\ limiter' \in [last_reset : Nat, count : Nat, limit : Nat]
        /\ limiter'.last_reset <= now
    BY <1>9, <1>10 DEF Check
  <2>2. send' \in [Senders -> Message]
    <3>1. [send[s] EXCEPT !.at = "posting"] \in Message
      BY DEF Typed, Message
    <3> QED BY <1>6, <1>10, <3>1 DEF Check, Sender, Typed
  <2>3. posts' \in Seq([time : Nat, off : BOOLEAN, limit : Nat, run : Nat])
    <3> DEFINE T == [time : Nat, off : BOOLEAN, limit : Nat, run : Nat]
               p == Post(s)
    <3>1. p \in T
      BY DEF Post, Typed, Message
    <3>2. posts' = posts \/ posts' = Append(posts, p)
      BY <1>10 DEF Check
    <3>3. posts \in Seq(T)
      BY DEF Typed
    <3> HIDE DEF T, p
    <3>4. posts' \in Seq(T)
      BY <3>1, <3>2, <3>3
    <3> QED BY <3>4 DEF T
  <2> QED BY <1>10, <2>1, <2>2, <2>3 DEF Check, Typed
<1>11. ASSUME NEW s \in Senders, Return(s)
       PROVE  Typed'
  <2>1. send' \in [Senders -> Message]
    BY <1>6, <1>11 DEF Return, Sender, Typed
  <2> QED BY <1>11, <2>1 DEF Return, Typed
<1>12. CASE Tick
  <2>1. now' \in Nat /\ limiter'.last_reset <= now'
    BY <1>12 DEF Tick, Typed
  <2> QED BY <1>12, <2>1 DEF Tick, Typed
<1>13. CASE Restart
  <2>1. PICK read \in SUBSET ToSet(Fields) :
          /\ config' = Loaded(read) /\ limiter' = Limiter(Loaded(read).limit)
          /\ partial' = (read # ToSet(Fields))
    BY <1>13 DEF Restart
  <2>5. Loaded(read) \in Config
    BY LoadedType DEF Typed
  <2>2. NoUpdate \in [at : 0..6, new : Config]
    BY Constants DEF NoUpdate
  <2>3. /\ limiter' \in [last_reset : Nat, count : Nat, limit : Nat]
        /\ limiter'.last_reset = now
    BY <2>1, <2>5 DEF Limiter, Typed, Config
  <2>4. promised' \in Config \union {None}
    BY <1>13 DEF Restart, Typed
  <2>6. update' = [u \in Updates |-> NoUpdate] /\ send' = [s \in Senders |-> NoSend]
        /\ restarts' = restarts + 1 /\ UNCHANGED <<settings, now, posts, updates>>
    BY <1>13 DEF Restart
  <2> QED BY <1>6, <2>1, <2>2, <2>3, <2>4, <2>5, <2>6 DEF Typed
<1>14. CASE UNCHANGED vars
  BY <1>14 DEF vars, Typed
<1> QED BY <1>1, <1>2, <1>3, <1>4, <1>5, <1>7, <1>8, <1>10, <1>11, <1>12, <1>13, <1>14
        DEF Next

-----------------------------------------------------------------------------
(* Requests and messages. *)

\* What a step of a sender leaves alone.
SenderStep(s) == ReadChat(s) \/ ReadToken(s) \/ Check(s) \/ Return(s)

LEMMA SenderChanges ==
  ASSUME Typed, NEW s \in Senders, SenderStep(s)
  PROVE  /\ UNCHANGED <<config, settings, update, now, promised, partial, updates, restarts>>
         /\ limiter'.limit = limiter.limit
<1>1. Renewed.limit = limiter.limit
  BY DEF Renewed, Limiter, Typed
<1>2. limiter' \in {limiter, Renewed, [Renewed EXCEPT !.count = @ + 1]}
  BY DEF SenderStep, ReadChat, ReadToken, Check, Return
<1>3. [Renewed EXCEPT !.count = @ + 1].limit = limiter.limit
  BY <1>1 DEF Renewed, Limiter, Typed
<1>4. limiter'.limit = limiter.limit
  BY <1>1, <1>2, <1>3
<1> QED BY <1>4 DEF SenderStep, ReadChat, ReadToken, Check, Return

\* Every step keeps what is said of the requests.
LEMMA RequestsStep ==
  ASSUME Typed, Requests, [Next]_vars
  PROVE  Requests'
<1>1. ASSUME NEW u \in Updates, Begin(u)
      PROVE  Requests'
  <2>1. PICK body \in Bodies :
          update' = [update EXCEPT ![u] = [at |-> 1, new |-> Mutated(config, body)]]
    BY <1>1 DEF Begin
  <2>2. Mutated(config, body).token = Empty => Base.token = Empty
    BY DEF Mutated, Requests
  <2>3. update'[u].at = 1 /\ update'[u].new = Mutated(config, body)
    BY <2>1 DEF Typed
  <2>4. \A v \in Updates : v # u => update'[v] = update[v]
    BY <2>1 DEF Typed
  <2> QED BY <1>1, <2>2, <2>3, <2>4 DEF Begin, Requests
<1>2. ASSUME NEW u \in Updates, Persist(u)
      PROVE  Requests'
  <2>1. /\ update[u].at \in 1..4 /\ update'[u] = [update[u] EXCEPT !.at = @ + 1]
        /\ update[u] \in [at : 0..6, new : Config]
    BY <1>2, PersistType DEF Typed
  <2>2. update'[u].at # 0 /\ update'[u].new = update[u].new
    BY <2>1
  <2>3. \A v \in Updates : v # u => update'[v] = update[v]
    BY <1>2 DEF Persist, Typed
  <2> QED BY <1>2, <2>2, <2>3 DEF Persist, Requests
<1>3. ASSUME NEW u \in Updates, Abandon(u) \/ ApplyLimit(u)
      PROVE  Requests'
  <2>1. config' = config /\ update' = [update EXCEPT ![u] = NoUpdate]
    BY <1>3 DEF Abandon, ApplyLimit
  <2>2. update'[u] = NoUpdate /\ \A v \in Updates : v # u => update'[v] = update[v]
    BY <2>1 DEF Typed
  <2>3. NoUpdate.new = Base
    BY DEF NoUpdate
  <2> QED BY <2>1, <2>2, <2>3 DEF Requests
<1>4. ASSUME NEW u \in Updates, ApplyConfig(u)
      PROVE  Requests'
  <2>1. /\ update' = [update EXCEPT ![u].at = @ + 1] /\ config' = update[u].new
        /\ update[u].at = Len(Fields) + 1
    BY <1>4 DEF ApplyConfig
  <2>2. update'[u].at = 6 /\ update'[u].new = update[u].new
    BY <2>1, FieldsAre DEF Typed
  <2>3. \A v \in Updates : v # u => update'[v] = update[v]
    BY <2>1 DEF Typed
  <2> QED BY <2>1, <2>2, <2>3 DEF Requests
<1>5. ASSUME NEW s \in Senders, SenderStep(s)
      PROVE  Requests'
  BY <1>5, SenderChanges DEF Requests
<1>6. CASE Restart
  <2>1. PICK read : config' = Loaded(read)
    BY <1>6 DEF Restart
  <2>2. Loaded(read).token = Empty => Base.token = Empty
    BY DEF Loaded, Found
  <2>3. \A u \in Updates : update'[u] = NoUpdate
    BY <1>6 DEF Restart
  <2> QED BY <2>1, <2>2, <2>3 DEF Requests, NoUpdate
<1>7. CASE Tick \/ UNCHANGED vars
  BY <1>7 DEF Tick, vars, Requests
<1> QED BY <1>1, <1>2, <1>3, <1>4, <1>5, <1>6, <1>7 DEF Next, SenderStep

\* Every step keeps what is said of the messages.
LEMMA MessagesStep ==
  ASSUME Typed, Messages, [Next]_vars
  PROVE  Messages'
<1>1. CASE UNCHANGED <<config, send, posts>>
  BY <1>1 DEF Messages, MessageOK
<1>2. ASSUME NEW u \in Updates, ApplyConfig(u)
      PROVE  Messages'
  <2>1. /\ config' = update[u].new /\ posts' = posts
        /\ send' = [s \in Senders |-> [send[s] EXCEPT !.stale = TRUE,
                                                      !.off = @ /\ ~update[u].new.enabled]]
    BY <1>2 DEF ApplyConfig
  <2>2. ASSUME NEW s \in Senders
        PROVE  MessageOK(send[s])'
    <3>1. send[s] \in Message /\ MessageOK(send[s])
      BY DEF Typed, Messages
    <3>2. /\ send'[s].at = send[s].at /\ send'[s].stale = TRUE
          /\ send'[s].off = (send[s].off /\ ~config'.enabled)
      BY <2>1, <3>1 DEF Message
    <3> QED BY <3>1, <3>2 DEF MessageOK
  <2> QED BY <2>1, <2>2 DEF Messages
<1>3. MessageOK(NoSend)
  BY DEF MessageOK, NoSend
<1>4. ASSUME NEW s \in Senders, SenderStep(s),
             MessageOK(send'[s]), \A t \in Senders : t # s => send'[t] = send[t],
             \A i \in DOMAIN posts' : ~posts'[i].off
      PROVE  Messages'
  <2>1. config' = config
    BY <1>4, SenderChanges
  <2>2. \A t \in Senders : MessageOK(send'[t])
    BY <1>4 DEF Messages
  <2>3. \A t \in Senders : MessageOK(send[t])'
    BY <2>1, <2>2 DEF MessageOK
  <2> QED BY <1>4, <2>3 DEF Messages
<1>5. ASSUME NEW s \in Senders, ReadChat(s)
      PROVE  Messages'
  <2>1. send' = [send EXCEPT ![s] = [NoSend EXCEPT !.at = "chat", !.chat = config.chat,
                                                   !.off = ~config.enabled]]
    BY <1>5 DEF ReadChat, Sender
  <2>2. /\ send'[s] = [NoSend EXCEPT !.at = "chat", !.chat = config.chat,
                                     !.off = ~config.enabled]
        /\ \A t \in Senders : t # s => send'[t] = send[t]
    BY <2>1 DEF Typed
  <2>3. MessageOK(send'[s])
    BY <2>2 DEF MessageOK, NoSend
  <2>4. posts' = posts
    BY <1>5 DEF ReadChat
  <2> QED BY <1>4, <1>5, <2>2, <2>3, <2>4 DEF SenderStep, Messages
<1>6. ASSUME NEW s \in Senders, ReadToken(s)
      PROVE  Messages'
  <2>1. /\ send[s].at = "chat" /\ posts' = posts
        /\ send' = [send EXCEPT ![s] =
                      IF config.enabled
                      THEN [send[s] EXCEPT !.at = "token", !.token = config.token]
                      ELSE NoSend]
    BY <1>6 DEF ReadToken, Sender
  <2>2. \A t \in Senders : t # s => send'[t] = send[t]
    BY <2>1 DEF Typed
  <2>3. MessageOK(send'[s])
    <3>1. CASE config.enabled
      <4>1. send'[s] = [send[s] EXCEPT !.at = "token", !.token = config.token]
        BY <2>1, <3>1 DEF Typed
      <4>2. send[s] \in Message /\ MessageOK(send[s])
        BY DEF Typed, Messages
      <4>3. /\ send'[s].at = "token" /\ send'[s].token = config.token
            /\ send'[s].chat = send[s].chat /\ send'[s].stale = send[s].stale
            /\ send'[s].off = send[s].off
        BY <4>1, <4>2 DEF Message
      <4> QED BY <2>1, <3>1, <4>2, <4>3 DEF MessageOK
    <3>2. CASE ~config.enabled
      BY <1>3, <2>1, <3>2 DEF Typed
    <3> QED BY <3>1, <3>2
  <2> QED BY <1>4, <1>6, <2>1, <2>2, <2>3 DEF SenderStep, Messages
<1>7. ASSUME NEW s \in Senders, Check(s)
      PROVE  Messages'
  <2> DEFINE m == [send[s] EXCEPT !.at = "posting"]
             p == Post(s)
  <2>1. /\ send[s].at = "token"
        /\ \/ posts' = Append(posts, p) /\ send' = [send EXCEPT ![s] = m]
           \/ posts' = posts /\ send' = [send EXCEPT ![s] = NoSend]
    BY <1>7 DEF Check, Sender
  <2>2. \A t \in Senders : t # s => send'[t] = send[t]
    BY <2>1 DEF Typed
  <2>3. send[s] \in Message /\ MessageOK(send[s])
    BY DEF Typed, Messages
  <2>4. /\ m.at = "posting" /\ m.chat = send[s].chat /\ m.token = send[s].token
        /\ m.stale = send[s].stale /\ m.off = send[s].off
    BY <2>3 DEF Message
  <2>5. MessageOK(m)
    <3> HIDE DEF m
    <3> QED BY <2>1, <2>3, <2>4 DEF MessageOK
  <2>6. MessageOK(send'[s])
    <3> HIDE DEF m
    <3>1. send'[s] = m \/ send'[s] = NoSend
      BY <2>1 DEF Typed
    <3> QED BY <1>3, <2>5, <3>1
  <2>7. ~p.off
    BY <2>1, <2>3 DEF Post, MessageOK
  <2>8. \A i \in DOMAIN posts' : ~posts'[i].off
    <3> DEFINE T == [time : Nat, off : BOOLEAN, limit : Nat, run : Nat]
    <3>1. posts \in Seq(T) /\ \A i \in DOMAIN posts : ~posts[i].off
      BY DEF Typed, Messages
    <3>2. p \in T
      BY DEF Post, Typed, Message
    <3> HIDE DEF p, T
    <3>3. CASE posts' = posts
      BY <3>1, <3>3
    <3>4. CASE posts' = Append(posts, p)
      <4>1. \A i \in DOMAIN posts' : posts'[i] = p \/ (i \in DOMAIN posts /\ posts'[i] = posts[i])
        BY <3>1, <3>2, <3>4
      <4> QED BY <2>7, <3>1, <4>1
    <3> QED BY <2>1, <3>3, <3>4
  <2> QED BY <1>4, <1>7, <2>2, <2>6, <2>8 DEF SenderStep
<1>8. ASSUME NEW s \in Senders, Return(s)
      PROVE  Messages'
  <2>1. posts' = posts /\ send' = [send EXCEPT ![s] = NoSend]
    BY <1>8 DEF Return, Sender
  <2>2. send'[s] = NoSend /\ \A t \in Senders : t # s => send'[t] = send[t]
    BY <2>1 DEF Typed
  <2> QED BY <1>3, <1>4, <1>8, <2>1, <2>2 DEF SenderStep, Messages
<1>9. CASE Restart
  <2>1. posts' = posts /\ \A s \in Senders : send'[s] = NoSend
    BY <1>9 DEF Restart
  <2>2. \A s \in Senders : MessageOK(send[s])'
    BY <2>1 DEF MessageOK, NoSend
  <2> QED BY <2>1, <2>2 DEF Messages
<1>10. \/ UNCHANGED <<config, send, posts>> \/ Restart
       \/ \E u \in Updates : ApplyConfig(u)
       \/ \E s \in Senders : ReadChat(s) \/ ReadToken(s) \/ Check(s) \/ Return(s)
  BY DEF Next, Begin, Persist, Abandon, ApplyLimit, Tick, vars
<1> QED BY <1>1, <1>2, <1>5, <1>6, <1>7, <1>8, <1>9, <1>10

-----------------------------------------------------------------------------
(* What the updates promise. *)

\* Settled and Halfway are about these parts of the state.
LEMMA PromiseKept ==
  ASSUME Promise, UNCHANGED <<config, settings, update, promised, partial>>,
         limiter'.limit = limiter.limit
  PROVE  Promise'
<1>1. Saved' = Saved
  BY DEF Saved, Loaded, Found
<1>2. Settled' = Settled /\ AllIdle' = AllIdle
  BY <1>1 DEF Settled, AllIdle, SameSwitches
<1>3. \A u \in Updates : Halfway(update[u])' = Halfway(update[u])
  BY DEF Halfway
<1> QED BY <1>2, <1>3 DEF Promise

\* An update that overlaps with nothing starts from a settled state and takes
\* its configuration through the rows into the memory; whatever else happens
\* to it ends the promise, and a start in between keeps it.
LEMMA PromiseStep ==
  ASSUME Typed, Requests, Promise, [Next]_vars
  PROVE  Promise'
<1> SUFFICES ASSUME promised' # None
             PROVE  Promise'
  BY DEF Promise
<1>1. ASSUME NEW u \in Updates, Begin(u)
      PROVE  Promise'
  <2>1. PICK body \in Bodies :
          /\ update' = [update EXCEPT ![u] = [at |-> 1, new |-> Mutated(config, body)]]
          /\ promised' = IF promised # None /\ ~partial
                              /\ \A v \in Updates : update[v] = NoUpdate
                         THEN Mutated(promised, body) ELSE None
    BY <1>1 DEF Begin
  <2>2. promised # None /\ ~partial /\ AllIdle /\ promised' = Mutated(promised, body)
    BY <2>1 DEF AllIdle
  <2>3. Settled
    BY <2>2 DEF Promise
  <2>4. Mutated(config, body) = Mutated(promised, body)
    BY <2>2, <2>3 DEF Mutated, Settled, SameSwitches
  <2>5. update'[u] = [at |-> 1, new |-> promised']
    BY <2>1, <2>2, <2>4 DEF Typed
  <2>6. \A v \in Updates : v # u => update'[v] = NoUpdate
    BY <2>1, <2>2 DEF Typed, AllIdle
  <2>7. update'[u] # NoUpdate
    BY <2>5 DEF NoUpdate
  <2>8. Halfway(update[u])'
    BY <2>5 DEF Halfway
  <2> QED BY <2>6, <2>7, <2>8 DEF Promise, AllIdle
<1>2. ASSUME NEW u \in Updates, update[u].at # 0, promised # None
      PROVE  /\ Halfway(update[u]) /\ update[u] # NoUpdate
             /\ \A v \in Updates : v # u => update[v] = NoUpdate
  BY <1>2 DEF Promise, NoUpdate
<1>3. ASSUME NEW u \in Updates, update'[u].at # 0, Halfway(update[u])',
             \A v \in Updates : v # u => update'[v] = NoUpdate
      PROVE  Promise'
  <2>1. update'[u] # NoUpdate
    BY <1>3 DEF NoUpdate
  <2> QED BY <1>3, <2>1 DEF Promise, AllIdle
<1>4. ASSUME NEW u \in Updates, Persist(u)
      PROVE  Promise'
  <2> DEFINE r == update[u]
             q == update'[u]
  <2>1. /\ r.at \in 1..4 /\ q = [r EXCEPT !.at = @ + 1]
        /\ r \in [at : 0..6, new : Config] /\ settings \in Row
    BY <1>4, PersistType DEF Typed
  <2>2. q.at = r.at + 1 /\ q.new = r.new
    BY <2>1
  <2>3. promised' = promised /\ config' = config
    BY <1>4 DEF Persist
  <2>4. Halfway(r) /\ \A v \in Updates : v # u => update[v] = NoUpdate
    BY <1>2, <2>1, <2>3
  <2>5. \A v \in Updates : v # u => update'[v] = NoUpdate
    BY <1>4, <2>4 DEF Persist, Typed
  <2>6. /\ r.at = 1 => settings'.token = r.new.token
        /\ r.at = 2 => settings'.chat = r.new.chat /\ settings'.token = settings.token
        /\ r.at = 3 => /\ settings'.enabled = r.new.enabled
                       /\ settings'.token = settings.token /\ settings'.chat = settings.chat
        /\ r.at = 4 => /\ settings'.limit = r.new.limit
                       /\ settings'.token = settings.token /\ settings'.chat = settings.chat
                       /\ settings'.enabled = settings.enabled
    BY <1>4, <2>1, PersistType DEF Row
  <2>7. Halfway(update[u])'
    BY <2>1, <2>2, <2>3, <2>4, <2>6 DEF Halfway
  <2> QED BY <1>3, <2>1, <2>2, <2>5, <2>7
<1>5. ASSUME NEW u \in Updates, Abandon(u)
      PROVE  Promise'
  BY <1>5 DEF Abandon
<1>6. ASSUME NEW u \in Updates, ApplyConfig(u)
      PROVE  Promise'
  <2> DEFINE r == update[u]
             q == update'[u]
  <2>1. /\ r.at = Len(Fields) + 1 /\ config' = r.new
        /\ update' = [update EXCEPT ![u].at = @ + 1]
        /\ UNCHANGED <<settings, promised>>
    BY <1>6 DEF ApplyConfig
  <2>2. r.at = 5 /\ q.at = 6 /\ q.new = r.new
    BY <2>1, FieldsAre DEF Typed
  <2>3. Halfway(r) /\ \A v \in Updates : v # u => update[v] = NoUpdate
    BY <1>2, <2>1, <2>2
  <2>4. \A v \in Updates : v # u => update'[v] = NoUpdate
    BY <2>1, <2>3 DEF Typed
  <2>5. Halfway(update[u])'
    BY <2>1, <2>2, <2>3 DEF Halfway
  <2> QED BY <1>3, <2>2, <2>4, <2>5
<1>7. ASSUME NEW u \in Updates, ApplyLimit(u)
      PROVE  Promise'
  <2> DEFINE r == update[u]
  <2>1. /\ r.at = Len(Fields) + 2 /\ update' = [update EXCEPT ![u] = NoUpdate]
        /\ limiter' = [limiter EXCEPT !.limit = r.new.limit]
        /\ UNCHANGED <<config, settings, promised>>
    BY <1>7 DEF ApplyLimit
  <2>2. r.at = 6
    BY <2>1, FieldsAre
  <2>3. Halfway(r) /\ \A v \in Updates : v # u => update[v] = NoUpdate
    BY <1>2, <2>1, <2>2
  <2>4. \A v \in Updates : update'[v] = NoUpdate
    BY <2>1, <2>3 DEF Typed
  <2>5. /\ config = promised /\ r.new = promised /\ settings.token = config.token
        /\ settings.chat = config.chat /\ settings.enabled = config.enabled
        /\ settings.limit = config.limit
    BY <2>2, <2>3 DEF Halfway
  <2>6. limiter'.limit = config.limit
    BY <2>1, <2>5 DEF Typed
  <2>7. config \in Config /\ Saved' = Saved
    BY <2>1 DEF Typed, Saved, Loaded, Found
  <2>8. /\ Saved.enabled = config.enabled /\ Saved.limit = config.limit
        /\ settings.chat # Empty => Saved.chat = config.chat
    BY <2>5, <2>7, Constants, SavedIs DEF Config
  <2>9. Saved.token = config.token
    BY <2>5, <2>7, Constants, SavedIs DEF Config, Requests
  <2>10. Settled'
    BY <2>1, <2>5, <2>6, <2>7, <2>8, <2>9 DEF Settled, SameSwitches
  <2> QED BY <2>4, <2>10 DEF Promise
<1>8. ASSUME NEW s \in Senders, SenderStep(s)
      PROVE  Promise'
  BY <1>8, SenderChanges, PromiseKept
<1>9. CASE Tick \/ UNCHANGED vars
  BY <1>9, PromiseKept DEF Tick, vars
<1>10. CASE Restart
  <2>1. PICK read \in SUBSET ToSet(Fields) :
          /\ config' = Loaded(read) /\ limiter' = Limiter(Loaded(read).limit)
          /\ partial' = (read # ToSet(Fields))
    BY <1>10 DEF Restart
  <2>2. /\ settings' = settings /\ \A u \in Updates : update'[u] = NoUpdate
        /\ AllIdle /\ promised' = promised
    BY <1>10 DEF Restart, AllIdle
  <2>3. Settled
    BY <2>2 DEF Promise
  <2>4. Saved' = Saved /\ limiter'.limit = config'.limit
    BY <2>1, <2>2 DEF Limiter, Saved, Loaded, Found
  <2>5. ~partial' => config' = Saved
    BY <2>1 DEF Saved
  <2>6. Settled'
    BY <2>2, <2>3, <2>4, <2>5 DEF Settled, SameSwitches
  <2> QED BY <2>2, <2>6 DEF Promise
<1> QED BY <1>1, <1>4, <1>5, <1>6, <1>7, <1>8, <1>9, <1>10 DEF Next, SenderStep

-----------------------------------------------------------------------------
(* The periods of the rate limiter. *)

\* Every message counted lies in a period that began at p[i], as its k[i]-th
\* message.  A period is over a minute before the next one begins, and the
\* limiter counts the messages of the current one.
PeriodsOf(p, k) ==
  /\ \A i \in DOMAIN posts :
       /\ p[i] <= posts[i].time /\ posts[i].time <= now
       /\ 1 <= k[i] /\ k[i] <= posts[i].limit
       /\ posts[i].run <= restarts
  /\ \A i, j \in DOMAIN posts : i < j /\ posts[i].run = posts[j].run =>
       \/ p[i] = p[j] /\ k[i] < k[j]
       \/ p[j] > p[i] + Minute /\ posts[i].time <= p[j]
  /\ \A i \in DOMAIN posts : posts[i].run = restarts =>
       \/ p[i] = limiter.last_reset /\ k[i] <= limiter.count
       \/ limiter.last_reset > p[i] + Minute /\ posts[i].time <= limiter.last_reset

\* What the records of the messages posted hold.
LEMMA PostTypes ==
  ASSUME Typed
  PROVE  /\ Len(posts) \in Nat /\ DOMAIN posts = 1..Len(posts)
         /\ \A i \in DOMAIN posts : /\ posts[i].time \in Nat /\ posts[i].limit \in Nat
                                    /\ posts[i].run \in Nat
<1> DEFINE T == [time : Nat, off : BOOLEAN, limit : Nat, run : Nat]
<1>1. posts \in Seq(T)
  BY DEF Typed
<1>2. \A x \in T : x.time \in Nat /\ x.limit \in Nat /\ x.run \in Nat
  OBVIOUS
<1> HIDE DEF T
<1>3. \A i \in DOMAIN posts : posts[i] \in T
  BY <1>1
<1> QED BY <1>1, <1>2, <1>3

Periods == \E p, k \in [DOMAIN posts -> Nat] : PeriodsOf(p, k)

\* What is said of the current period stays true when it is renewed.
LEMMA RenewedPeriod ==
  ASSUME Typed, NEW p \in [DOMAIN posts -> Nat], NEW k \in [DOMAIN posts -> Nat],
         PeriodsOf(p, k), NEW i \in DOMAIN posts, posts[i].run = restarts
  PROVE  \/ p[i] = Renewed.last_reset /\ k[i] <= Renewed.count
         \/ Renewed.last_reset > p[i] + Minute /\ posts[i].time <= Renewed.last_reset
<1>1. /\ p[i] \in Nat /\ k[i] \in Nat /\ Minute \in Nat /\ posts[i].time \in Nat
      /\ now \in Nat /\ limiter.last_reset \in Nat /\ limiter.last_reset <= now
      /\ posts[i].time <= now
  BY Constants, PostTypes DEF Typed, PeriodsOf
<1>2. \/ p[i] = limiter.last_reset /\ k[i] <= limiter.count
      \/ limiter.last_reset > p[i] + Minute /\ posts[i].time <= limiter.last_reset
  BY DEF PeriodsOf
<1>3. CASE now - limiter.last_reset > Minute
  <2>1. Renewed.last_reset = now
    BY <1>3 DEF Renewed, Limiter
  <2> QED BY <1>1, <1>2, <1>3, <2>1
<1>4. CASE ~(now - limiter.last_reset > Minute)
  BY <1>2, <1>4 DEF Renewed
<1> QED BY <1>3, <1>4

\* A message that passes the limiter is the next one of the renewed period.
LEMMA PostInPeriod ==
  ASSUME Typed, Periods, NEW s \in Senders, Check(s)
  PROVE  Periods'
<1> DEFINE T == [time : Nat, off : BOOLEAN, limit : Nat, run : Nat]
           q == Post(s)
<1>1. PICK p, k \in [DOMAIN posts -> Nat] : PeriodsOf(p, k)
  BY DEF Periods
<1>2. /\ posts \in Seq(T) /\ now \in Nat /\ restarts \in Nat /\ Minute \in Nat
      /\ limiter \in [last_reset : Nat, count : Nat, limit : Nat]
  BY Constants DEF Typed
<1>3. now' = now /\ restarts' = restarts
  BY DEF Check
<1>4. /\ Renewed \in [last_reset : Nat, count : Nat, limit : Nat]
      /\ Renewed.last_reset <= now /\ Renewed.limit = limiter.limit
  BY DEF Renewed, Limiter, Typed
<1>5. CASE ~Allowed
  <2>1. limiter' = Renewed /\ posts' = posts
    BY <1>5 DEF Check
  <2>2. PeriodsOf(p, k)'
    BY <1>1, <1>3, <2>1, RenewedPeriod DEF PeriodsOf
  <2> QED BY <1>1, <2>1, <2>2 DEF Periods
<1>6. CASE Allowed
  <2>1. limiter' = [Renewed EXCEPT !.count = @ + 1] /\ posts' = Append(posts, q)
    BY <1>6 DEF Check
  <2> DEFINE n == Len(posts) + 1
             b == Renewed.last_reset
             m == Renewed.count + 1
             p1 == [i \in DOMAIN posts' |-> IF i = n THEN b ELSE p[i]]
             k1 == [i \in DOMAIN posts' |-> IF i = n THEN m ELSE k[i]]
  <2>2. /\ limiter'.last_reset = b /\ limiter'.count = m
        /\ b \in Nat /\ m \in Nat /\ b <= now /\ m >= 1
    BY <1>4, <2>1
  <2>3. /\ q \in T /\ q.time = now /\ q.run = restarts /\ q.limit = limiter.limit
    BY DEF Post, Typed, Message
  <2>4. m <= q.limit
    BY <1>4, <1>6, <2>3 DEF Allowed
  <2> HIDE DEF T, q
  <2>5. /\ n \in Nat /\ DOMAIN posts = 1..(n - 1) /\ DOMAIN posts' = 1..n
        /\ posts'[n] = q /\ \A i \in 1..(n - 1) : posts'[i] = posts[i]
    BY <1>2, <2>1, <2>3
  <2>6. /\ \A i \in 1..(n - 1) : p1[i] = p[i] /\ k1[i] = k[i]
        /\ p1[n] = b /\ k1[n] = m
    BY <2>5
  <2>7. p1 \in [DOMAIN posts' -> Nat] /\ k1 \in [DOMAIN posts' -> Nat]
    BY <2>2, <2>5
  <2> HIDE DEF n, b, m, p1, k1
  <2>8. PICK p2, k2 \in [DOMAIN posts' -> Nat] :
          /\ \A i \in 1..(n - 1) : p2[i] = p[i] /\ k2[i] = k[i]
          /\ p2[n] = b /\ k2[n] = m
    BY <2>6, <2>7
  <2>9. ASSUME NEW i \in DOMAIN posts'
        PROVE  /\ p2[i] <= posts'[i].time /\ posts'[i].time <= now'
               /\ 1 <= k2[i] /\ k2[i] <= posts'[i].limit
               /\ posts'[i].run <= restarts'
    <3>1. CASE i = n
      BY <1>2, <1>3, <2>2, <2>3, <2>4, <2>5, <2>8, <3>1
    <3>2. CASE i # n
      <4>1. i \in 1..(n - 1) /\ i \in DOMAIN posts
        BY <2>5, <3>2
      <4> QED BY <1>1, <1>3, <2>5, <2>8, <4>1 DEF PeriodsOf
    <3> QED BY <3>1, <3>2
  <2>10. ASSUME NEW i \in DOMAIN posts', posts'[i].run = restarts'
         PROVE  \/ p2[i] = b /\ k2[i] <= m
                \/ b > p2[i] + Minute /\ posts'[i].time <= b
    <3>1. CASE i = n
      BY <2>2, <2>8, <3>1
    <3>2. CASE i # n
      <4>1. i \in 1..(n - 1) /\ i \in DOMAIN posts
        BY <2>5, <3>2
      <4>2. \/ p[i] = b /\ k[i] <= Renewed.count
            \/ b > p[i] + Minute /\ posts[i].time <= b
        <5>1. posts[i].run = restarts
          BY <1>3, <2>5, <2>10, <4>1
        <5> QED BY <1>1, <4>1, <5>1, RenewedPeriod DEF b
      <4>3. k[i] \in Nat /\ Renewed.count \in Nat /\ m = Renewed.count + 1
        BY <1>1, <1>4, <4>1 DEF m
      <4> QED BY <2>5, <2>8, <4>1, <4>2, <4>3
    <3> QED BY <3>1, <3>2
  <2>11. ASSUME NEW i \in DOMAIN posts', NEW j \in DOMAIN posts', i < j,
                posts'[i].run = posts'[j].run
         PROVE  \/ p2[i] = p2[j] /\ k2[i] < k2[j]
                \/ p2[j] > p2[i] + Minute /\ posts'[i].time <= p2[j]
    <3>1. i \in 1..(n - 1) /\ i \in DOMAIN posts
      BY <2>5, <2>11
    <3>2. CASE j = n
      <4>1. posts[i].run = restarts
        BY <2>3, <2>5, <2>11, <3>1, <3>2
      <4>2. \/ p[i] = b /\ k[i] <= Renewed.count
            \/ b > p[i] + Minute /\ posts[i].time <= b
        BY <1>1, <3>1, <4>1, RenewedPeriod DEF b
      <4>3. k[i] \in Nat /\ Renewed.count \in Nat /\ m = Renewed.count + 1
        BY <1>1, <1>4, <3>1 DEF m
      <4> QED BY <2>5, <2>8, <3>1, <3>2, <4>2, <4>3
    <3>3. CASE j # n
      <4>1. j \in 1..(n - 1) /\ j \in DOMAIN posts
        BY <2>5, <3>3
      <4> QED BY <1>1, <2>5, <2>8, <2>11, <3>1, <4>1 DEF PeriodsOf
    <3> QED BY <3>2, <3>3
  <2>12. PeriodsOf(p2, k2)'
    BY <2>2, <2>9, <2>10, <2>11 DEF PeriodsOf
  <2> QED BY <2>8, <2>12 DEF Periods
<1> QED BY <1>5, <1>6

\* Every step keeps the periods.
LEMMA PeriodsStep ==
  ASSUME Typed, Periods, [Next]_vars
  PROVE  Periods'
<1>1. PICK p, k \in [DOMAIN posts -> Nat] : PeriodsOf(p, k)
  BY DEF Periods
<1>2. ASSUME UNCHANGED <<limiter, posts, now, restarts>>
      PROVE  Periods'
  BY <1>1, <1>2 DEF Periods, PeriodsOf
<1>3. ASSUME NEW u \in Updates, ApplyLimit(u)
      PROVE  Periods'
  <2>1. /\ limiter'.last_reset = limiter.last_reset /\ limiter'.count = limiter.count
        /\ UNCHANGED <<posts, now, restarts>>
    BY <1>3 DEF ApplyLimit, Typed
  <2>2. PeriodsOf(p, k)'
    BY <1>1, <2>1 DEF PeriodsOf
  <2> QED BY <1>1, <2>1, <2>2 DEF Periods
<1>4. CASE Tick
  <2>1. now' = now + 1 /\ now \in Nat /\ UNCHANGED <<limiter, posts, restarts>>
    BY <1>4 DEF Tick, Typed
  <2>2. \A i \in DOMAIN posts : posts[i].time \in Nat
    BY PostTypes
  <2>3. PeriodsOf(p, k)'
    BY <1>1, <2>1, <2>2 DEF PeriodsOf
  <2> QED BY <1>1, <2>1, <2>3 DEF Periods
<1>5. CASE Restart
  <2>1. restarts' = restarts + 1 /\ restarts \in Nat /\ UNCHANGED <<posts, now>>
    BY <1>5 DEF Restart, Typed
  <2>2. \A i \in DOMAIN posts : posts[i].run \in Nat
    BY PostTypes
  <2>3. PeriodsOf(p, k)'
    BY <1>1, <2>1, <2>2 DEF PeriodsOf
  <2> QED BY <1>1, <2>1, <2>3 DEF Periods
<1>6. \/ UNCHANGED <<limiter, posts, now, restarts>> \/ Tick \/ Restart
      \/ \E u \in Updates : ApplyLimit(u)
      \/ \E s \in Senders : Check(s)
  BY DEF Next, Begin, Persist, Abandon, ApplyConfig, ReadChat, ReadToken, Return, vars
<1> QED BY <1>2, <1>3, <1>4, <1>5, <1>6, PostInPeriod

\* A set whose members are numbered differently by numbers up to m has at
\* most m members.
LEMMA NumberedSet ==
  ASSUME NEW A, NEW k, NEW m \in Nat, \A i \in A : k[i] \in 1..m,
         \A i, j \in A : k[i] = k[j] => i = j
  PROVE  IsFiniteSet(A) /\ Cardinality(A) \in Nat /\ Cardinality(A) <= m
<1> DEFINE f == [i \in A |-> k[i]]
<1>1. f \in Injection(A, 1..m)
  BY DEF Injection, IsInjective
<1>2. IsFiniteSet(1..m) /\ Cardinality(1..m) = m
  <2>1. Cardinality(1..m) = IF 1 > m THEN 0 ELSE m - 1 + 1
    BY FS_Interval
  <2> QED BY <2>1, FS_Interval
<1> HIDE DEF f
<1>3. IsFiniteSet(A) /\ Cardinality(A) <= Cardinality(1..m)
  BY <1>1, <1>2, FS_Injection
<1> QED BY <1>2, <1>3, FS_CardinalityType

\* The messages of one period are at most as many as the limit one of them
\* was let through under.
LEMMA OnePeriod ==
  ASSUME Typed, NEW p \in [DOMAIN posts -> Nat], NEW k \in [DOMAIN posts -> Nat],
         PeriodsOf(p, k), NEW A \in SUBSET DOMAIN posts, A # {},
         \A i, j \in A : p[i] = p[j] /\ posts[i].run = posts[j].run
  PROVE  \E i \in A : /\ IsFiniteSet(A) /\ Cardinality(A) \in Nat
                      /\ Cardinality(A) <= posts[i].limit
<1>1. Len(posts) \in Nat /\ DOMAIN posts = 1..Len(posts) /\ Minute \in Nat
  BY Constants DEF Typed
<1>2. PICK l \in A : \A i \in A : i <= l
  BY <1>1, GreatestElement
<1>3. \A i \in A : k[i] \in Nat /\ p[i] \in Nat /\ 1 <= k[i] /\ k[i] <= posts[i].limit
  BY DEF PeriodsOf
<1>4. \A i, j \in A : i < j => k[i] < k[j]
  <2> SUFFICES ASSUME NEW i \in A, NEW j \in A, i < j
               PROVE  k[i] < k[j]
    OBVIOUS
  <2>1. p[i] = p[j] /\ p[i] \in Nat /\ posts[i].run = posts[j].run
    BY <1>3
  <2>2. \/ p[i] = p[j] /\ k[i] < k[j]
        \/ p[j] > p[i] + Minute /\ posts[i].time <= p[j]
    BY <2>1 DEF PeriodsOf
  <2> QED BY <1>1, <2>1, <2>2
<1>5. \A i \in A : i \in Nat
  BY <1>1
<1>6. \A i, j \in A : k[i] = k[j] => i = j
  BY <1>3, <1>4, <1>5
<1>7. \A i \in A : k[i] \in 1..k[l]
  BY <1>2, <1>3, <1>4, <1>5
<1>8. k[l] \in Nat
  BY <1>3
<1>9. IsFiniteSet(A) /\ Cardinality(A) \in Nat /\ Cardinality(A) <= k[l]
  BY <1>6, <1>7, <1>8, NumberedSet
<1>10. posts[l].limit \in Nat
  BY PostTypes
<1> QED BY <1>3, <1>8, <1>9, <1>10

\* A minute meets at most two periods.
LEMMA TwoPeriods ==
  ASSUME Typed, Periods
  PROVE  AtMostTwoPeriods
<1> SUFFICES ASSUME NEW t \in 0..now, NEW run \in 0..restarts, Within(t, run) # {}
             PROVE  \E i \in Within(t, run) :
                      Cardinality(Within(t, run)) <= 2 * posts[i].limit
  BY DEF AtMostTwoPeriods
<1> DEFINE W == Within(t, run)
<1>1. PICK p, k \in [DOMAIN posts -> Nat] : PeriodsOf(p, k)
  BY DEF Periods
<1>2. /\ Len(posts) \in Nat /\ DOMAIN posts = 1..Len(posts) /\ Minute \in Nat
      /\ t \in Nat
  BY Constants DEF Typed
<1>3. W \in SUBSET (1..Len(posts))
  BY <1>2 DEF Within
<1>4. \A i \in W : /\ posts[i].run = run /\ posts[i].time \in Nat /\ p[i] \in Nat
                   /\ t <= posts[i].time /\ posts[i].time <= t + Minute
                   /\ p[i] <= posts[i].time /\ posts[i].limit \in Nat
  BY <1>1, <1>2, PostTypes DEF Within, PeriodsOf
<1>5. \A i, j \in W : i < j => \/ p[i] = p[j]
                               \/ p[j] > p[i] + Minute /\ posts[i].time <= p[j]
  BY <1>1, <1>2, <1>3, <1>4 DEF PeriodsOf
<1> HIDE DEF W
<1>6. PICK l \in W : \A i \in W : i <= l
  BY <1>2, <1>3, GreatestElement DEF W
<1> DEFINE B == {i \in W : p[i] = p[l]}
           A == W \ B
<1>7. \A i \in A : i \in W /\ i < l /\ p[i] # p[l]
  BY <1>3, <1>6
<1>8. \A i, j \in A : p[i] = p[j]
  <2>1. ASSUME NEW i \in A, NEW j \in A, i < j
        PROVE  p[i] = p[j]
    <3> HIDE DEF A, B
    <3>1. p[l] > p[j] + Minute
      BY <1>5, <1>6, <1>7, <2>1
    <3>2. p[i] # p[j] => posts[i].time <= p[j]
      BY <1>5, <1>7, <2>1
    <3>3. /\ p[l] <= posts[l].time /\ posts[l].time <= t + Minute /\ t <= posts[i].time
          /\ p[l] \in Nat /\ p[j] \in Nat
          /\ posts[l].time \in Nat /\ posts[i].time \in Nat
      BY <1>4, <1>6, <1>7, <2>1
    <3>4. ASSUME posts[i].time <= p[j]
          PROVE  FALSE
      <4> DEFINE x == p[l]  y == p[j]  v == posts[l].time  w == posts[i].time
      <4>1. /\ x > y + Minute /\ x <= v /\ v <= t + Minute /\ t <= w /\ w <= y
            /\ x \in Nat /\ y \in Nat /\ v \in Nat /\ w \in Nat
        BY <3>1, <3>3, <3>4
      <4> HIDE DEF x, y, v, w
      <4> QED BY <1>2, <4>1
    <3> QED BY <3>2, <3>4
  <2>2. \A i, j \in A : i < j \/ i = j \/ j < i
    BY <1>3, <1>7
  <2> HIDE DEF A, B
  <2> QED BY <2>1, <2>2
<1>9. PICK b \in B : /\ IsFiniteSet(B) /\ Cardinality(B) \in Nat
                     /\ Cardinality(B) <= posts[b].limit
  <2>1. B # {} /\ B \in SUBSET DOMAIN posts
    BY <1>2, <1>3, <1>6
  <2>2. \A i, j \in B : p[i] = p[j] /\ posts[i].run = posts[j].run
    BY <1>4
  <2> HIDE DEF B
  <2> QED BY <1>1, <2>1, <2>2, OnePeriod
<1>10. \/ A = {}
       \/ \E a \in A : /\ IsFiniteSet(A) /\ Cardinality(A) \in Nat
                       /\ Cardinality(A) <= posts[a].limit
  <2>1. A \in SUBSET DOMAIN posts
    BY <1>2, <1>3
  <2>2. \A i, j \in A : p[i] = p[j] /\ posts[i].run = posts[j].run
    BY <1>4, <1>8
  <2> HIDE DEF A
  <2> QED BY <1>1, <2>1, <2>2, OnePeriod
<1>11. W = A \union B /\ A \intersect B = {}
  OBVIOUS
<1>12. A \subseteq W /\ B \subseteq W
  OBVIOUS
<1> HIDE DEF A, B
<1>13. CASE A = {}
  <2>1. W = B
    BY <1>11, <1>13
  <2>2. posts[b].limit \in Nat
    BY <1>4, <1>9, <1>12
  <2> QED BY <1>9, <2>1, <2>2 DEF W
<1>14. ASSUME NEW a \in A, IsFiniteSet(A), Cardinality(A) \in Nat,
              Cardinality(A) <= posts[a].limit
       PROVE  \E i \in W : Cardinality(W) <= 2 * posts[i].limit
  <2>1. Cardinality(A \intersect B) = 0
    BY <1>11, FS_EmptySet
  <2>2. Cardinality(W) = Cardinality(A) + Cardinality(B) - Cardinality(A \intersect B)
    BY <1>9, <1>11, <1>14, FS_Union
  <2>3. Cardinality(W) = Cardinality(A) + Cardinality(B)
    BY <1>9, <1>14, <2>1, <2>2
  <2>4. posts[a].limit \in Nat /\ posts[b].limit \in Nat /\ a \in W /\ b \in W
    BY <1>4, <1>9, <1>12, <1>14
  <2>5. CASE posts[a].limit <= posts[b].limit
    BY <1>9, <1>14, <2>3, <2>4, <2>5
  <2>6. CASE posts[b].limit <= posts[a].limit
    BY <1>9, <1>14, <2>3, <2>4, <2>6
  <2> QED BY <2>4, <2>5, <2>6
<1> QED BY <1>10, <1>13, <1>14 DEF W

-----------------------------------------------------------------------------
(* The theorems. *)

\* The API starts with the environment's configuration and no rows.
LEMMA InitInvariant ==
  ASSUME Init
  PROVE  IInv /\ Periods
<1>1. /\ now = 0 /\ config = Base /\ posts = <<>> /\ promised = Base /\ partial = FALSE
      /\ settings = [token |-> None, chat |-> None, enabled |-> None, limit |-> None]
      /\ limiter = [last_reset |-> 0, count |-> 0, limit |-> Base.limit]
      /\ updates = 0 /\ restarts = 0
  BY DEF Init, Limiter
<1>2. update = [u \in Updates |-> NoUpdate] /\ send = [s \in Senders |-> NoSend]
  BY DEF Init
<1>3. Base \in Config /\ NoUpdate \in [at : 0..6, new : Config] /\ NoSend \in Message
  BY Constants DEF NoUpdate, NoSend, Message
<1>4. Base.limit \in Nat /\ Base.token \in Tokens /\ Base.enabled \in BOOLEAN
  BY <1>3 DEF Config
<1>5. settings \in Row
  BY <1>1 DEF Row
<1>6. limiter \in [last_reset : Nat, count : Nat, limit : Nat] /\ limiter.last_reset <= now
  BY <1>1, <1>4
<1>7. posts \in Seq([time : Nat, off : BOOLEAN, limit : Nat, run : Nat])
      /\ DOMAIN posts = {}
  BY <1>1
<1>8. Typed
  BY <1>1, <1>2, <1>3, <1>5, <1>6, <1>7 DEF Typed
<1>9. Requests
  BY <1>1, <1>2 DEF Requests, NoUpdate
<1>10. Messages
  BY <1>2, <1>7 DEF Messages, MessageOK, NoSend
<1>11. Promise
  <2>1. Saved.token = Base.token /\ Saved.enabled = Base.enabled
        /\ Saved.limit = Base.limit /\ Saved.chat = Base.chat
    BY <1>1, SavedIs
  <2>2. Settled
    BY <1>1, <2>1 DEF Settled, SameSwitches
  <2> QED BY <1>2, <2>2 DEF Promise
<1>12. Periods
  <2> DEFINE e == [i \in DOMAIN posts |-> 0]
  <2>1. e \in [DOMAIN posts -> Nat] /\ PeriodsOf(e, e)
    BY <1>7 DEF PeriodsOf
  <2> QED BY <2>1 DEF Periods
<1> QED BY <1>8, <1>9, <1>10, <1>11, <1>12 DEF IInv

\* The invariant holds.
THEOREM SettingsInvariant ==
  Spec => [](IInv /\ Periods)
<1>1. (IInv /\ Periods) /\ [Next]_vars => (IInv /\ Periods)'
  BY TypedStep, RequestsStep, MessagesStep, PromiseStep, PeriodsStep DEF IInv
<1>2. Init => IInv /\ Periods
  BY InitInvariant
<1> QED BY <1>1, <1>2, PTL DEF Spec

\* Configuration, rows, limiter, requests and messages have their types.
THEOREM SettingsTypeCorrect ==
  Spec => []TypeOK
<1>1. IInv => TypeOK
  <2> SUFFICES ASSUME IInv PROVE TypeOK
    OBVIOUS
  <2>1. Typed
    BY DEF IInv
  <2>2. DOMAIN settings = ToSet(Fields)
    <3>1. ToSet(Fields) = {"token", "chat", "enabled", "limit"}
      BY FieldsAre DEF ToSet
    <3>2. DOMAIN settings = {"token", "chat", "enabled", "limit"}
      BY <2>1 DEF Typed, Row
    <3> QED BY <3>1, <3>2
  <2>3. Len(Fields) + 2 = 6
    BY FieldsAre
  <2>4. \A u \in Updates : update[u].at \in 0..Len(Fields) + 2 /\ update[u].new \in Config
    BY <2>1, <2>3 DEF Typed
  <2>5. \A s \in Senders : send[s].at \in {"idle", "chat", "token", "posting"}
    BY <2>1 DEF Typed, Message
  <2> QED BY <2>1, <2>2, <2>4, <2>5 DEF Typed, TypeOK
<1> QED BY <1>1, SettingsInvariant, PTL

\* A message is not posted unless the bot was enabled while it was sent; and one
\* between whose two reads nothing was applied has the chat and the token of one
\* configuration.  Of a message with an update in between it says nothing.
THEOREM MessagesAsConfigured ==
  Spec => []PostsAsConfigured
<1>1. IInv => PostsAsConfigured
  BY DEF IInv, Messages, MessageOK, PostsAsConfigured
<1> QED BY <1>1, SettingsInvariant, PTL

\* The rows hold what updates that do not overlap ask for, through starts that
\* cannot read them too; and the memory holds it after a start that can.
THEOREM SettingsSurvive ==
  Spec => []Survives
<1>1. IInv => Survives
  BY DEF IInv, Promise, Settled, Saved, Survives, AllIdle
<1> QED BY <1>1, SettingsInvariant, PTL

\* In no minute of a run does Telegram get more messages than twice a limit
\* that was in force for one of them.
THEOREM RateLimited ==
  Spec => []AtMostTwoPeriods
<1>1. IInv /\ Periods => AtMostTwoPeriods
  BY TwoPeriods DEF IInv
<1> QED BY <1>1, SettingsInvariant, PTL
=============================================================================
