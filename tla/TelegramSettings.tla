-------------------------- MODULE TelegramSettings --------------------------
(***************************************************************************)
(* The Telegram bot and its settings: the configuration in memory, the     *)
(* four rows of system_settings it is kept in, the requests that change    *)
(* both one after the other, the rate limiter, and the messages that read  *)
(* all of this in steps.  Requests overlap and are dropped or fail half    *)
(* way, and the API starts again and loads the rows.                       *)
(***************************************************************************)
EXTENDS Naturals, Sequences, FiniteSets, SequencesExt

CONSTANTS Updates,      \* PUT requests that may be under way at once
          Senders,      \* who sends: the event listener, test requests
          Testers,      \* those of them that are test requests
          Tokens, Chats,
          Empty,        \* the empty string, a token and a chat id
          None,         \* a field not given, a row not there
          Bodies,       \* bodies of PUT requests
          Base,         \* the configuration of the environment
          Minute,       \* 60 s, in ticks
          MaxTime, MaxUpdates, MaxMessages, MaxRestarts  \* bounds

Config == [enabled : BOOLEAN, token : Tokens, chat : Chats, limit : Nat]

ASSUME TelegramAssumption ==
    /\ Testers \subseteq Senders
    /\ Empty \in Tokens \intersect Chats
    /\ Base \in Config /\ None \notin Tokens \union Chats \union BOOLEAN \union Nat
    /\ Bodies \subseteq [token : Tokens \union {None}, chat : Chats,
                         enabled : BOOLEAN, limit : Nat \union {None}]
    /\ {Minute, MaxTime, MaxUpdates, MaxMessages, MaxRestarts} \subseteq Nat

VARIABLES config,     \* TelegramBotInner::config
          settings,   \* the rows telegram.* of system_settings
          limiter,    \* TelegramBotInner::rate_limiter
          update,     \* the PUT requests
          send,       \* the messages under way
          now,
          posts,      \* history: what matters of the requests made to Telegram
          promised,   \* history: what the updates that overlapped with
                      \*   nothing ask for; None since one did, failed, or
                      \*   began with a configuration loaded in part
          partial,    \* history: the last start could not read all the rows
          updates, restarts

vars == <<config, settings, limiter, update, send, now, posts, promised, partial, updates, restarts>>

Fields == <<"token", "chat", "enabled", "limit">>

NoUpdate == [at |-> 0, new |-> Base]
NoSend == [at |-> "idle", chat |-> Empty, token |-> Empty, stale |-> FALSE, off |-> FALSE]

(***************************************************************************)
(* The rate limiter                                                        *)
(***************************************************************************)

Limiter(limit) == [last_reset |-> now, count |-> 0, limit |-> limit]

\* Mutant of Renewed: the counter starts again, the period does not.
RenewedCountOnly ==
    IF now - limiter.last_reset > Minute THEN [limiter EXCEPT !.count = 0] ELSE limiter

\* The first half of check: a new period begins at the first check after the
\* last one has ended.
Renewed == IF now - limiter.last_reset > Minute THEN Limiter(limiter.limit) ELSE limiter

Allowed == Renewed.count < Renewed.limit

(***************************************************************************)
(* Changing the settings                                                   *)
(***************************************************************************)

\* A token left out or empty, and a limit left out, keep their value.
Mutated(current, body) ==
    [enabled |-> body.enabled, chat |-> body.chat,
     token |-> IF body.token \in {None, Empty} THEN current.token ELSE body.token,
     limit |-> IF body.limit = None THEN current.limit ELSE body.limit]

Begin(u) ==
    /\ update[u] = NoUpdate /\ updates < MaxUpdates
    /\ updates' = updates + 1
    /\ \E body \in Bodies :
         /\ update' = [update EXCEPT ![u] = [at |-> 1, new |-> Mutated(config, body)]]
         /\ promised' = IF promised # None /\ ~partial /\ \A v \in Updates : update[v] = NoUpdate
                        THEN Mutated(promised, body) ELSE None
    /\ UNCHANGED <<config, settings, limiter, send, now, posts, partial, restarts>>

\* One row after the other, each in a statement of its own.
Persist(u) ==
    /\ update[u].at \in DOMAIN Fields
    /\ LET field == Fields[update[u].at]
       IN  settings' = [settings EXCEPT ![field] = update[u].new[field]]
    /\ update' = [update EXCEPT ![u].at = @ + 1]
    /\ UNCHANGED <<config, limiter, send, now, posts, promised, partial, updates, restarts>>

\* A statement fails, or the handler is dropped at an await: before a row is
\* written or, the last one included, before the answer that it was.
Abandon(u) ==
    /\ update[u].at \in 1..Len(Fields) + 1
    /\ update' = [update EXCEPT ![u] = NoUpdate]
    /\ promised' = None
    /\ UNCHANGED <<config, settings, limiter, send, now, posts, partial, updates, restarts>>

\* update_config, first half: the configuration is replaced under its lock.
ApplyConfig(u) ==
    /\ update[u].at = Len(Fields) + 1
    /\ config' = update[u].new
    /\ update' = [update EXCEPT ![u].at = @ + 1]
    /\ send' = [s \in Senders |-> [send[s] EXCEPT !.stale = TRUE,
                                                  !.off = @ /\ ~update[u].new.enabled]]
    /\ UNCHANGED <<settings, limiter, now, posts, promised, partial, updates, restarts>>

\* Mutant of ApplyLimit: the limiter keeps the limit it was made with.
ApplyLimitNot(u) ==
    /\ update[u].at = Len(Fields) + 2
    /\ update' = [update EXCEPT ![u] = NoUpdate]
    /\ UNCHANGED <<config, settings, limiter, send, now, posts, promised, partial, updates, restarts>>

\* The second half: the limit is replaced under another; the period goes on.
ApplyLimit(u) ==
    /\ update[u].at = Len(Fields) + 2
    /\ limiter' = [limiter EXCEPT !.limit = update[u].new.limit]
    /\ update' = [update EXCEPT ![u] = NoUpdate]
    /\ UNCHANGED <<config, settings, send, now, posts, promised, partial, updates, restarts>>

(***************************************************************************)
(* Sending                                                                 *)
(***************************************************************************)

Sender(s, record) == send' = [send EXCEPT ![s] = record]

\* send_fire_alert, or a test request that passes its checks, reads the chat.
ReadChat(s) ==
    /\ send[s].at = "idle"
    /\ s \in Testers => config.enabled /\ config.token # Empty /\ config.chat # Empty
    /\ Sender(s, [NoSend EXCEPT !.at = "chat", !.chat = config.chat, !.off = ~config.enabled])
    /\ UNCHANGED <<config, settings, limiter, update, now, posts, promised, partial, updates, restarts>>

\* Mutant of ReadToken: the switch is not looked at.
ReadTokenAlways(s) ==
    /\ send[s].at = "chat"
    /\ Sender(s, [send[s] EXCEPT !.at = "token", !.token = config.token])
    /\ UNCHANGED <<config, settings, limiter, update, now, posts, promised, partial, updates, restarts>>

\* send_message, send_photo: the switch and the token are read, under a lock
\* of their own.
ReadToken(s) ==
    /\ send[s].at = "chat"
    /\ Sender(s, IF config.enabled
                 THEN [send[s] EXCEPT !.at = "token", !.token = config.token] ELSE NoSend)
    /\ UNCHANGED <<config, settings, limiter, update, now, posts, promised, partial, updates, restarts>>

Post(s) == [time |-> now, off |-> send[s].off, limit |-> limiter.limit, run |-> restarts]

\* The limiter is asked; what passes is posted, and counted whatever becomes of it.
Check(s) ==
    /\ send[s].at = "token" /\ Len(posts) < MaxMessages
    /\ IF Allowed
       THEN /\ limiter' = [Renewed EXCEPT !.count = @ + 1]
            /\ posts' = Append(posts, Post(s))
            /\ send' = [send EXCEPT ![s].at = "posting"]
       ELSE /\ limiter' = Renewed
            /\ UNCHANGED posts
            /\ Sender(s, NoSend)
    /\ UNCHANGED <<config, settings, update, now, promised, partial, updates, restarts>>

\* Telegram answers, refuses or does not answer within the time-out.
Return(s) ==
    /\ send[s].at = "posting"
    /\ Sender(s, NoSend)
    /\ UNCHANGED <<config, settings, limiter, update, now, posts, promised, partial, updates, restarts>>

Tick ==
    /\ now < MaxTime
    /\ now' = now + 1
    /\ UNCHANGED <<config, settings, limiter, update, send, posts, promised, partial, updates, restarts>>

(***************************************************************************)
(* Start                                                                   *)
(***************************************************************************)

\* What a start finds in the row of a field: nothing, when its read fails.
Found(field, read) == IF field \in read THEN settings[field] ELSE None

\* Mutant of Loaded: a limit that is not there is not looked up.
LoadedWithoutLimit(read) ==
    [token |-> IF Found("token", read) \in {None, Empty} THEN Base.token ELSE settings.token,
     chat |-> IF Found("chat", read) \in {None, Empty} THEN Base.chat ELSE settings.chat,
     enabled |-> IF Found("enabled", read) = None THEN Base.enabled ELSE settings.enabled,
     limit |-> settings.limit]

\* Rows that are not there, that are empty, or whose read fails leave the value
\* of the environment.
Loaded(read) ==
    [token |-> IF Found("token", read) \in {None, Empty} THEN Base.token ELSE settings.token,
     chat |-> IF Found("chat", read) \in {None, Empty} THEN Base.chat ELSE settings.chat,
     enabled |-> IF Found("enabled", read) = None THEN Base.enabled ELSE settings.enabled,
     limit |-> IF Found("limit", read) = None THEN Base.limit ELSE settings.limit]

\* Any of the reads may fail; the API starts all the same.
Restart ==
    /\ restarts < MaxRestarts
    /\ restarts' = restarts + 1
    /\ \E read \in SUBSET ToSet(Fields) :
         /\ config' = Loaded(read)
         /\ limiter' = Limiter(Loaded(read).limit)
         /\ partial' = (read # ToSet(Fields))
    /\ promised' = IF \A u \in Updates : update[u] = NoUpdate THEN promised ELSE None
    /\ update' = [u \in Updates |-> NoUpdate]
    /\ send' = [s \in Senders |-> NoSend]
    /\ UNCHANGED <<settings, now, posts, updates>>

Init ==
    /\ now = 0
    /\ settings = [token |-> None, chat |-> None, enabled |-> None, limit |-> None]
    /\ config = Base /\ limiter = Limiter(Base.limit)
    /\ update = [u \in Updates |-> NoUpdate]
    /\ send = [s \in Senders |-> NoSend]
    /\ posts = <<>> /\ promised = Base /\ partial = FALSE
    /\ updates = 0 /\ restarts = 0

Next ==
    \/ \E u \in Updates : Begin(u) \/ Persist(u) \/ Abandon(u) \/ ApplyConfig(u) \/ ApplyLimit(u)
    \/ \E s \in Senders : ReadChat(s) \/ ReadToken(s) \/ Check(s) \/ Return(s)
    \/ Tick \/ Restart

Spec == Init /\ [][Next]_vars

(***************************************************************************)
(* Properties                                                              *)
(***************************************************************************)

\* Every variable has its type.
TypeOK ==
    /\ config \in Config
    /\ DOMAIN settings = ToSet(Fields)
    /\ limiter.last_reset <= now /\ {limiter.count, limiter.limit} \subseteq Nat
    /\ \A u \in Updates : update[u].at \in 0..Len(Fields) + 2 /\ update[u].new \in Config
    /\ \A s \in Senders : send[s].at \in {"idle", "chat", "token", "posting"}
    /\ promised \in Config \union {None} /\ partial \in BOOLEAN

Within(t, run) ==
    {i \in DOMAIN posts : posts[i].run = run /\ posts[i].time \in t..t + Minute}

\* telegram.rs:28 "Simple per-minute rate limiter": its periods touch, so a
\* minute may see the messages of two full ones, and never more than twice the
\* highest limit in force, however it is changed in between; a restart begins a
\* new count.
AtMostTwoPeriods ==
    \A t \in 0..now, run \in 0..restarts :
        Within(t, run) = {} \/
        \E i \in Within(t, run) : Cardinality(Within(t, run)) <= 2 * posts[i].limit

\* A message whose sending began while the bot was disabled is not posted unless
\* the bot is enabled meanwhile; and one during which nothing was applied does
\* not mix the chat of one configuration with the token of another.
PostsAsConfigured ==
    /\ \A i \in DOMAIN posts : ~posts[i].off
    /\ \A s \in Senders :
         send[s].at \in {"token", "posting"} /\ ~send[s].stale
            => send[s].chat = config.chat /\ send[s].token = config.token

\* But for the chat.
SameSwitches(c, d) == c.token = d.token /\ c.enabled = d.enabled /\ c.limit = d.limit

\* main.rs:259 "Allows runtime updates via the Settings UI to survive API
\* restarts": while no update overlapped another, failed or was cut off, what a
\* start loads that can read all the rows is what the updates asked for, and so
\* is the configuration in memory, the limiter's limit included, except that an
\* emptied chat id is the environment's again.  A start that cannot read a row
\* takes the environment's value instead: the row stays for the next start, but
\* an update in between writes what it finds in memory over it.
Survives ==
    (promised # None /\ \A u \in Updates : update[u] = NoUpdate) =>
        LET saved == Loaded(ToSet(Fields)) IN
        /\ SameSwitches(saved, promised)
        /\ settings.chat # Empty => saved.chat = promised.chat
        /\ limiter.limit = config.limit
        /\ ~partial => /\ SameSwitches(config, promised)
                       /\ settings.chat # Empty => config.chat = promised.chat
=============================================================================
