------------------------- MODULE MCTelegramSettings -------------------------
(* TelegramSettings for TLC: an environment with a token and a chat, and    *)
(* requests that switch off, change the token, empty the chat, change the   *)
(* limit.  A tick is a minute.                                               *)
EXTENDS TelegramSettings

CONSTANTS u1, u2, listener, test, envToken, newToken, envChat

MCBase == [enabled |-> TRUE, token |-> envToken, chat |-> envChat, limit |-> 1]

Body(token, chat, enabled, limit) ==
    [token |-> token, chat |-> chat, enabled |-> enabled, limit |-> limit]

MCBodies == {Body(None, envChat, FALSE, None), Body(newToken, envChat, TRUE, None),
             Body(Empty, Empty, TRUE, 2)}

Symmetry == Permutations(Updates)
=============================================================================
